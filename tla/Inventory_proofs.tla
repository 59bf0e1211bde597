-------------------------- MODULE Inventory_proofs ---------------------------
(***************************************************************************)
(* Proofs about the products and who writes them: sales, cancellations and *)
(* stock adjustments together; the service orders of the workshop; the     *)
(* shop, where purchases, service orders and quick services run besides    *)
(* the sales; and the movements that must explain its documents.           *)
(***************************************************************************)
EXTENDS Reports, Inventory, Sales_proofs

-----------------------------------------------------------------------------
(* The stockroom *)


\* What an adjustment under way has computed is a stock.
AdjustAt(r) ==
    pc[r] = "writeAdjust" => adjusting[r] \in Adjusting /\ adjusting[r].newStock >= 0

StockroomInv ==
    /\ TypeInv /\ StockInv
    /\ InventoryTypeOK
    /\ \A r \in Request : AdjustAt(r)

\* The initial state.
LEMMA InitStockroom == StockroomInit => StockroomInv
<1> SUFFICES ASSUME StockroomInit PROVE StockroomInv
  OBVIOUS
<1>1. Init /\ TypeInv
  BY InitTypeInv DEF StockroomInit
<1>2. StockInv
  BY <1>1, ProductAssumption DEF Init, RowsInit, StockInv, StockNeverNegative, SeenNotNegative
<1>3. InventoryTypeOK
  BY <1>1 DEF StockroomInit, InventoryTypeOK, TypeInv, TypeOK
<1>4. QED
  BY <1>1, <1>2, <1>3 DEF StockroomInit, Init, StockroomInv, AdjustAt

\* A step of create or cancel changes the label of one request, to one of theirs.
LEMMA SaleLabels ==
    ASSUME TypeInv, Next
    PROVE  \E r \in Request :
             /\ pc'[r] \in SaleLabel \cup {"idle"}
             /\ \A q \in Request \ {r} : pc'[q] = pc[q]
<1> USE DEF SaleLabel, CreateLabel, CancelLabel, Step
<1>0. DOMAIN pc = Request
  BY DEF TypeInv, TypeOK
<1>1. ASSUME NEW r \in Request, NEW from, NEW to \in SaleLabel \cup {"idle"}, Step(r, from, to)
      PROVE  pc'[r] \in SaleLabel \cup {"idle"} /\ \A q \in Request \ {r} : pc'[q] = pc[q]
  BY <1>0, <1>1
<1>2. ASSUME NEW r \in Request, NEW from, NEW again \in SaleLabel, NEW next \in SaleLabel,
             NextItem(r, from, again, next)
      PROVE  pc'[r] \in SaleLabel \cup {"idle"} /\ \A q \in Request \ {r} : pc'[q] = pc[q]
  BY <1>1, <1>2 DEF NextItem
<1>3. ASSUME NEW r \in Request, CreateStep(r)
      PROVE  pc'[r] \in SaleLabel \cup {"idle"} /\ \A q \in Request \ {r} : pc'[q] = pc[q]
  BY <1>1, <1>2, <1>3 DEF CreateStep, ValidateItem, CountSales, InsertSale, DecrementStock,
     CollectPayment, CommitSale
<1>4. ASSUME NEW r \in Request, CancelStep(r)
      PROVE  pc'[r] \in SaleLabel \cup {"idle"} /\ \A q \in Request \ {r} : pc'[q] = pc[q]
  BY <1>1, <1>2, <1>4 DEF CancelStep, ReadStock, Restock, MarkCancelled, RefundSale, CommitCancel
<1>5. ASSUME NEW r \in Request, RollbackSale(r)
      PROVE  pc'[r] \in SaleLabel \cup {"idle"} /\ \A q \in Request \ {r} : pc'[q] = pc[q]
  BY <1>0, <1>5 DEF RollbackSale
<1>6. QED
  BY <1>1, <1>3, <1>4, <1>5 DEF Next, SellNext, CancelNext, StartSale, StartCancel

\* Sales and cancellations keep the invariant.
LEMMA SalesKeepStockroom ==
    ASSUME StockroomInv, Next, UNCHANGED adjusting
    PROVE  StockroomInv'
<1>1. TypeInv' /\ StockInv'
  BY NextTypeInv, NextStockInv DEF StockroomInv
<1>2. InventoryTypeOK'
  BY <1>1 DEF StockroomInv, InventoryTypeOK, TypeInv, TypeOK
<1>3. PICK r \in Request : /\ pc'[r] \in SaleLabel \cup {"idle"}
                           /\ \A q \in Request \ {r} : pc'[q] = pc[q]
  BY SaleLabels DEF StockroomInv
<1>4. \A q \in Request : AdjustAt(q)'
  BY <1>3 DEF StockroomInv, AdjustAt, SaleLabel, CreateLabel, CancelLabel
<1>5. QED
  BY <1>1, <1>2, <1>4 DEF StockroomInv

\* A step of an adjustment changes no variable of the sales.
LEMMA SalesFrame ==
    ASSUME TypeInv, StockInv, NEW r \in Request, NEW to \in AdjustLabel \cup {"idle"},
           pc' = [pc EXCEPT ![r] = to], UNCHANGED <<cashVars, saleVars>>,
           RowsTypeOK', StockNeverNegative'
    PROVE  TypeInv' /\ StockInv'
<1>0. TypeOK /\ LocalOK /\ DOMAIN pc = Request
  BY DEF TypeInv, TypeOK
<1>1. TypeOK'
  BY <1>0, SameCashType DEF TypeOK, saleVars
<1>2. LocalAt(r)'
  BY <1>0 DEF LocalAt, AdjustLabel, SaleLabel, CreateLabel, CancelLabel
<1>3. LocalOK'
  BY <1>0, <1>2, LocalFrame DEF cashVars, saleVars, Registered
<1>4. QED
  BY <1>1, <1>3 DEF TypeInv, StockInv, SeenNotNegative, saleVars

\* Adjustments and deactivations keep the invariant.
LEMMA InventoryKeepsStockroom ==
    ASSUME StockroomInv, InventoryNext, UNCHANGED <<cashVars, saleVars>>
    PROVE  StockroomInv'
<1> USE DEF Step, AdjustLabel
<1>0. /\ TypeInv /\ StockInv /\ InventoryTypeOK /\ RowsTypeOK /\ StockNeverNegative
      /\ DOMAIN pc = Request
      /\ adjusting \in [Request -> Adjusting \cup {None}]
      /\ \A r \in Request : AdjustAt(r)
  BY DEF StockroomInv, InventoryTypeOK, StockInv
<1>1. ASSUME NEW r \in Request, NEW p \in Product, NEW a \in Adjustment, StartAdjust(r, p, a)
      PROVE  StockroomInv'
  <2> DEFINE new == ResolveNewStock(stock[p], a)
             row == [product |-> p, previousStock |-> stock[p], newStock |-> new]
  <2>1. new \in Nat /\ stock[p] \in Int
    BY <1>0, <1>1, AdjustmentAssumption DEF StartAdjust, RowsTypeOK
  <2>2. adjusting' = [adjusting EXCEPT ![r] = row]
    BY <1>1 DEF StartAdjust
  <2> HIDE DEF new
  <2>3. row \in Adjusting /\ row.newStock >= 0
    BY <2>1 DEF Adjusting
  <2> HIDE DEF row
  <2>4. RowsTypeOK' /\ StockNeverNegative'
    BY <1>0, <1>1, SameRowsType DEF StartAdjust, StockNeverNegative, rowVars
  <2>5. TypeInv' /\ StockInv'
    BY <1>0, <1>1, <2>4, SalesFrame DEF StartAdjust
  <2>6. InventoryTypeOK' /\ \A q \in Request : AdjustAt(q)'
    BY <1>0, <1>1, <2>2, <2>3, <2>4 DEF StartAdjust, InventoryTypeOK, AdjustAt
  <2>7. QED
    BY <2>5, <2>6 DEF StockroomInv
<1>2. ASSUME NEW r \in Request, WriteAdjust(r)
      PROVE  StockroomInv'
  <2> DEFINE a == adjusting[r]
  <2>1. a.product \in Product /\ a.newStock \in Nat /\ a.newStock - a.previousStock \in Int
    BY <1>0, <1>2 DEF WriteAdjust, AdjustAt, Adjusting
  <2>2. WriteStock(r, a.product, a.newStock, a.newStock - a.previousStock)
    BY <1>2 DEF WriteAdjust
  <2> HIDE DEF a
  <2>3. RowsTypeOK' /\ StockNeverNegative'
    BY <1>0, <2>1, <2>2, WriteStockType, WriteNotNegative
  <2>4. TypeInv' /\ StockInv'
    BY <1>0, <1>2, <2>3, SalesFrame DEF WriteAdjust
  <2>5. InventoryTypeOK' /\ \A q \in Request : AdjustAt(q)'
    BY <1>0, <1>2, <2>3 DEF WriteAdjust, InventoryTypeOK, AdjustAt
  <2>6. QED
    BY <2>4, <2>5 DEF StockroomInv
<1>3. ASSUME NEW r \in Request, CommitAdjust(r) \/ RollbackAdjust(r)
      PROVE  StockroomInv'
  <2>1. RowsTypeOK'
    BY <1>0, <1>3, CommitRowsType, RollbackRowsType DEF CommitAdjust, RollbackAdjust
  <2>2. StockNeverNegative'
    <3>1. CASE CommitRows(r)
      BY <1>0, <3>1, VisibleNotNegative DEF CommitRows, StockNeverNegative, RowsTypeOK
    <3>2. CASE RollbackRows(r)
      BY <1>0, <3>2 DEF RollbackRows, StockNeverNegative, RowsTypeOK
    <3>3. QED
      BY <1>3, <3>1, <3>2 DEF CommitAdjust, RollbackAdjust
  <2>3. TypeInv' /\ StockInv'
    BY <1>0, <1>3, <2>1, <2>2, SalesFrame DEF CommitAdjust, RollbackAdjust
  <2>4. InventoryTypeOK' /\ \A q \in Request : AdjustAt(q)'
    BY <1>0, <1>3, <2>1 DEF CommitAdjust, RollbackAdjust, InventoryTypeOK, AdjustAt
  <2>5. QED
    BY <2>3, <2>4 DEF StockroomInv
<1>4. ASSUME NEW r \in Request, NEW p \in Product, DeactivateProduct(r, p)
      PROVE  StockroomInv'
  <2>1. RowsTypeOK' /\ StockNeverNegative'
    BY <1>0, <1>4 DEF DeactivateProduct, RowsTypeOK, StockNeverNegative
  <2>2. QED
    <3>1. TypeInv'
      <4>1. TypeOK' /\ LocalOK'
        BY <1>0, <1>4, <2>1, SameCashType DEF DeactivateProduct, TypeInv, TypeOK, LocalOK,
           LocalAt, saleVars, cashVars, Registered
      <4>2. QED
        BY <4>1 DEF TypeInv
    <3>2. QED
      BY <1>0, <1>4, <2>1, <3>1 DEF DeactivateProduct, StockroomInv, StockInv, SeenNotNegative,
         InventoryTypeOK, AdjustAt, saleVars
<1>5. QED
  BY <1>1, <1>2, <1>3, <1>4 DEF InventoryNext

\* Every step of the stockroom keeps the invariant.
LEMMA NextStockroom == StockroomInv /\ [StockroomNext]_stockroomVars => StockroomInv'
<1> SUFFICES ASSUME StockroomInv, [StockroomNext]_stockroomVars PROVE StockroomInv'
  OBVIOUS
<1>1. CASE Next /\ UNCHANGED adjusting
  BY <1>1, SalesKeepStockroom
<1>2. CASE InventoryNext /\ UNCHANGED <<cashVars, saleVars>>
  BY <1>2, InventoryKeepsStockroom
<1>3. CASE UNCHANGED stockroomVars
  <2>1. UNCHANGED vars /\ UNCHANGED rowVars /\ UNCHANGED pc
    BY <1>3 DEF stockroomVars, vars
  <2>2. TypeInv' /\ StockInv'
    BY <2>1, NextTypeInv, NextStockInv DEF StockroomInv
  <2>3. QED
    BY <1>3, <2>1, <2>2, SameRowsType DEF stockroomVars, StockroomInv, InventoryTypeOK, AdjustAt
<1>4. QED
  BY <1>1, <1>2, <1>3 DEF StockroomNext

\* Whatever sales, cancellations and adjustments run at once, no stock goes
\* below zero: an adjustment writes the stock it computed and checked, however
\* stale.
THEOREM StockroomStockNeverNegative == StockroomSpec => []StockNeverNegative
<1>1. StockroomInv /\ [StockroomNext]_stockroomVars => StockroomInv'
  BY NextStockroom
<1>2. StockroomInv => StockNeverNegative
  BY DEF StockroomInv, StockInv
<1>3. QED
  BY <1>1, <1>2, InitStockroom, PTL DEF StockroomSpec

-----------------------------------------------------------------------------
(* Sale codes and cancellations, while adjustments run beside them *)

\* A step of an adjustment or a deactivation, as the sales see it.
LEMMA InventoryFrame ==
    ASSUME TypeInv, InventoryNext
    PROVE  \E r \in Request :
             /\ \/ {pc[r], pc'[r]} \subseteq AdjustLabel \cup {"idle"}
                \/ pc'[r] = pc[r]
             /\ \A q \in Request \ {r} : pc'[q] = pc[q]
  BY DEF TypeInv, TypeOK, InventoryNext, StartAdjust, WriteAdjust, CommitAdjust, RollbackAdjust,
     DeactivateProduct, Step, AdjustLabel

\* Neither do they compute a number.
LEMMA StockroomCodes ==
    ASSUME TypeInv, CodesInv, [StockroomNext]_stockroomVars
    PROVE  CodesInv'
<1>1. CASE Next \/ UNCHANGED stockroomVars
  BY <1>1, NextCodesInv DEF stockroomVars
<1>2. CASE InventoryNext /\ UNCHANGED <<cashVars, saleVars>>
  <2>1. PICK r \in Request : /\ pc'[r] \in AdjustLabel \cup {"idle"} \/ pc'[r] = pc[r]
                             /\ \A q \in Request \ {r} : pc'[q] = pc[q]
    BY <1>2, InventoryFrame
  <2>2. number' = number /\ Registered' = Registered
    BY <1>2 DEF saleVars, Registered
  <2>3. /\ pc'[r] = "insert" => number'[r] <= Cardinality(Registered) + 1
        /\ HasInserted(r)' => HasInserted(r) /\ number'[r] = number[r]
    BY <2>1, <2>2 DEF CodesInv, NumbersInRange, HasInserted, AdjustLabel
  <2>4. QED
    BY <2>1, <2>2, <2>3, CodesFrame
<1>3. QED
  BY <1>1, <1>2 DEF StockroomNext

\* The codes stay consecutive whatever the stockroom does besides.
THEOREM StockroomCodesAreConsecutive == StockroomSpec => []CodesAreConsecutive
<1>1. StockroomInit => StockroomInv /\ CodesInv
  BY InitStockroom, InitCodesInv DEF StockroomInit
<1>2. StockroomInv /\ CodesInv /\ [StockroomNext]_stockroomVars => (StockroomInv /\ CodesInv)'
  BY StockroomCodes, NextStockroom DEF StockroomInv
<1>3. StockroomInv /\ CodesInv => CodesAreConsecutive
  BY DEF CodesInv
<1>4. QED
  BY <1>1, <1>2, <1>3, PTL DEF StockroomSpec

\* The only administrator waits for each answer.  Two cancellations of one sale
\* by two administrators' requests both pass the check and both commit.
OneAdminSlot == \A r, q \in Request : userOf[r] \in Admin /\ userOf[q] \in Admin => r = q

\* A cancellation under way is of a sale that is not cancelled yet.
CancelAt(r) ==
    pc[r] \in CancelLabel =>
        /\ userOf[r] \in Admin
        /\ number[r] \in SaleNumber
        /\ sale[number[r]].status = "COMPLETED"

OnceInv ==
    /\ \A n \in SaleNumber :
         /\ sale[n].status = "COMPLETED" => sale[n].cancellations = 0
         /\ sale[n].status = "CANCELLED" => sale[n].cancellations = 1
    /\ \A r \in Request : CancelAt(r)

\* A step that writes no sale and starts no cancellation.
LEMMA OnceFrame ==
    ASSUME OnceInv, NEW r \in Request, sale' = sale,
           \A q \in Request \ {r} : pc'[q] = pc[q] /\ number'[q] = number[q],
           pc'[r] \in CancelLabel => pc[r] \in CancelLabel /\ number'[r] = number[r]
    PROVE  OnceInv'
  BY DEF OnceInv, CancelAt

LEMMA NextOnceInv ==
    ASSUME OneAdminSlot, TypeInv, OnceInv, Next
    PROVE  OnceInv'
<1> USE DEF CancelLabel, Step
<1>0. /\ DOMAIN pc = Request /\ number \in [Request -> Nat]
      /\ sale \in [SaleNumber -> SaleRow \cup {NoSale}]
      /\ LocalOK
  BY DEF TypeInv, TypeOK
<1>1. ASSUME NEW r \in Request, CreateStep(r)
      PROVE  OnceInv'
  <2>1. CASE CommitSale(r)
    <3>1. /\ pc'[r] = "idle"
          /\ \A q \in Request \ {r} : pc'[q] = pc[q] /\ number'[q] = number[q]
      BY <1>0, <2>1 DEF CommitSale, Forget
    <3>2. PICK n : n = number[r]
      OBVIOUS
    <3>3. /\ \A m \in SaleNumber \ {n} : sale'[m] = sale[m]
          /\ n \in SaleNumber =>
               sale'[n].status = "COMPLETED" /\ sale'[n].cancellations = 0
      BY <1>0, <2>1, <3>2 DEF CommitSale
    <3>4. QED
      BY <3>1, <3>3 DEF OnceInv, CancelAt
  <2>2. CASE CountSales(r)
    <3>1. /\ sale' = sale /\ pc'[r] = "insert"
          /\ \A q \in Request \ {r} : pc'[q] = pc[q] /\ number'[q] = number[q]
      BY <1>0, <2>2 DEF CountSales
    <3>2. QED
      BY <3>1, OnceFrame
  <2>3. CASE ValidateItem(r) \/ InsertSale(r) \/ DecrementStock(r) \/ CollectPayment(r)
    <3>1. /\ sale' = sale /\ number' = number
          /\ pc'[r] \notin CancelLabel
          /\ \A q \in Request \ {r} : pc'[q] = pc[q]
      BY <1>0, <2>3 DEF ValidateItem, InsertSale, DecrementStock, CollectPayment, NextItem, saleVars
    <3>2. QED
      BY <3>1, OnceFrame
  <2>4. QED
    BY <1>1, <2>1, <2>2, <2>3 DEF CreateStep
<1>2. ASSUME NEW r \in Request, CancelStep(r)
      PROVE  OnceInv'
  <2>1. CASE CommitCancel(r)
    <3>1. pc[r] = "commitCancel" /\ pc'[r] = "idle"
      BY <1>0, <2>1 DEF CommitCancel
    <3>2. /\ \A q \in Request \ {r} : pc'[q] = pc[q] /\ number'[q] = number[q]
          /\ userOf[r] \in Admin
      BY <1>0, <2>1, <3>1 DEF CommitCancel, Forget, OnceInv, CancelAt
    <3>3. \A q \in Request \ {r} : pc[q] \notin CancelLabel
      BY <3>2 DEF OneAdminSlot, OnceInv, CancelAt
    <3>4. PICK n : n = number[r]
      OBVIOUS
    <3>5. n \in SaleNumber /\ sale[n].status = "COMPLETED" /\ sale[n] \in SaleRow
      BY <1>0, <3>1, <3>4 DEF OnceInv, CancelAt, NoSale
    <3>6. /\ \A m \in SaleNumber \ {n} : sale'[m] = sale[m]
          /\ sale'[n].status = "CANCELLED" /\ sale'[n].cancellations = 1
      <4>1. sale' = [sale EXCEPT ![n].status = "CANCELLED", ![n].cancellations = @ + 1]
        BY <2>1, <3>4 DEF CommitCancel
      <4>2. sale[n].cancellations = 0
        BY <3>5 DEF OnceInv
      <4>3. QED
        BY <1>0, <3>5, <4>1, <4>2 DEF SaleRow
    <3>7. QED
      BY <3>1, <3>2, <3>3, <3>6 DEF OnceInv, CancelAt
  <2>2. CASE ReadStock(r) \/ Restock(r) \/ MarkCancelled(r) \/ RefundSale(r)
    <3>1. /\ sale' = sale /\ number' = number /\ pc[r] \in CancelLabel
          /\ \A q \in Request \ {r} : pc'[q] = pc[q]
      BY <1>0, <2>2 DEF ReadStock, Restock, MarkCancelled, RefundSale, NextItem, saleVars
    <3>2. QED
      BY <3>1, OnceFrame
  <2>3. QED
    BY <1>2, <2>1, <2>2 DEF CancelStep
<1>3. ASSUME NEW r \in Request, RollbackSale(r)
      PROVE  OnceInv'
  <2>1. /\ sale' = sale /\ pc'[r] = "idle"
        /\ \A q \in Request \ {r} : pc'[q] = pc[q] /\ number'[q] = number[q]
    BY <1>0, <1>3 DEF RollbackSale, Forget
  <2>2. QED
    BY <2>1, OnceFrame
<1>4. ASSUME NEW r \in Request, NEW o \in Order, StartSale(r, o)
      PROVE  OnceInv'
  <2>1. /\ sale' = sale /\ number' = number /\ pc'[r] = "validate"
        /\ \A q \in Request \ {r} : pc'[q] = pc[q]
    BY <1>0, <1>4 DEF StartSale
  <2>2. QED
    BY <2>1, OnceFrame
<1>5. ASSUME NEW r \in Request, NEW n \in SaleNumber, StartCancel(r, n)
      PROVE  OnceInv'
  <2>1. /\ sale' = sale /\ number'[r] = n /\ pc'[r] = "readStock"
        /\ userOf[r] \in Admin /\ sale[n].status = "COMPLETED"
        /\ \A q \in Request \ {r} : pc'[q] = pc[q] /\ number'[q] = number[q]
    BY <1>0, <1>5 DEF StartCancel
  <2>2. QED
    BY <2>1 DEF OnceInv, CancelAt
<1>6. QED
  BY <1>1, <1>2, <1>3, <1>4, <1>5 DEF Next, SellNext, CancelNext

\* While one request at a time may cancel, no sale is cancelled twice, whatever
\* sales and adjustments run beside it and whatever fails.
THEOREM StockroomCancelledOnce ==
    ASSUME OneAdminSlot
    PROVE  StockroomSpec => []CancelledOnce
<1>1. ASSUME StockroomInit PROVE StockroomInv /\ OnceInv
  <2>1. /\ \A r \in Request : pc[r] = "idle"
        /\ \A n \in SaleNumber : sale[n].status = "NONE"
    BY <1>1 DEF StockroomInit, Init, NoSale
  <2>2. QED
    BY <1>1, <2>1, InitStockroom DEF OnceInv, CancelAt, CancelLabel
<1>2. ASSUME TypeInv, OnceInv, [StockroomNext]_stockroomVars
      PROVE  OnceInv'
  <2>1. CASE Next
    BY <1>2, <2>1, NextOnceInv
  <2>2. CASE InventoryNext /\ UNCHANGED <<cashVars, saleVars>>
    <3>1. PICK r \in Request : /\ pc'[r] \in AdjustLabel \cup {"idle"} \/ pc'[r] = pc[r]
                               /\ \A q \in Request \ {r} : pc'[q] = pc[q]
      BY <1>2, <2>2, InventoryFrame
    <3>2. number' = number /\ sale' = sale
      BY <2>2 DEF saleVars
    <3>3. QED
      BY <1>2, <3>1, <3>2, OnceFrame DEF AdjustLabel, CancelLabel
  <2>3. CASE UNCHANGED stockroomVars
    BY <1>2, <2>3 DEF stockroomVars, vars, saleVars, OnceInv, CancelAt
  <2>4. QED
    BY <1>2, <2>1, <2>2, <2>3 DEF StockroomNext
<1>3. StockroomInv /\ OnceInv /\ [StockroomNext]_stockroomVars => (StockroomInv /\ OnceInv)'
  BY <1>2, NextStockroom DEF StockroomInv
<1>4. StockroomInv /\ OnceInv => CancelledOnce
  <2> SUFFICES ASSUME StockroomInv, OnceInv, NEW n \in Registered
               PROVE  sale[n].cancellations <= 1
    BY DEF CancelledOnce
  <2>1. n \in SaleNumber /\ sale[n] \in SaleRow
    BY DEF StockroomInv, TypeInv, TypeOK, Registered, NoSale
  <2>2. QED
    BY <2>1 DEF OnceInv, SaleRow
<1>5. QED
  BY <1>1, <1>3, <1>4, PTL DEF StockroomSpec

-----------------------------------------------------------------------------
(* The money of the sales, while adjustments and cancellations run beside them *)

\* A handler holds SALE movements only between registerSaleMovement and its
\* commit, and they are the payments of its order.
PostingAt(r) ==
    \A m \in Method :
        posting[r]["SALE"][m] = IF pc[r] = "commitSale" THEN order[r].pays[m] ELSE 0

TakingsInv == TakingsMatchSales /\ \A r \in Request : PostingAt(r)

\* Neither the sales, as far as the sums read them, nor the SALE movements change.
LEMMA TakingsStay ==
    ASSUME TakingsMatchSales, Registered' = Registered,
           \A n \in Registered : sale'[n].till = sale[n].till /\ sale'[n].order = sale[n].order,
           \A s \in Session, m \in Method : takings'[s]["SALE"][m] = takings[s]["SALE"][m]
    PROVE  TakingsMatchSales'
<1> SUFFICES ASSUME NEW s \in Session, NEW m \in Method
             PROVE  takings'[s]["SALE"][m] = SumFunctionOnSet(PaidBy(m)', SalesIn(s)')
  BY DEF TakingsMatchSales
<1>1. SalesIn(s)' = SalesIn(s)
  BY DEF SalesIn
<1>2. PICK f, g, S : f = PaidBy(m) /\ g = PaidBy(m)' /\ S = SalesIn(s)
  OBVIOUS
<1>3. IsFiniteSet(S) /\ \A n \in S : f[n] = g[n]
  BY <1>2, RegisteredFinite, FS_Subset DEF PaidBy, SalesIn
<1>4. SumFunctionOnSet(f, S) = SumFunctionOnSet(g, S)
  BY <1>3, SumSame
<1>5. QED
  BY <1>1, <1>2, <1>4 DEF TakingsMatchSales

\* One sale is registered, and its payments enter its session.
LEMMA TakingsGrow ==
    ASSUME TypeInv, TakingsMatchSales, NEW n, n \notin Registered, NEW o \in Order, NEW t \in Session,
           Registered' = Registered \cup {n},
           \A k \in Registered : sale'[k] = sale[k],
           sale'[n].order = o, sale'[n].till = t,
           \A s \in Session, m \in Method : takings'[s]["SALE"][m] =
             IF s = t THEN takings[s]["SALE"][m] + o.pays[m] ELSE takings[s]["SALE"][m]
    PROVE  TakingsMatchSales'
<1> SUFFICES ASSUME NEW s \in Session, NEW m \in Method
             PROVE  takings'[s]["SALE"][m] = SumFunctionOnSet(PaidBy(m)', SalesIn(s)')
  BY DEF TakingsMatchSales
<1>1. PICK f, g, S : f = PaidBy(m) /\ g = PaidBy(m)' /\ S = SalesIn(s)
  OBVIOUS
<1>2. IsFiniteSet(S) /\ n \notin S
  BY <1>1, RegisteredFinite, FS_Subset DEF SalesIn
<1>3. \A k \in S : f[k] = g[k]
  BY <1>1 DEF PaidBy, SalesIn
<1>4. SumFunctionOnSet(f, S) = SumFunctionOnSet(g, S)
  BY <1>2, <1>3, SumSame
<1>5. \A k \in Registered : sale[k].order \in Order
  BY DEF TypeInv, TypeOK, Registered, SaleRow, NoSale
<1>6. \A k \in Registered' : sale'[k].order.pays[m] \in Int
  BY <1>5, OrderFacts
<1>7. g[n] \in Int /\ \A k \in S : g[k] \in Int
  BY <1>1, <1>6 DEF PaidBy, SalesIn
<1>8. SumFunctionOnSet(g, S \cup {n}) = SumFunctionOnSet(g, S) + g[n]
  BY <1>2, <1>7, SumAdded
<1>9. g[n] = o.pays[m]
  BY <1>1 DEF PaidBy
<1>10. takings[s]["SALE"][m] = SumFunctionOnSet(f, S)
  BY <1>1 DEF TakingsMatchSales
<1>11. CASE s = t
  <2>1. SalesIn(s)' = S \cup {n}
    BY <1>1, <1>11 DEF SalesIn
  <2>2. QED
    BY <1>1, <1>4, <1>8, <1>9, <1>10, <1>11, <2>1
<1>12. CASE s # t
  <2>1. SalesIn(s)' = S
    BY <1>1, <1>12 DEF SalesIn
  <2>2. QED
    BY <1>1, <1>4, <1>10, <1>12, <2>1
<1>13. QED
  BY <1>11, <1>12

\* A step of r that writes neither sales nor cash movements.
LEMMA PostingsStay ==
    ASSUME TakingsInv, NEW r \in Request, PostingAt(r)', TakingsMatchSales',
           \A q \in Request \ {r} :
             pc'[q] = pc[q] /\ posting'[q] = posting[q] /\ order'[q] = order[q]
    PROVE  TakingsInv'
  BY DEF TakingsInv, PostingAt

LEMMA QuietTakings ==
    ASSUME TakingsInv, NEW r \in Request, UNCHANGED <<sale, takings, posting>>,
           pc[r] # "commitSale", pc'[r] # "commitSale",
           \A q \in Request \ {r} : pc'[q] = pc[q] /\ order'[q] = order[q]
    PROVE  TakingsInv'
<1>1. TakingsMatchSales'
  BY TakingsStay DEF TakingsInv, Registered
<1>2. PostingAt(r)'
  BY DEF TakingsInv, PostingAt
<1>3. QED
  BY <1>1, <1>2, PostingsStay

LEMMA NextTakingsInv ==
    ASSUME TypeInv, CodesInv, TakingsInv, Next
    PROVE  TakingsInv'
<1> USE DEF Step
<1>0. /\ DOMAIN pc = Request /\ order \in [Request -> Order \cup {None}]
      /\ posting \in [Request -> Book] /\ takings \in [Session -> Book]
      /\ till \in [Request -> Session \cup {None}]
      /\ sale \in [SaleNumber -> SaleRow \cup {NoSale}]
      /\ LocalOK /\ TakingsMatchSales
      /\ \A r \in Request : PostingAt(r)
  BY DEF TypeInv, TypeOK, CashBookTypeOK, TakingsInv
<1>1. ASSUME NEW r \in Request, CommitSale(r)
      PROVE  TakingsInv'
  <2>1. /\ pc[r] = "commitSale" /\ pc' = [pc EXCEPT ![r] = "idle"]
        /\ order' = [order EXCEPT ![r] = None]
        /\ posting' = [posting EXCEPT ![r] = NoPosting]
    BY <1>1 DEF CommitSale, Forget, CommitPostings
  <2>2. PICK n, o, t : n = number[r] /\ o = order[r] /\ t = till[r]
    OBVIOUS
  <2>3. o \in Order /\ t \in Session /\ n \in SaleNumber
    BY <1>0, <2>1, <2>2 DEF LocalOK, LocalAt, SaleLabel, CreateLabel
  <2>4. n \notin Registered
    <3>1. n = Cardinality(Registered) + 1 /\ Registered = 1..Cardinality(Registered)
      BY <2>1, <2>2 DEF CodesInv, NumbersInRange, CodesAreConsecutive, HasInserted
    <3>2. QED
      BY <3>1, RegisteredFinite
  <2>5. /\ \A k \in SaleNumber \ {n} : sale'[k] = sale[k]
        /\ sale'[n].order = o /\ sale'[n].till = t /\ sale'[n].status # "NONE"
    BY <1>0, <1>1, <2>2, <2>3 DEF CommitSale
  <2>6. /\ Registered' = Registered \cup {n}
        /\ \A k \in Registered : sale'[k] = sale[k]
    BY <2>3, <2>4, <2>5 DEF Registered
  <2>7. ASSUME NEW s \in Session, NEW m \in Method
        PROVE  takings'[s]["SALE"][m] =
                 IF s = t THEN takings[s]["SALE"][m] + o.pays[m] ELSE takings[s]["SALE"][m]
    <3>1. posting[r]["SALE"][m] = o.pays[m]
      BY <1>0, <2>1, <2>2 DEF PostingAt
    <3>2. takings'[s] = IF s = t THEN Add(takings[s], posting[r]) ELSE takings[s]
      BY <1>1, <2>2 DEF CommitSale, CommitPostings
    <3>3. QED
      BY <3>1, <3>2 DEF Add, MoveType
  <2>8. TakingsMatchSales'
    BY <1>0, <2>3, <2>4, <2>5, <2>6, <2>7, TakingsGrow
  <2>9. PostingAt(r)'
    BY <1>0, <2>1 DEF PostingAt, NoPosting, MoveType
  <2>10. QED
    BY <1>0, <2>1, <2>8, <2>9, PostingsStay
<1>2. ASSUME NEW r \in Request, CommitCancel(r)
      PROVE  TakingsInv'
  <2>1. /\ pc[r] = "commitCancel" /\ pc' = [pc EXCEPT ![r] = "idle"]
        /\ order' = [order EXCEPT ![r] = None]
        /\ posting' = [posting EXCEPT ![r] = NoPosting]
    BY <1>2 DEF CommitCancel, Forget, CommitPostings
  <2>2. PICK n : n = number[r]
    OBVIOUS
  <2>3. n \in Registered /\ n \in SaleNumber /\ sale[n] \in SaleRow
    BY <1>0, <2>1, <2>2 DEF LocalOK, LocalAt, CancelLabel, Registered, NoSale
  <2>4. sale' = [sale EXCEPT ![n].status = "CANCELLED", ![n].cancellations = @ + 1]
    BY <1>2, <2>2 DEF CommitCancel
  <2>5. /\ \A k \in SaleNumber \ {n} : sale'[k] = sale[k]
        /\ sale'[n].order = sale[n].order /\ sale'[n].till = sale[n].till
        /\ sale'[n].status = "CANCELLED"
    BY <1>0, <2>3, <2>4 DEF SaleRow
  <2>6. Registered' = Registered
    BY <2>3, <2>5 DEF Registered
  <2>7. ASSUME NEW s \in Session, NEW m \in Method
        PROVE  takings'[s]["SALE"][m] = takings[s]["SALE"][m]
    <3>1. posting[r]["SALE"][m] = 0
      BY <1>0, <2>1 DEF PostingAt
    <3>2. takings'[s] = Add(takings[s], posting[r]) \/ takings'[s] = takings[s]
      BY <1>2 DEF CommitCancel, CommitPostings
    <3>3. takings[s]["SALE"][m] \in Int
      BY <1>0 DEF Book, MoveType
    <3>4. QED
      BY <3>1, <3>2, <3>3 DEF Add, MoveType
  <2>8. TakingsMatchSales'
    BY <1>0, <2>5, <2>6, <2>7, TakingsStay DEF Registered
  <2>9. PostingAt(r)'
    BY <1>0, <2>1 DEF PostingAt, NoPosting, MoveType
  <2>10. QED
    BY <1>0, <2>1, <2>8, <2>9, PostingsStay
<1>3. ASSUME NEW r \in Request, CollectPayment(r) \/ RefundSale(r)
      PROVE  TakingsInv'
  <2>1. /\ UNCHANGED <<sale, takings, order>>
        /\ \A q \in Request \ {r} : pc'[q] = pc[q] /\ posting'[q] = posting[q]
    BY <1>0, <1>3 DEF CollectPayment, RefundSale, saleVars
  <2>2. TakingsMatchSales'
    BY <1>0, <2>1, TakingsStay DEF Registered
  <2>3. PostingAt(r)'
    <3>1. CASE CollectPayment(r)
      <4>1. pc'[r] = "commitSale" /\ posting'[r] = Post("SALE", order[r].pays)
        BY <1>0, <3>1 DEF CollectPayment
      <4>2. \A m \in Method : posting'[r]["SALE"][m] = order[r].pays[m]
        BY <4>1 DEF Post, NoPosting, MoveType
      <4>3. QED
        BY <2>1, <4>1, <4>2 DEF PostingAt
    <3>2. CASE RefundSale(r)
      <4>1. /\ pc[r] = "refund" /\ pc'[r] = "commitCancel"
            /\ \/ posting'[r] = PostOne("INCOME", "CASH", -order[r].total)
               \/ posting'[r] = posting[r]
        BY <1>0, <3>2 DEF RefundSale
      <4>2. \A m \in Method : posting[r]["SALE"][m] = 0
        BY <1>0, <4>1 DEF PostingAt
      <4>3. \A m \in Method : posting'[r]["SALE"][m] = 0
        BY <4>1, <4>2 DEF PostOne, NoPosting, MoveType, Method
      <4>4. QED
        BY <4>1, <4>3 DEF PostingAt
    <3>3. QED
      BY <1>3, <3>1, <3>2
  <2>4. QED
    BY <2>1, <2>2, <2>3, PostingsStay
<1>4. ASSUME NEW r \in Request, RollbackSale(r)
      PROVE  TakingsInv'
  <2>1. /\ UNCHANGED <<sale, takings>> /\ pc' = [pc EXCEPT ![r] = "idle"]
        /\ order' = [order EXCEPT ![r] = None]
        /\ posting' = [posting EXCEPT ![r] = NoPosting]
    BY <1>4 DEF RollbackSale, DropPostings, Forget
  <2>2. TakingsMatchSales'
    BY <1>0, <2>1, TakingsStay DEF Registered
  <2>3. PostingAt(r)'
    BY <1>0, <2>1 DEF PostingAt, NoPosting, MoveType
  <2>4. QED
    BY <1>0, <2>1, <2>2, <2>3, PostingsStay
<1>5. ASSUME NEW r \in Request, NEW o \in Order, StartSale(r, o)
      PROVE  TakingsInv'
  <2>1. /\ UNCHANGED <<sale, takings, posting>> /\ pc[r] = "idle" /\ pc'[r] = "validate"
        /\ \A q \in Request \ {r} : pc'[q] = pc[q] /\ order'[q] = order[q]
    BY <1>0, <1>5 DEF StartSale, cashVars
  <2>2. QED
    BY <2>1, QuietTakings
<1>6. ASSUME NEW r \in Request, NEW n \in SaleNumber, StartCancel(r, n)
      PROVE  TakingsInv'
  <2>1. /\ UNCHANGED <<sale, takings, posting>> /\ pc[r] = "idle" /\ pc'[r] = "readStock"
        /\ \A q \in Request \ {r} : pc'[q] = pc[q] /\ order'[q] = order[q]
    BY <1>0, <1>6 DEF StartCancel, cashVars
  <2>2. QED
    BY <2>1, QuietTakings
<1>7. ASSUME NEW r \in Request,
             ValidateItem(r) \/ CountSales(r) \/ InsertSale(r) \/ DecrementStock(r)
               \/ ReadStock(r) \/ Restock(r) \/ MarkCancelled(r)
      PROVE  TakingsInv'
  <2>1. /\ UNCHANGED <<sale, takings, posting>> /\ pc[r] # "commitSale" /\ pc'[r] # "commitSale"
        /\ \A q \in Request \ {r} : pc'[q] = pc[q] /\ order'[q] = order[q]
    BY <1>0, <1>7 DEF ValidateItem, CountSales, InsertSale, DecrementStock, ReadStock, Restock,
       MarkCancelled, NextItem, cashVars, saleVars
  <2>2. QED
    BY <2>1, QuietTakings
<1>8. QED
  BY <1>1, <1>2, <1>3, <1>4, <1>5, <1>6, <1>7
     DEF Next, SellNext, CancelNext, CreateStep, CancelStep

\* The SALE movements of every session are the payments of its sales, whatever
\* cancellations and adjustments run beside the sales and whatever fails.
THEOREM StockroomTakingsMatchSales == StockroomSpec => []TakingsMatchSales
<1>1. ASSUME StockroomInit PROVE StockroomInv /\ CodesInv /\ TakingsInv
  <2>1. Init /\ StockroomInv /\ CodesInv
    BY <1>1, InitStockroom, InitCodesInv DEF StockroomInit
  <2>2. Registered = {}
    BY <2>1 DEF Init, Registered, NoSale
  <2>3. \A f : SumFunctionOnSet(f, {}) = 0
    BY SumEmpty
  <2>4. ASSUME NEW s \in Session, NEW m \in Method
        PROVE  takings[s]["SALE"][m] = SumFunctionOnSet(PaidBy(m), SalesIn(s))
    <3>1. SalesIn(s) = {}
      BY <2>2 DEF SalesIn
    <3>2. takings[s]["SALE"][m] = 0
      BY <2>1 DEF Init, CashBookInit, NoPosting, MoveType
    <3>3. QED
      BY <2>3, <3>1, <3>2
  <2>5. \A r \in Request : PostingAt(r)
    BY <2>1 DEF Init, CashBookInit, NoPosting, MoveType, PostingAt
  <2>6. QED
    BY <2>1, <2>4, <2>5 DEF TakingsInv, TakingsMatchSales
<1>2. ASSUME TypeInv, CodesInv, TakingsInv, [StockroomNext]_stockroomVars
      PROVE  TakingsInv'
  <2>1. CASE Next
    BY <1>2, <2>1, NextTakingsInv
  <2>2. CASE InventoryNext /\ UNCHANGED <<cashVars, saleVars>>
    <3>1. PICK r \in Request : /\ \/ {pc[r], pc'[r]} \subseteq AdjustLabel \cup {"idle"}
                                  \/ pc'[r] = pc[r]
                               /\ \A q \in Request \ {r} : pc'[q] = pc[q]
      BY <1>2, <2>2, InventoryFrame
    <3>2. UNCHANGED <<sale, order, takings, posting>>
      BY <2>2 DEF cashVars, saleVars
    <3>3. TakingsMatchSales'
      BY <1>2, <3>2, TakingsStay DEF TakingsInv, Registered
    <3>4. PostingAt(r)'
      BY <1>2, <3>1, <3>2 DEF TakingsInv, PostingAt, AdjustLabel
    <3>5. QED
      BY <1>2, <3>1, <3>2, <3>3, <3>4, PostingsStay
  <2>3. CASE UNCHANGED stockroomVars
    <3>1. UNCHANGED <<sale, order, takings, posting, pc>>
      BY <2>3 DEF stockroomVars, vars, saleVars, cashVars
    <3>2. TakingsMatchSales'
      BY <1>2, <3>1, TakingsStay DEF TakingsInv, Registered
    <3>3. QED
      BY <1>2, <3>1, <3>2 DEF TakingsInv, PostingAt
  <2>4. QED
    BY <1>2, <2>1, <2>2, <2>3 DEF StockroomNext
<1>3. StockroomInv /\ CodesInv /\ TakingsInv /\ [StockroomNext]_stockroomVars
        => (StockroomInv /\ CodesInv /\ TakingsInv)'
  <2>1. StockroomInv /\ CodesInv /\ [StockroomNext]_stockroomVars => CodesInv'
    BY StockroomCodes DEF StockroomInv
  <2>2. QED
    BY <1>2, <2>1, NextStockroom DEF StockroomInv
<1>4. TakingsInv => TakingsMatchSales
  BY DEF TakingsInv
<1>5. QED
  BY <1>1, <1>3, <1>4, PTL DEF StockroomSpec

-----------------------------------------------------------------------------
(* The workshop.  What a handler of service orders knows of its order while no *)
(* other request is at work on it.                                             *)

\* The handler of r works on an order that it found editable.
EditLabel ==
    {"writeOrder", "writeStage", "commitStage", "readPart", "storePart", "writePart",
     "commitPart", "deleteItem", "writeRemoved", "countPhotos", "commitPhotos", "deletePhoto"}

TakenLabel == EditLabel \cup {"writeDelivered"}

\* It will write a total computed from the costs it read.
CostLabel ==
    {"writeOrder", "readPart", "storePart", "writePart", "commitPart", "deleteItem",
     "writeRemoved"}

HandlerFields == {"number", "what", "seen", "labor", "parts", "discount"}

\* A row has its fields, and its total is what its costs give.
OrderOK(w) ==
    /\ DOMAIN w = {"status", "delivered", "contents"}
    /\ w.status \in WorkStatus \cup {"NONE"}
    /\ DOMAIN w.contents = {"labor", "parts", "discount", "total", "items", "photos"}
    /\ w.contents.total =
         CalculateTotal(w.contents.labor, w.contents.parts, w.contents.discount)

\* Where the handler of r stands, what it remembers is still so.
HandlerOK(r) ==
    LET b == repairing[r]
        w == workOrder[b.number]
    IN  /\ pc[r] \in TakenLabel \cup {"insertWorkOrder", "commitWorkOrder"} =>
             DOMAIN b = HandlerFields /\ b.number \in WorkNumber
        /\ pc[r] = "commitWorkOrder" => w.status = "NONE"
        /\ pc[r] \in EditLabel => w.status \notin {"NONE", "DELIVERED", "CANCELLED"}
        /\ pc[r] = "writeDelivered" => w.status = "DELIVERED"
        /\ pc[r] \in {"writeStage", "commitStage"} =>
             /\ b.what.status \in AllowedTransitions(w.status)
             /\ b.what.deliver => b.what.status = "DELIVERED"
        /\ pc[r] \in CostLabel =>
             /\ b.labor = w.contents.labor
             /\ b.parts = w.contents.parts
             /\ b.discount = w.contents.discount

\* Two handlers neither work on one order nor insert one code.
Apart(r, q) ==
    \/ pc[r] \notin TakenLabel \/ pc[q] \notin TakenLabel
    \/ repairing[r].number # repairing[q].number

InsertApart(r, q) ==
    pc[r] = "commitWorkOrder" /\ pc[q] = "commitWorkOrder" =>
        repairing[r].number # repairing[q].number

BenchInv ==
    /\ DOMAIN pc = Request /\ DOMAIN repairing = Request /\ DOMAIN workOrder = WorkNumber
    /\ repairing = [r \in Request |-> repairing[r]]
    /\ \A n \in WorkNumber : OrderOK(workOrder[n])
    /\ \A r \in Request : HandlerOK(r)
    /\ \A r, q \in Request : r # q => Apart(r, q) /\ InsertApart(r, q)

LEMMA BenchInitInv == BenchInit => BenchInv
<1> SUFFICES ASSUME BenchInit PROVE BenchInv
  OBVIOUS
<1>1. OrderOK(NoWorkOrder)
  BY DEF OrderOK, NoWorkOrder, NoContents, CalculateTotal
<1>2. QED
  BY <1>1 DEF BenchInit, WorkInit, BenchInv, HandlerOK, Apart, InsertApart, TakenLabel, EditLabel,
     CostLabel

\* A handler that does not move and whose order is left alone.
LEMMA HandlerStays ==
    ASSUME NEW q \in Request, HandlerOK(q), pc'[q] = pc[q], repairing'[q] = repairing[q],
           pc[q] \in TakenLabel \cup {"commitWorkOrder"} =>
             workOrder'[repairing[q].number] = workOrder[repairing[q].number]
    PROVE  HandlerOK(q)'
<1>1. CASE pc[q] \in TakenLabel \cup {"commitWorkOrder"}
  <2>1. repairing'[q].number = repairing[q].number
    OBVIOUS
  <2>2. workOrder'[repairing'[q].number] = workOrder[repairing[q].number]
    BY <1>1
  <2>3. QED
    BY <2>2 DEF HandlerOK
<1>2. CASE pc[q] \notin TakenLabel \cup {"commitWorkOrder"}
  BY <1>2 DEF HandlerOK, TakenLabel, EditLabel, CostLabel
<1>3. QED
  BY <1>1, <1>2

\* The handler of r moves on, and writes its own order at most.
LEMMA HandlerMoves ==
    ASSUME BenchInv, NEW r \in Request, NEW to, NEW b,
           pc' = [pc EXCEPT ![r] = to],
           repairing' = [repairing EXCEPT ![r] = b],
           HandlerOK(r)',
           DOMAIN workOrder' = WorkNumber,
           \A n \in WorkNumber : OrderOK(workOrder'[n]),
           \A n \in WorkNumber : workOrder'[n] # workOrder[n] =>
             n = repairing[r].number /\ pc[r] \in TakenLabel \cup {"commitWorkOrder"},
           to \in TakenLabel => \A q \in Request \ {r} :
             pc[q] \in TakenLabel => b.number # repairing[q].number,
           to = "commitWorkOrder" => \A q \in Request \ {r} :
             pc[q] = "commitWorkOrder" => b.number # repairing[q].number
    PROVE  BenchInv'
<1>0. /\ DOMAIN pc = Request /\ DOMAIN repairing = Request
      /\ \A q \in Request : HandlerOK(q)
      /\ \A p, q \in Request : p # q => Apart(p, q) /\ InsertApart(p, q)
  BY DEF BenchInv
<1>1. /\ DOMAIN pc' = Request /\ DOMAIN repairing' = Request
      /\ pc'[r] = to /\ repairing'[r] = b
      /\ \A q \in Request \ {r} : pc'[q] = pc[q] /\ repairing'[q] = repairing[q]
  BY <1>0
<1>2. ASSUME NEW q \in Request \ {r}, pc[q] \in TakenLabel \cup {"commitWorkOrder"}
      PROVE  workOrder'[repairing[q].number] = workOrder[repairing[q].number]
  <2>1. repairing[q].number \in WorkNumber
    BY <1>0, <1>2 DEF HandlerOK
  <2>2. CASE pc[r] \in TakenLabel \cup {"commitWorkOrder"}
    <3>1. repairing[q].number # repairing[r].number
      <4>1. CASE pc[r] \in TakenLabel /\ pc[q] \in TakenLabel
        BY <1>0, <4>1 DEF Apart
      <4>2. CASE pc[r] = "commitWorkOrder" /\ pc[q] = "commitWorkOrder"
        BY <1>0, <4>2 DEF InsertApart
      <4>3. CASE pc[r] \in TakenLabel /\ pc[q] = "commitWorkOrder"
        <5>1. workOrder[repairing[r].number].status # "NONE"
          BY <1>0, <4>3 DEF HandlerOK, TakenLabel
        <5>2. workOrder[repairing[q].number].status = "NONE"
          BY <1>0, <4>3 DEF HandlerOK
        <5>3. QED
          BY <5>1, <5>2
      <4>4. CASE pc[r] = "commitWorkOrder" /\ pc[q] \in TakenLabel
        <5>1. workOrder[repairing[q].number].status # "NONE"
          BY <1>0, <4>4 DEF HandlerOK, TakenLabel
        <5>2. workOrder[repairing[r].number].status = "NONE"
          BY <1>0, <4>4 DEF HandlerOK
        <5>3. QED
          BY <5>1, <5>2
      <4>5. QED
        BY <1>2, <2>2, <4>1, <4>2, <4>3, <4>4
    <3>2. QED
      BY <2>1, <3>1
  <2>3. QED
    BY <2>1, <2>2
<1>3. ASSUME NEW q \in Request PROVE HandlerOK(q)'
  <2>1. CASE q = r
    BY <2>1
  <2>2. CASE q # r
    BY <1>0, <1>1, <1>2, <2>2, HandlerStays
  <2>3. QED
    BY <2>1, <2>2
<1>4. ASSUME NEW p \in Request, NEW q \in Request, p # q
      PROVE  Apart(p, q)' /\ InsertApart(p, q)'
  <2>1. CASE p # r /\ q # r
    BY <1>0, <1>1, <1>4, <2>1 DEF Apart, InsertApart
  <2>2. CASE p = r
    BY <1>1, <1>4, <2>2 DEF Apart, InsertApart
  <2>3. CASE q = r
    BY <1>1, <1>4, <2>3 DEF Apart, InsertApart
  <2>4. QED
    BY <2>1, <2>2, <2>3
<1>5. repairing' = [q \in Request |-> repairing'[q]]
  BY <1>1
<1>6. QED
  BY <1>1, <1>3, <1>4, <1>5 DEF BenchInv

\* A handler that remembers what it did.
LEMMA SameHandler ==
    ASSUME BenchInv, NEW r \in Request, NEW b, b = repairing[r], repairing' = repairing
    PROVE  repairing' = [repairing EXCEPT ![r] = b]
<1>1. repairing = [q \in Request |-> repairing[q]]
  BY DEF BenchInv
<1>2. [repairing EXCEPT ![r] = b] = [q \in Request |-> repairing[q]]
  BY <1>1
<1>3. QED
  BY <1>1, <1>2

\* A request about an order that nobody else is at work on.
LEMMA BeginKeeps ==
    ASSUME BenchInv, NEW r \in Request, NEW n \in WorkNumber, NEW what, NEW to \in EditLabel,
           Editable(n), ~Attended(n),
           Step(r, "idle", to), Begin(r, n, what), UNCHANGED workOrder,
           to \in {"writeStage", "commitStage"} =>
             /\ what.status \in AllowedTransitions(workOrder[n].status)
             /\ what.deliver => what.status = "DELIVERED"
    PROVE  BenchInv'
<1> DEFINE c == workOrder[n].contents
           b == [number |-> n, what |-> what, seen |-> 0,
                 labor |-> c.labor, parts |-> c.parts, discount |-> c.discount]
<1>1. /\ pc' = [pc EXCEPT ![r] = to]
      /\ repairing' = [repairing EXCEPT ![r] = b]
  BY DEF Step, Begin
<1>2. HandlerOK(r)'
  <2>1. DOMAIN pc = Request /\ DOMAIN repairing = Request
    BY DEF BenchInv
  <2>2. pc'[r] = to /\ repairing'[r] = b
    BY <1>1, <2>1
  <2>3. workOrder[n].status \notin {"NONE", "DELIVERED", "CANCELLED"}
    BY DEF Editable
  <2>4. /\ DOMAIN b = HandlerFields /\ b.number = n /\ b.what = what
        /\ b.labor = c.labor /\ b.parts = c.parts /\ b.discount = c.discount
    BY DEF HandlerFields
  <2> HIDE DEF b
  <2>5. QED
    BY <2>2, <2>3, <2>4 DEF HandlerOK, EditLabel
<1>3. \A q \in Request \ {r} : pc[q] \in TakenLabel => b.number # repairing[q].number
  BY DEF Attended, TakenLabel, EditLabel
<1>4. DOMAIN workOrder' = WorkNumber /\ \A m \in WorkNumber : OrderOK(workOrder'[m])
  BY DEF BenchInv
<1> HIDE DEF b
<1>5. QED
  BY <1>1, <1>2, <1>3, <1>4, HandlerMoves DEF EditLabel

\* The last step of a handler, or its failure.
LEMMA FinishKeeps ==
    ASSUME BenchInv, NEW r \in Request,
           pc' = [pc EXCEPT ![r] = "idle"], Finish(r),
           DOMAIN workOrder' = WorkNumber,
           \A n \in WorkNumber : OrderOK(workOrder'[n]),
           \A n \in WorkNumber : workOrder'[n] # workOrder[n] =>
             n = repairing[r].number /\ pc[r] \in TakenLabel \cup {"commitWorkOrder"}
    PROVE  BenchInv'
<1>1. pc'[r] = "idle"
  BY DEF BenchInv
<1>2. HandlerOK(r)'
  BY <1>1 DEF HandlerOK, TakenLabel, EditLabel, CostLabel
<1>3. repairing' = [repairing EXCEPT ![r] = None]
  BY DEF Finish
<1>4. QED
  BY <1>2, <1>3, HandlerMoves DEF TakenLabel, EditLabel

\* A statement that writes no order: the handler goes on with what it knew.
LEMMA StatementKeeps ==
    ASSUME BenchInv, NEW r \in Request, NEW from \in EditLabel, NEW to \in EditLabel, NEW b,
           Step(r, from, to), repairing' = [repairing EXCEPT ![r] = b],
           b = repairing[r] \/ \E x : b = [repairing[r] EXCEPT !.seen = x],
           UNCHANGED workOrder,
           to \in {"writeStage", "commitStage"} => from \in {"writeStage", "commitStage"},
           to \in CostLabel => from \in CostLabel
    PROVE  BenchInv'
<1>1. /\ DOMAIN pc = Request /\ DOMAIN repairing = Request
      /\ pc[r] = from /\ pc' = [pc EXCEPT ![r] = to] /\ pc'[r] = to /\ repairing'[r] = b
      /\ HandlerOK(r)
  BY DEF BenchInv, Step
<1>2. DOMAIN repairing[r] = HandlerFields
  BY <1>1 DEF HandlerOK, TakenLabel
<1>3. /\ DOMAIN b = HandlerFields
      /\ b.number = repairing[r].number /\ b.what = repairing[r].what
      /\ b.labor = repairing[r].labor /\ b.parts = repairing[r].parts
      /\ b.discount = repairing[r].discount
  BY <1>2 DEF HandlerFields
<1>4. HandlerOK(r)'
  BY <1>1, <1>3 DEF HandlerOK, TakenLabel, EditLabel
<1>5. \A q \in Request \ {r} : pc[q] \in TakenLabel => b.number # repairing[q].number
  BY <1>1, <1>3 DEF BenchInv, Apart, TakenLabel
<1>6. DOMAIN workOrder' = WorkNumber /\ \A m \in WorkNumber : OrderOK(workOrder'[m])
  BY DEF BenchInv
<1>7. QED
  BY <1>1, <1>4, <1>5, <1>6, HandlerMoves DEF EditLabel

\* New contents of one order, whose total is what their costs give.
LEMMA ContentsWritten ==
    ASSUME BenchInv, NEW n \in WorkNumber, NEW c,
           workOrder' = [workOrder EXCEPT ![n] = [workOrder[n] EXCEPT !.contents = c]],
           DOMAIN c = {"labor", "parts", "discount", "total", "items", "photos"},
           c.total = CalculateTotal(c.labor, c.parts, c.discount)
    PROVE  /\ DOMAIN workOrder' = WorkNumber
           /\ \A m \in WorkNumber : OrderOK(workOrder'[m])
           /\ \A m \in WorkNumber : workOrder'[m] # workOrder[m] => m = n
           /\ \A m \in WorkNumber : workOrder'[m].status = workOrder[m].status
           /\ workOrder'[n].contents = c
<1>1. DOMAIN workOrder = WorkNumber /\ \A m \in WorkNumber : OrderOK(workOrder[m])
  BY DEF BenchInv
<1>2. /\ DOMAIN workOrder[n] = {"status", "delivered", "contents"}
      /\ workOrder[n].status \in WorkStatus \cup {"NONE"}
  BY <1>1 DEF OrderOK
<1>3. /\ workOrder'[n].contents = c /\ workOrder'[n].status = workOrder[n].status
      /\ DOMAIN workOrder'[n] = {"status", "delivered", "contents"}
  BY <1>1, <1>2
<1>4. OrderOK(workOrder'[n])
  BY <1>2, <1>3 DEF OrderOK
<1>5. \A m \in WorkNumber \ {n} : workOrder'[m] = workOrder[m]
  BY <1>1
<1>6. QED
  BY <1>1, <1>3, <1>4, <1>5

\* Another status of one order.
LEMMA StatusWritten ==
    ASSUME BenchInv, NEW n \in WorkNumber, NEW s \in WorkStatus,
           workOrder' = [workOrder EXCEPT ![n] = [workOrder[n] EXCEPT !.status = s]]
    PROVE  /\ DOMAIN workOrder' = WorkNumber
           /\ \A m \in WorkNumber : OrderOK(workOrder'[m])
           /\ \A m \in WorkNumber : workOrder'[m] # workOrder[m] => m = n
           /\ \A m \in WorkNumber : workOrder'[m].contents = workOrder[m].contents
           /\ workOrder'[n].status = s
<1>1. DOMAIN workOrder = WorkNumber /\ \A m \in WorkNumber : OrderOK(workOrder[m])
  BY DEF BenchInv
<1>2. DOMAIN workOrder[n] = {"status", "delivered", "contents"}
  BY <1>1 DEF OrderOK
<1>3. /\ workOrder'[n].contents = workOrder[n].contents /\ workOrder'[n].status = s
      /\ DOMAIN workOrder'[n] = {"status", "delivered", "contents"}
  BY <1>1, <1>2
<1>4. OrderOK(workOrder'[n])
  BY <1>1, <1>3 DEF OrderOK
<1>5. \A m \in WorkNumber \ {n} : workOrder'[m] = workOrder[m]
  BY <1>1
<1>6. QED
  BY <1>1, <1>3, <1>4, <1>5

\* What a step does to the orders: nothing that the lifecycle sees, or one of
\* its three steps on one order.
NothingSeen ==
    \A m \in WorkNumber :
        workOrder'[m].status = workOrder[m].status /\ workOrder'[m].contents = workOrder[m].contents

OneSeen(n) ==
    /\ \A m \in WorkNumber \ {n} :
         workOrder'[m].status = workOrder[m].status /\ workOrder'[m].contents = workOrder[m].contents
    /\ \/ workOrder[n].status = "NONE" /\ workOrder'[n].status = "RECEIVED"
       \/ /\ workOrder'[n].status \in AllowedTransitions(workOrder[n].status)
          /\ workOrder'[n].contents = workOrder[n].contents
       \/ /\ workOrder[n].status \notin {"NONE", "DELIVERED", "CANCELLED"}
          /\ workOrder'[n].status = workOrder[n].status

Follows == NothingSeen \/ \E n \in WorkNumber : OneSeen(n)

\* The order of r gets new contents while it is editable, and r has finished.
LEMMA WriteAndFinish ==
    ASSUME BenchInv, NEW r \in Request, pc[r] \in EditLabel,
           pc' = [pc EXCEPT ![r] = "idle"], Finish(r),
           NEW n, n = repairing[r].number, NEW c,
           workOrder' = [workOrder EXCEPT ![n] = [workOrder[n] EXCEPT !.contents = c]],
           DOMAIN c = {"labor", "parts", "discount", "total", "items", "photos"},
           c.total = CalculateTotal(c.labor, c.parts, c.discount)
    PROVE  BenchInv' /\ Follows
<1>1. n \in WorkNumber /\ workOrder[n].status \notin {"NONE", "DELIVERED", "CANCELLED"}
  BY DEF BenchInv, HandlerOK, TakenLabel
<1>2. /\ DOMAIN workOrder' = WorkNumber
      /\ \A m \in WorkNumber : OrderOK(workOrder'[m])
      /\ \A m \in WorkNumber : workOrder'[m] # workOrder[m] => m = n
      /\ \A m \in WorkNumber : workOrder'[m].status = workOrder[m].status
  BY <1>1, ContentsWritten
<1>3. BenchInv'
  BY <1>2, FinishKeeps DEF TakenLabel
<1>4. OneSeen(n)
  BY <1>1, <1>2 DEF OneSeen
<1>5. QED
  BY <1>1, <1>3, <1>4 DEF Follows

\* The contents of an order: fields that the actions change one by one.
LEMMA ContentsOf ==
    ASSUME BenchInv, NEW r \in Request, pc[r] \in EditLabel
    PROVE  LET n == repairing[r].number
               c == workOrder[n].contents
           IN  /\ n \in WorkNumber /\ DOMAIN workOrder = WorkNumber
               /\ DOMAIN workOrder[n] = {"status", "delivered", "contents"}
               /\ DOMAIN c = {"labor", "parts", "discount", "total", "items", "photos"}
               /\ c.total = CalculateTotal(c.labor, c.parts, c.discount)
               /\ pc[r] \in CostLabel =>
                    /\ repairing[r].labor = c.labor /\ repairing[r].parts = c.parts
                    /\ repairing[r].discount = c.discount
  BY DEF BenchInv, HandlerOK, OrderOK, TakenLabel

\* update
LEMMA WriteOrderFollows ==
    ASSUME BenchInv, NEW r \in Request, WriteOrder(r)
    PROVE  BenchInv' /\ Follows
<1> DEFINE n == repairing[r].number
           c == workOrder[n].contents
           labor == Stated(repairing[r].what.labor, repairing[r].labor)
           discount == Stated(repairing[r].what.discount, repairing[r].discount)
           new == [c EXCEPT !.labor = Stated(repairing[r].what.labor, @),
                            !.discount = Stated(repairing[r].what.discount, @),
                            !.total = CalculateTotal(labor, repairing[r].parts, discount)]
<1>1. pc[r] = "writeOrder" /\ pc' = [pc EXCEPT ![r] = "idle"] /\ Finish(r)
  BY DEF WriteOrder, Step
<1>2. /\ DOMAIN c = {"labor", "parts", "discount", "total", "items", "photos"}
      /\ repairing[r].labor = c.labor /\ repairing[r].parts = c.parts
      /\ repairing[r].discount = c.discount
  BY <1>1, ContentsOf DEF EditLabel, CostLabel
<1>3. workOrder' = [workOrder EXCEPT ![n] = [workOrder[n] EXCEPT !.contents = new]]
  BY DEF WriteOrder
<1>4. /\ new.labor = Stated(repairing[r].what.labor, c.labor)
      /\ new.discount = Stated(repairing[r].what.discount, c.discount)
      /\ new.parts = c.parts
      /\ new.total = CalculateTotal(labor, repairing[r].parts, discount)
      /\ DOMAIN new = DOMAIN c
  BY <1>2
<1>5. new.total = CalculateTotal(new.labor, new.parts, new.discount)
  BY <1>2, <1>4
<1> HIDE DEF new, c
<1>6. DOMAIN new = {"labor", "parts", "discount", "total", "items", "photos"}
  BY <1>2, <1>4
<1>7. pc[r] \in EditLabel
  BY <1>1 DEF EditLabel
<1>8. QED
  BY <1>1, <1>3, <1>5, <1>6, <1>7, WriteAndFinish

\* addItem
LEMMA CommitPartFollows ==
    ASSUME BenchInv, NEW r \in Request, CommitPart(r)
    PROVE  BenchInv' /\ Follows
<1> DEFINE n == repairing[r].number
           c == workOrder[n].contents
           parts == repairing[r].parts + Subtotal(repairing[r].what)
           added == Append(c.items, [part |-> repairing[r].what, kept |-> TRUE])
           total == CalculateTotal(repairing[r].labor, parts, repairing[r].discount)
<1>1. pc[r] = "commitPart" /\ pc' = [pc EXCEPT ![r] = "idle"] /\ Finish(r)
  BY DEF CommitPart, Step
<1>2. /\ DOMAIN c = {"labor", "parts", "discount", "total", "items", "photos"}
      /\ repairing[r].labor = c.labor /\ repairing[r].discount = c.discount
  BY <1>1, ContentsOf DEF EditLabel, CostLabel
<1>3. workOrder' = [workOrder EXCEPT ![n] = [workOrder[n] EXCEPT !.contents =
        [c EXCEPT !.items = added, !.parts = parts, !.total = total]]]
  BY Zenon DEF CommitPart
<1>4. PICK items, cost, sum : items = added /\ cost = parts /\ sum = total
  OBVIOUS
<1> DEFINE new == [c EXCEPT !.items = items, !.parts = cost, !.total = sum]
<1>5. workOrder' = [workOrder EXCEPT ![n] = [workOrder[n] EXCEPT !.contents = new]]
  BY <1>3, <1>4, Zenon
<1>6. sum = CalculateTotal(c.labor, cost, c.discount)
  BY <1>2, <1>4, Zenon
<1> HIDE DEF added, parts, total
<1>7. /\ DOMAIN new = {"labor", "parts", "discount", "total", "items", "photos"}
      /\ new.labor = c.labor /\ new.parts = cost /\ new.discount = c.discount /\ new.total = sum
  BY <1>2
<1>8. new.total = CalculateTotal(new.labor, new.parts, new.discount)
  BY <1>6, <1>7
<1> HIDE DEF new, c
<1>9. pc[r] \in EditLabel
  BY <1>1 DEF EditLabel
<1>10. QED
  BY <1>1, <1>5, <1>7, <1>8, <1>9, WriteAndFinish

\* A step that leaves the orders alone.
LEMMA NothingFollows == workOrder' = workOrder => Follows
  BY DEF Follows, NothingSeen

\* A request about an order that nobody else is at work on.
LEMMA StartFollows ==
    ASSUME BenchInv, NEW r \in Request, NEW n \in WorkReceived, ~Attended(n), StartWork(r, n)
    PROVE  BenchInv' /\ Follows
<1>0. n \in WorkNumber
  BY DEF WorkReceived
<1>1. ASSUME NEW labor, NEW discount, StartUpdateOrder(r, n, labor, discount)
      PROVE  BenchInv' /\ workOrder' = workOrder
  <2>1. PICK what : what = [labor |-> labor, discount |-> discount]
    OBVIOUS
  <2>2. /\ Editable(n) /\ Step(r, "idle", "writeOrder") /\ Begin(r, n, what)
        /\ UNCHANGED workOrder
    BY <1>1, <2>1, Zenon DEF StartUpdateOrder
  <2>3. QED
    BY <1>0, <2>2, BeginKeeps DEF EditLabel
<1>2. ASSUME NEW status, NEW deliver, StartStage(r, n, status, deliver)
      PROVE  BenchInv' /\ workOrder' = workOrder
  <2>1. PICK what : what = [status |-> status, deliver |-> deliver]
    OBVIOUS
  <2>2. /\ Editable(n) /\ Step(r, "idle", "writeStage") /\ Begin(r, n, what)
        /\ UNCHANGED workOrder
    BY <1>2, <2>1, Zenon DEF StartStage
  <2>3. what.status = status /\ what.deliver = deliver
    BY <2>1, Zenon
  <2>4. status \in AllowedTransitions(workOrder[n].status) /\ (deliver => status = "DELIVERED")
    BY <1>2, Zenon DEF StartStage
  <2>5. /\ what.status \in AllowedTransitions(workOrder[n].status)
        /\ what.deliver => what.status = "DELIVERED"
    BY <2>3, <2>4, Zenon
  <2>6. QED
    BY <1>0, <2>2, <2>5, BeginKeeps DEF EditLabel
<1>3. ASSUME NEW part, StartPart(r, n, part)
      PROVE  BenchInv' /\ workOrder' = workOrder
  <2>1. PICK to \in {"writePart", "readPart"} : Step(r, "idle", to)
    BY <1>3 DEF StartPart
  <2>2. Editable(n) /\ Begin(r, n, part) /\ UNCHANGED workOrder
    BY <1>3, Zenon DEF StartPart
  <2>3. QED
    BY <1>0, <2>1, <2>2, BeginKeeps DEF EditLabel
<1>4. ASSUME NEW i, StartRemoveItem(r, n, i)
      PROVE  BenchInv' /\ workOrder' = workOrder
  <2>1. Editable(n) /\ Step(r, "idle", "deleteItem") /\ Begin(r, n, i) /\ UNCHANGED workOrder
    BY <1>4, Zenon DEF StartRemoveItem
  <2>2. QED
    BY <1>0, <2>1, BeginKeeps DEF EditLabel
<1>5. ASSUME NEW photos, StartPhotos(r, n, photos)
      PROVE  BenchInv' /\ workOrder' = workOrder
  BY <1>0, <1>5, BeginKeeps DEF EditLabel, StartPhotos
<1>6. ASSUME StartDeletePhoto(r, n)
      PROVE  BenchInv' /\ workOrder' = workOrder
  BY <1>0, <1>6, BeginKeeps DEF EditLabel, StartDeletePhoto
<1>7. BenchInv' /\ workOrder' = workOrder
  BY <1>1, <1>2, <1>3, <1>4, <1>5, <1>6, Zenon DEF StartWork
<1>8. QED
  BY <1>7, NothingFollows

\* create
LEMMA CreateFollows ==
    ASSUME BenchInv, NEW r \in Request,
           (\E photos : StartWorkOrder(r, photos)) \/ InsertWorkOrder(r) \/ CommitWorkOrder(r)
    PROVE  BenchInv' /\ Follows
<1>0. /\ DOMAIN pc = Request /\ DOMAIN repairing = Request /\ DOMAIN workOrder = WorkNumber
      /\ \A n \in WorkNumber : OrderOK(workOrder[n])
      /\ HandlerOK(r)
  BY DEF BenchInv
<1>1. ASSUME NEW photos, StartWorkOrder(r, photos)
      PROVE  BenchInv' /\ Follows
  <2> DEFINE b == [number |-> Cardinality(WorkReceived) + 1, what |-> photos, seen |-> 0,
                   labor |-> 0, parts |-> 0, discount |-> 0]
  <2>1. /\ pc' = [pc EXCEPT ![r] = "insertWorkOrder"] /\ workOrder' = workOrder
        /\ repairing' = [repairing EXCEPT ![r] = b]
    BY <1>1 DEF StartWorkOrder, Step
  <2>2. Cardinality(WorkReceived) + 1 \in WorkNumber
    <3>1. IsFiniteSet(WorkNumber)
      BY FS_Interval, ServiceOrderAssumption DEF WorkNumber
    <3>2. IsFiniteSet(WorkReceived)
      BY <3>1, FS_Subset DEF WorkReceived
    <3>3. Cardinality(WorkReceived) \in Nat
      BY <3>2, FS_CardinalityType
    <3>4. Cardinality(WorkReceived) < MaxOrders
      BY <1>1 DEF StartWorkOrder
    <3>5. QED
      BY <3>3, <3>4, ServiceOrderAssumption DEF WorkNumber
  <2>3. DOMAIN b = HandlerFields /\ b.number \in WorkNumber
    BY <2>2 DEF HandlerFields
  <2> HIDE DEF b
  <2>4. pc'[r] = "insertWorkOrder" /\ repairing'[r] = b
    BY <1>0, <2>1
  <2>5. HandlerOK(r)'
    BY <2>3, <2>4 DEF HandlerOK, TakenLabel, EditLabel, CostLabel
  <2>6. BenchInv'
    BY <1>0, <2>1, <2>5, HandlerMoves DEF TakenLabel, EditLabel
  <2>7. QED
    BY <2>1, <2>6, NothingFollows
<1>2. ASSUME InsertWorkOrder(r)
      PROVE  BenchInv' /\ Follows
  <2>1. /\ pc[r] = "insertWorkOrder" /\ pc' = [pc EXCEPT ![r] = "commitWorkOrder"]
        /\ workOrder' = workOrder /\ repairing' = repairing
        /\ repairing[r].number \notin WorkReceived
        /\ \A q \in Request : pc[q] = "commitWorkOrder" =>
             repairing[r].number # repairing[q].number
    BY <1>2 DEF InsertWorkOrder, Step, workVars
  <2>2. PICK b : b = repairing[r]
    OBVIOUS
  <2>3. repairing' = [repairing EXCEPT ![r] = b]
    BY <2>1, <2>2, SameHandler
  <2>4. DOMAIN b = HandlerFields /\ b.number \in WorkNumber
    BY <1>0, <2>1, <2>2 DEF HandlerOK
  <2>5. workOrder'[b.number].status = "NONE"
    BY <2>1, <2>2, <2>4 DEF WorkReceived
  <2>6. pc'[r] = "commitWorkOrder" /\ repairing'[r] = b
    BY <1>0, <2>1, <2>2
  <2>7. HandlerOK(r)'
    BY <2>4, <2>5, <2>6 DEF HandlerOK, TakenLabel, EditLabel, CostLabel
  <2>8. BenchInv'
    BY <1>0, <2>1, <2>2, <2>3, <2>7, HandlerMoves DEF TakenLabel, EditLabel
  <2>9. QED
    BY <2>1, <2>8, NothingFollows
<1>3. ASSUME CommitWorkOrder(r)
      PROVE  BenchInv' /\ Follows
  <2>1. PICK n, delivered, c : /\ n = repairing[r].number /\ delivered = FALSE
                              /\ c = [NoContents EXCEPT !.photos = repairing[r].what]
    OBVIOUS
  <2> DEFINE row == [status |-> "RECEIVED", delivered |-> delivered, contents |-> c]
  <2>2. workOrder' = [workOrder EXCEPT ![n] = row]
    BY <1>3, <2>1, Zenon DEF CommitWorkOrder
  <2>3. pc[r] = "commitWorkOrder" /\ pc' = [pc EXCEPT ![r] = "idle"] /\ Finish(r)
    BY <1>3 DEF CommitWorkOrder, Step
  <2>4. n \in WorkNumber /\ workOrder[n].status = "NONE"
    BY <1>0, <2>1, <2>3 DEF HandlerOK
  <2>5. OrderOK(row)
    BY <2>1 DEF OrderOK, NoContents, CalculateTotal, WorkStatus
  <2>6. row.status = "RECEIVED"
    OBVIOUS
  <2> HIDE DEF row
  <2>7. /\ workOrder'[n] = row /\ DOMAIN workOrder' = WorkNumber
        /\ \A m \in WorkNumber \ {n} : workOrder'[m] = workOrder[m]
    BY <1>0, <2>2, <2>4
  <2>8. BenchInv'
    <3>1. \A m \in WorkNumber : OrderOK(workOrder'[m])
      BY <1>0, <2>5, <2>7
    <3>2. \A m \in WorkNumber : workOrder'[m] # workOrder[m] => m = n
      BY <2>7
    <3>3. QED
      BY <2>1, <2>3, <2>7, <3>1, <3>2, FinishKeeps
  <2>9. OneSeen(n)
    BY <2>4, <2>6, <2>7 DEF OneSeen
  <2>10. QED
    BY <2>4, <2>8, <2>9 DEF Follows
<1>4. QED
  BY <1>1, <1>2, <1>3

\* changeStatus and deliver
LEMMA StageFollows ==
    ASSUME BenchInv, NEW r \in Request, WriteStage(r) \/ CommitStage(r) \/ WriteDelivered(r)
    PROVE  BenchInv' /\ Follows
<1>0. /\ DOMAIN pc = Request /\ DOMAIN repairing = Request /\ DOMAIN workOrder = WorkNumber
      /\ \A n \in WorkNumber : OrderOK(workOrder[n])
      /\ HandlerOK(r)
  BY DEF BenchInv
<1>1. ASSUME WriteStage(r)
      PROVE  BenchInv' /\ Follows
  <2>1. /\ Step(r, "writeStage", "commitStage") /\ repairing' = [repairing EXCEPT ![r] = repairing[r]]
        /\ workOrder' = workOrder
    BY <1>1, SameHandler DEF WriteStage, workVars
  <2>2. BenchInv'
    BY <2>1, StatementKeeps DEF EditLabel, CostLabel
  <2>3. QED
    BY <2>1, <2>2, NothingFollows
<1>2. ASSUME CommitStage(r)
      PROVE  BenchInv' /\ Follows
  <2>1. PICK n, s : n = repairing[r].number /\ s = repairing[r].what.status
    OBVIOUS
  <2>2. pc[r] = "commitStage" /\ workOrder' = [workOrder EXCEPT ![n].status = s]
    BY <1>2, <2>1, Zenon DEF CommitStage
  <2>3. /\ n \in WorkNumber /\ s \in AllowedTransitions(workOrder[n].status)
        /\ repairing[r].what.deliver => s = "DELIVERED"
        /\ DOMAIN repairing[r] = HandlerFields
    BY <1>0, <2>1, <2>2 DEF HandlerOK, TakenLabel, EditLabel
  <2>4. s \in WorkStatus
    BY <2>3 DEF AllowedTransitions, WorkStatus
  <2>5. workOrder' = [workOrder EXCEPT ![n] = [workOrder[n] EXCEPT !.status = s]]
    BY <2>2
  <2>6. /\ DOMAIN workOrder' = WorkNumber
        /\ \A m \in WorkNumber : OrderOK(workOrder'[m])
        /\ \A m \in WorkNumber : workOrder'[m] # workOrder[m] => m = n
        /\ \A m \in WorkNumber : workOrder'[m].contents = workOrder[m].contents
        /\ workOrder'[n].status = s
    BY <2>3, <2>4, <2>5, StatusWritten
  <2>7. OneSeen(n)
    BY <2>3, <2>6 DEF OneSeen
  <2>8. CASE repairing[r].what.deliver
    <3>1. pc' = [pc EXCEPT ![r] = "writeDelivered"] /\ repairing' = repairing
      BY <1>2, <2>8 DEF CommitStage, Step
    <3>2. PICK b : b = repairing[r]
      OBVIOUS
    <3>3. repairing' = [repairing EXCEPT ![r] = b]
      BY <3>1, <3>2, SameHandler
    <3>4. pc'[r] = "writeDelivered" /\ repairing'[r] = b /\ workOrder'[b.number].status = "DELIVERED"
      BY <1>0, <2>1, <2>3, <2>6, <2>8, <3>1, <3>2
    <3>5. HandlerOK(r)'
      BY <2>1, <2>3, <3>2, <3>4 DEF HandlerOK, TakenLabel, EditLabel, CostLabel
    <3>6. \A q \in Request \ {r} : pc[q] \in TakenLabel => b.number # repairing[q].number
      BY <2>2, <3>2 DEF BenchInv, Apart, TakenLabel, EditLabel
    <3>7. pc[r] \in TakenLabel
      BY <2>2 DEF TakenLabel, EditLabel
    <3>8. BenchInv'
      BY <2>1, <2>6, <3>1, <3>3, <3>5, <3>6, <3>7, HandlerMoves
    <3>9. QED
      BY <2>3, <2>7, <3>8 DEF Follows
  <2>9. CASE ~repairing[r].what.deliver
    <3>1. pc' = [pc EXCEPT ![r] = "idle"] /\ Finish(r)
      BY <1>2, <2>9 DEF CommitStage, Step
    <3>2. pc[r] \in TakenLabel
      BY <2>2 DEF TakenLabel, EditLabel
    <3>3. QED
      BY <2>1, <2>3, <2>6, <2>7, <3>1, <3>2, FinishKeeps DEF Follows
  <2>10. QED
    BY <2>8, <2>9
<1>3. ASSUME WriteDelivered(r)
      PROVE  BenchInv' /\ Follows
  <2>1. PICK n, delivered : n = repairing[r].number /\ delivered = TRUE
    OBVIOUS
  <2>2. workOrder' = [workOrder EXCEPT ![n].delivered = delivered]
    BY <1>3, <2>1, Zenon DEF WriteDelivered
  <2>3. pc[r] = "writeDelivered" /\ pc' = [pc EXCEPT ![r] = "idle"] /\ Finish(r)
    BY <1>3 DEF WriteDelivered, Step
  <2>4. n \in WorkNumber
    BY <1>0, <2>1, <2>3 DEF HandlerOK, TakenLabel
  <2>5. DOMAIN workOrder[n] = {"status", "delivered", "contents"}
    BY <1>0, <2>4 DEF OrderOK
  <2>6. /\ DOMAIN workOrder' = WorkNumber
        /\ \A m \in WorkNumber \ {n} : workOrder'[m] = workOrder[m]
        /\ DOMAIN workOrder'[n] = {"status", "delivered", "contents"}
        /\ workOrder'[n].status = workOrder[n].status
        /\ workOrder'[n].contents = workOrder[n].contents
    BY <1>0, <2>2, <2>4, <2>5
  <2>7. OrderOK(workOrder'[n])
    BY <1>0, <2>4, <2>6 DEF OrderOK
  <2>8. \A m \in WorkNumber : OrderOK(workOrder'[m])
    BY <1>0, <2>6, <2>7
  <2>9. NothingSeen
    BY <2>6 DEF NothingSeen
  <2>10. BenchInv'
    BY <2>1, <2>3, <2>6, <2>8, FinishKeeps DEF TakenLabel
  <2>11. QED
    BY <2>9, <2>10 DEF Follows
<1>4. QED
  BY <1>1, <1>2, <1>3

\* addItem, up to its commit
LEMMA PartFollows ==
    ASSUME BenchInv, NEW r \in Request, ReadPart(r) \/ StorePart(r) \/ WritePart(r)
    PROVE  BenchInv' /\ Follows
<1>1. ASSUME ReadPart(r)
      PROVE  BenchInv' /\ workOrder' = workOrder
  <2>1. PICK x : repairing' = [repairing EXCEPT ![r].seen = x]
    BY <1>1 DEF ReadPart
  <2>2. repairing' = [repairing EXCEPT ![r] = [repairing[r] EXCEPT !.seen = x]]
    BY <2>1
  <2>3. Step(r, "readPart", "storePart") /\ workOrder' = workOrder
    BY <1>1 DEF ReadPart
  <2>4. QED
    BY <2>2, <2>3, StatementKeeps DEF EditLabel, CostLabel
<1>2. ASSUME StorePart(r)
      PROVE  BenchInv' /\ workOrder' = workOrder
  <2>1. /\ Step(r, "storePart", "writePart") /\ workOrder' = workOrder
        /\ repairing' = [repairing EXCEPT ![r] = repairing[r]]
    BY <1>2, SameHandler DEF StorePart, workVars
  <2>2. QED
    BY <2>1, StatementKeeps DEF EditLabel, CostLabel
<1>3. ASSUME WritePart(r)
      PROVE  BenchInv' /\ workOrder' = workOrder
  <2>1. /\ Step(r, "writePart", "commitPart") /\ workOrder' = workOrder
        /\ repairing' = [repairing EXCEPT ![r] = repairing[r]]
    BY <1>3, SameHandler DEF WritePart, workVars
  <2>2. QED
    BY <2>1, StatementKeeps DEF EditLabel, CostLabel
<1>4. QED
  BY <1>1, <1>2, <1>3, NothingFollows

\* removeItem
LEMMA RemoveFollows ==
    ASSUME BenchInv, NEW r \in Request, DeleteItem(r) \/ WriteRemoved(r)
    PROVE  BenchInv' /\ Follows
<1>0. DOMAIN pc = Request /\ DOMAIN repairing = Request /\ HandlerOK(r)
  BY DEF BenchInv
<1>1. ASSUME DeleteItem(r)
      PROVE  BenchInv' /\ Follows
  <2>1. PICK n, i, kept : /\ n = repairing[r].number /\ i = repairing[r].what
                          /\ kept = FALSE
    OBVIOUS
  <2>2. workOrder' = [workOrder EXCEPT ![n].contents.items[i].kept = kept]
    BY <1>1, <2>1, Zenon DEF DeleteItem
  <2>3. pc[r] = "deleteItem" /\ pc' = [pc EXCEPT ![r] = "writeRemoved"] /\ repairing' = repairing
    BY <1>1 DEF DeleteItem, Step
  <2>4. PICK items : workOrder' = [workOrder EXCEPT ![n] =
          [workOrder[n] EXCEPT !.contents = [workOrder[n].contents EXCEPT !.items = items]]]
    BY <2>2
  <2>5. PICK b, c : b = repairing[r] /\ c = [workOrder[n].contents EXCEPT !.items = items]
    OBVIOUS
  <2>6. /\ n \in WorkNumber
        /\ DOMAIN workOrder[n].contents = {"labor", "parts", "discount", "total", "items", "photos"}
        /\ workOrder[n].contents.total = CalculateTotal(workOrder[n].contents.labor,
             workOrder[n].contents.parts, workOrder[n].contents.discount)
    BY <2>1, <2>3, ContentsOf DEF EditLabel
  <2>7. /\ DOMAIN c = {"labor", "parts", "discount", "total", "items", "photos"}
        /\ c.labor = workOrder[n].contents.labor /\ c.parts = workOrder[n].contents.parts
        /\ c.discount = workOrder[n].contents.discount
        /\ c.total = workOrder[n].contents.total
    BY <2>5, <2>6
  <2>8. c.total = CalculateTotal(c.labor, c.parts, c.discount)
    BY <2>6, <2>7
  <2>9. workOrder' = [workOrder EXCEPT ![n] = [workOrder[n] EXCEPT !.contents = c]]
    BY <2>4, <2>5
  <2>10. /\ DOMAIN workOrder' = WorkNumber
         /\ \A m \in WorkNumber : OrderOK(workOrder'[m])
         /\ \A m \in WorkNumber : workOrder'[m] # workOrder[m] => m = n
         /\ \A m \in WorkNumber : workOrder'[m].status = workOrder[m].status
         /\ workOrder'[n].contents = c
    BY <2>6, <2>7, <2>8, <2>9, ContentsWritten
  <2>11. /\ DOMAIN b = HandlerFields /\ b.number = n
         /\ workOrder[n].status \notin {"NONE", "DELIVERED", "CANCELLED"}
         /\ b.labor = c.labor /\ b.parts = c.parts /\ b.discount = c.discount
    BY <1>0, <2>1, <2>3, <2>5, <2>7 DEF HandlerOK, TakenLabel, EditLabel, CostLabel
  <2>12. pc'[r] = "writeRemoved" /\ repairing'[r] = b
    BY <1>0, <2>3, <2>5
  <2>13. HandlerOK(r)'
    BY <2>6, <2>10, <2>11, <2>12 DEF HandlerOK, TakenLabel, EditLabel, CostLabel
  <2>14. repairing' = [repairing EXCEPT ![r] = b]
    BY <2>3, <2>5, SameHandler
  <2>15. pc[r] \in TakenLabel
    BY <2>3 DEF TakenLabel, EditLabel
  <2>16. \A q \in Request \ {r} : pc[q] \in TakenLabel => b.number # repairing[q].number
    BY <2>1, <2>11, <2>15 DEF BenchInv, Apart
  <2>17. BenchInv'
    BY <2>1, <2>3, <2>10, <2>13, <2>14, <2>15, <2>16, HandlerMoves
  <2>18. OneSeen(n)
    <3>1. \A m \in WorkNumber \ {n} : workOrder'[m] = workOrder[m]
      BY <2>10
    <3>2. workOrder'[n].status = workOrder[n].status
      BY <2>6, <2>10
    <3>3. QED
      BY <2>11, <3>1, <3>2 DEF OneSeen
  <2>19. QED
    BY <2>6, <2>17, <2>18 DEF Follows
<1>2. ASSUME WriteRemoved(r)
      PROVE  BenchInv' /\ Follows
  <2> DEFINE n == repairing[r].number
             c == workOrder[n].contents
             subtotal == Subtotal(c.items[repairing[r].what].part)
             parts == IF repairing[r].parts > subtotal THEN repairing[r].parts - subtotal ELSE 0
             total == CalculateTotal(repairing[r].labor, parts, repairing[r].discount)
  <2>1. pc[r] = "writeRemoved" /\ pc' = [pc EXCEPT ![r] = "idle"] /\ Finish(r)
    BY <1>2 DEF WriteRemoved, Step
  <2>2. /\ DOMAIN c = {"labor", "parts", "discount", "total", "items", "photos"}
        /\ repairing[r].labor = c.labor /\ repairing[r].discount = c.discount
    BY <2>1, ContentsOf DEF EditLabel, CostLabel
  <2>3. workOrder' = [workOrder EXCEPT ![n] = [workOrder[n] EXCEPT !.contents =
          [c EXCEPT !.parts = parts, !.total = total]]]
    BY <1>2, Zenon DEF WriteRemoved
  <2>4. PICK cost, sum : cost = parts /\ sum = total
    OBVIOUS
  <2> DEFINE new == [c EXCEPT !.parts = cost, !.total = sum]
  <2>5. workOrder' = [workOrder EXCEPT ![n] = [workOrder[n] EXCEPT !.contents = new]]
    BY <2>3, <2>4, Zenon
  <2>6. sum = CalculateTotal(c.labor, cost, c.discount)
    BY <2>2, <2>4, Zenon
  <2> HIDE DEF parts, total, subtotal
  <2>7. /\ DOMAIN new = {"labor", "parts", "discount", "total", "items", "photos"}
        /\ new.labor = c.labor /\ new.parts = cost /\ new.discount = c.discount /\ new.total = sum
    BY <2>2
  <2>8. new.total = CalculateTotal(new.labor, new.parts, new.discount)
    BY <2>6, <2>7
  <2> HIDE DEF new, c
  <2>9. pc[r] \in EditLabel
    BY <2>1 DEF EditLabel
  <2>10. QED
    BY <2>1, <2>5, <2>7, <2>8, <2>9, WriteAndFinish
<1>3. QED
  BY <1>1, <1>2

\* addPhotos and deletePhoto
LEMMA PhotosFollow ==
    ASSUME BenchInv, NEW r \in Request, CountPhotos(r) \/ CommitPhotos(r) \/ DeletePhoto(r)
    PROVE  BenchInv' /\ Follows
<1>1. ASSUME CountPhotos(r)
      PROVE  BenchInv' /\ Follows
  <2>2. /\ Step(r, "countPhotos", "commitPhotos") /\ workOrder' = workOrder
        /\ repairing' = [repairing EXCEPT ![r] = repairing[r]]
    BY <1>1, SameHandler DEF CountPhotos, workVars
  <2>3. BenchInv'
    BY <2>2, StatementKeeps DEF EditLabel, CostLabel
  <2>4. QED
    BY <2>2, <2>3, NothingFollows
<1>2. ASSUME CommitPhotos(r) \/ DeletePhoto(r)
      PROVE  BenchInv' /\ Follows
  <2> DEFINE n == repairing[r].number
             c == workOrder[n].contents
  <2>1. /\ pc[r] \in {"commitPhotos", "deletePhoto"} /\ pc' = [pc EXCEPT ![r] = "idle"]
        /\ Finish(r)
    BY <1>2 DEF CommitPhotos, DeletePhoto, Step
  <2>2. PICK photos : workOrder' = [workOrder EXCEPT ![n] = [workOrder[n] EXCEPT !.contents =
          [c EXCEPT !.photos = photos]]]
    <3>1. CASE CommitPhotos(r)
      BY <3>1 DEF CommitPhotos
    <3>2. CASE DeletePhoto(r)
      BY <3>2 DEF DeletePhoto
    <3>3. QED
      BY <1>2, <3>1, <3>2
  <2>3. /\ DOMAIN c = {"labor", "parts", "discount", "total", "items", "photos"}
        /\ c.total = CalculateTotal(c.labor, c.parts, c.discount)
    BY <2>1, ContentsOf DEF EditLabel
  <2> DEFINE new == [c EXCEPT !.photos = photos]
  <2>4. /\ DOMAIN new = {"labor", "parts", "discount", "total", "items", "photos"}
        /\ new.labor = c.labor /\ new.parts = c.parts /\ new.discount = c.discount
        /\ new.total = c.total
    BY <2>3
  <2>5. new.total = CalculateTotal(new.labor, new.parts, new.discount)
    BY <2>3, <2>4
  <2>6. workOrder' = [workOrder EXCEPT ![n] = [workOrder[n] EXCEPT !.contents = new]]
    BY <2>2
  <2> HIDE DEF new, c
  <2>7. pc[r] \in EditLabel
    BY <2>1 DEF EditLabel
  <2>8. QED
    BY <2>1, <2>4, <2>5, <2>6, <2>7, WriteAndFinish
<1>3. QED
  BY <1>1, <1>2

LEMMA RollbackWorkFollows ==
    ASSUME BenchInv, NEW r \in Request, RollbackWork(r)
    PROVE  BenchInv' /\ Follows
<1>1. pc' = [pc EXCEPT ![r] = "idle"] /\ Finish(r) /\ workOrder' = workOrder
  BY DEF RollbackWork
<1>2. DOMAIN workOrder' = WorkNumber /\ \A n \in WorkNumber : OrderOK(workOrder'[n])
  BY <1>1 DEF BenchInv
<1>3. QED
  BY <1>1, <1>2, FinishKeeps, NothingFollows

LEMMA BenchNextFollows ==
    ASSUME BenchInv, [OneTechnicianNext]_benchVars
    PROVE  BenchInv' /\ Follows
<1>1. ASSUME NEW r \in Request, WorkStep(r)
      PROVE  BenchInv' /\ Follows
  BY <1>1, CreateFollows, WriteOrderFollows, StageFollows, PartFollows, CommitPartFollows,
     RemoveFollows, PhotosFollow, Zenon DEF WorkStep
<1>2. ASSUME OneTechnicianNext
      PROVE  BenchInv' /\ Follows
  BY <1>1, <1>2, CreateFollows, StartFollows, RollbackWorkFollows, Zenon DEF OneTechnicianNext
<1>3. ASSUME UNCHANGED benchVars
      PROVE  BenchInv' /\ Follows
  <2>1. pc' = pc /\ repairing' = repairing /\ workOrder' = workOrder
    BY <1>3 DEF benchVars, workVars
  <2>2. BenchInv'
    BY <2>1 DEF BenchInv, HandlerOK, Apart, InsertApart
  <2>3. QED
    BY <2>1, <2>2, NothingFollows
<1>4. QED
  BY <1>2, <1>3

LEMMA BenchKeepsInvariant == BenchSpec => []BenchInv
<1>1. BenchInv /\ [OneTechnicianNext]_benchVars => BenchInv'
  BY BenchNextFollows
<1>2. QED
  BY <1>1, BenchInitInv, PTL DEF BenchSpec

-----------------------------------------------------------------------------
(* What the parts of an order cost *)

ItemRow == [part: Part, kept: BOOLEAN]

LEMMA SubtotalInt == \A part \in Part : Subtotal(part) \in Int
  BY ServiceOrderAssumption DEF Subtotal

LEMMA CostOfNothing == PartsCost(<<>>) = 0
<1>1. PICK f : f = [i \in DOMAIN <<>> |-> Subtotal(<<>>[i].part)]
  OBVIOUS
<1>2. {i \in DOMAIN <<>> : <<>>[i].kept} = {}
  OBVIOUS
<1>3. SumFunctionOnSet(f, {}) = 0
  BY SumEmpty
<1>4. QED
  BY <1>1, <1>2, <1>3 DEF PartsCost

\* The sum in the shape the lemmas about sums use.
LEMMA CostFacts ==
    ASSUME NEW items \in Seq(ItemRow)
    PROVE  \E f, S : /\ PartsCost(items) = SumFunctionOnSet(f, S)
                     /\ PartsCost(items) \in Int
                     /\ S = {i \in 1..Len(items) : items[i].kept}
                     /\ IsFiniteSet(S)
                     /\ \A i \in 1..Len(items) : f[i] = Subtotal(items[i].part) /\ f[i] \in Int
<1>0. /\ DOMAIN items = 1..Len(items) /\ Len(items) \in Nat
      /\ \A i \in 1..Len(items) : items[i].part \in Part
  <2>1. \A i \in 1..Len(items) : items[i] \in ItemRow
    BY ElementOfSeq
  <2>2. QED
    BY <2>1 DEF ItemRow
<1>1. PICK f, S : /\ f = [i \in DOMAIN items |-> Subtotal(items[i].part)]
                  /\ S = {i \in DOMAIN items : items[i].kept}
  OBVIOUS
<1>2. S \subseteq 1..Len(items) /\ IsFiniteSet(S)
  <2>1. S \in SUBSET (1..Len(items))
    BY <1>0, <1>1
  <2>2. IsFiniteSet(1..Len(items))
    BY <1>0, FS_Interval
  <2>3. QED
    BY <2>1, <2>2, FS_Subset
<1>3. \A i \in 1..Len(items) : f[i] = Subtotal(items[i].part) /\ f[i] \in Int
  BY <1>0, <1>1, SubtotalInt
<1>4. PartsCost(items) = SumFunctionOnSet(f, S)
  BY <1>1 DEF PartsCost
<1>5. \A i \in S : f[i] \in Int
  BY <1>2, <1>3
<1>6. SumFunctionOnSet(f, S) \in Int
  BY <1>2, <1>5, SumInt
<1>7. S = {i \in 1..Len(items) : items[i].kept}
  BY <1>0, <1>1
<1>8. QED
  BY <1>2, <1>3, <1>4, <1>6, <1>7

\* An item is added.
LEMMA CostOfOneMore ==
    ASSUME NEW items \in Seq(ItemRow), NEW e \in ItemRow, e.kept
    PROVE  /\ Append(items, e) \in Seq(ItemRow)
           /\ PartsCost(Append(items, e)) = PartsCost(items) + Subtotal(e.part)
<1>1. PICK more, n : more = Append(items, e) /\ n = Len(items) + 1
  OBVIOUS
<1>2. /\ more \in Seq(ItemRow) /\ Len(more) = n /\ n \in Nat
      /\ \A i \in 1..Len(items) : more[i] = items[i]
      /\ more[n] = e
  BY <1>1, AppendProperties
<1>3. PICK f, S : /\ PartsCost(items) = SumFunctionOnSet(f, S)
                  /\ S = {i \in 1..Len(items) : items[i].kept}
                  /\ IsFiniteSet(S)
                  /\ \A i \in 1..Len(items) : f[i] = Subtotal(items[i].part) /\ f[i] \in Int
  BY CostFacts
<1>4. PICK g, T : /\ PartsCost(more) = SumFunctionOnSet(g, T)
                  /\ T = {i \in 1..Len(more) : more[i].kept}
                  /\ \A i \in 1..Len(more) : g[i] = Subtotal(more[i].part) /\ g[i] \in Int
  BY <1>2, CostFacts
<1>5. 1..n = 1..Len(items) \cup {n} /\ n \notin 1..Len(items)
  BY <1>1
<1>6. T = S \cup {n} /\ n \notin S
  BY <1>2, <1>3, <1>4, <1>5
<1>7. \A i \in S : f[i] = g[i] /\ g[i] \in Int
  BY <1>2, <1>3, <1>4, <1>5
<1>8. SumFunctionOnSet(f, S) = SumFunctionOnSet(g, S)
  <2>1. \A i \in S : f[i] = g[i]
    BY <1>7
  <2>2. QED
    BY <1>3, <2>1, SumSame
<1>9. g[n] = Subtotal(e.part) /\ g[n] \in Int
  BY <1>2, <1>4, <1>5
<1>10. SumFunctionOnSet(g, S \cup {n}) = SumFunctionOnSet(g, S) + g[n]
  <2>1. IsFiniteSet(S) /\ n \notin S /\ g[n] \in Int /\ \A i \in S : g[i] \in Int
    BY <1>3, <1>6, <1>7, <1>9
  <2>2. QED
    BY <2>1, SumAdded
<1>11. QED
  BY <1>1, <1>2, <1>3, <1>4, <1>6, <1>8, <1>9, <1>10

\* An item is deleted.
LEMMA CostOfOneLess ==
    ASSUME NEW items \in Seq(ItemRow), NEW i \in 1..Len(items), items[i].kept,
           NEW less, less \in Seq(ItemRow), Len(less) = Len(items),
           ~less[i].kept,
           \A k \in 1..Len(items) :
             less[k].part = items[k].part /\ (k # i => less[k].kept = items[k].kept)
    PROVE  PartsCost(items) = PartsCost(less) + Subtotal(items[i].part)
<1>1. PICK f, S : /\ PartsCost(items) = SumFunctionOnSet(f, S)
                  /\ S = {k \in 1..Len(items) : items[k].kept}
                  /\ IsFiniteSet(S)
                  /\ \A k \in 1..Len(items) : f[k] = Subtotal(items[k].part) /\ f[k] \in Int
  BY CostFacts
<1>2. PICK g, T : /\ PartsCost(less) = SumFunctionOnSet(g, T)
                  /\ PartsCost(less) \in Int
                  /\ T = {k \in 1..Len(less) : less[k].kept}
                  /\ IsFiniteSet(T)
                  /\ \A k \in 1..Len(less) : g[k] = Subtotal(less[k].part) /\ g[k] \in Int
  BY CostFacts
<1>3. i \in S /\ T = S \ {i}
  BY <1>1, <1>2
<1>4. IsFiniteSet(S) /\ i \in S /\ \A k \in S : f[k] \in Int
  BY <1>1, <1>3
<1>5. SumFunctionOnSet(f, S) = f[i] + SumFunctionOnSet(f, S \ {i})
  BY <1>4, SumSplit
<1>6. \A k \in T : f[k] = g[k]
  BY <1>1, <1>2
<1>7. SumFunctionOnSet(f, T) = SumFunctionOnSet(g, T)
  BY <1>2, <1>6, SumSame
<1>8. PICK a, b : a = SumFunctionOnSet(g, T) /\ b = f[i]
  OBVIOUS
<1>9. a \in Int /\ b \in Int /\ b + a = a + b
  BY <1>1, <1>2, <1>8
<1>10. QED
  BY <1>1, <1>2, <1>3, <1>5, <1>7, <1>8, <1>9

\* An order charges at least the parts that are on it.
ChargeOK(c) ==
    /\ c.items \in Seq(ItemRow)
    /\ c.parts \in Int
    /\ c.parts >= PartsCost(c.items)

\* What addItem adds is a part; removeItem, once it has deleted the item, has
\* still to take its price out of the cost.
PartAt(r) ==
    LET b == repairing[r]
        c == workOrder[b.number].contents
    IN  /\ pc[r] \in {"readPart", "storePart", "writePart", "commitPart"} => b.what \in Part
        /\ pc[r] \in {"deleteItem", "writeRemoved"} => b.what \in 1..Len(c.items)
        /\ pc[r] = "writeRemoved" =>
             /\ ~c.items[b.what].kept
             /\ c.parts >= PartsCost(c.items) + Subtotal(c.items[b.what].part)

ChargeInv ==
    /\ \A n \in WorkNumber : ChargeOK(workOrder[n].contents)
    /\ \A r \in Request : PartAt(r)

\* A handler at work on an order, as far as the charges are concerned.
PartLabel ==
    {"readPart", "storePart", "writePart", "commitPart", "deleteItem", "writeRemoved"}

\* A step that touches neither the items nor their cost.
LEMMA QuietCharges ==
    ASSUME BenchInv, ChargeInv, NEW r \in Request, PartAt(r)',
           \A q \in Request \ {r} : pc'[q] = pc[q] /\ repairing'[q] = repairing[q],
           \A m \in WorkNumber :
             /\ workOrder'[m].contents.items = workOrder[m].contents.items
             /\ workOrder'[m].contents.parts = workOrder[m].contents.parts
    PROVE  ChargeInv'
<1>1. \A n \in WorkNumber : ChargeOK(workOrder'[n].contents)
  BY DEF ChargeInv, ChargeOK
<1>2. ASSUME NEW q \in Request \ {r}, pc[q] \in PartLabel
      PROVE  PartAt(q)'
  <2>1. repairing[q].number \in WorkNumber
    BY <1>2 DEF BenchInv, HandlerOK, TakenLabel, EditLabel, PartLabel
  <2>2. QED
    BY <2>1 DEF ChargeInv, PartAt
<1>3. ASSUME NEW q \in Request \ {r}, pc[q] \notin PartLabel
      PROVE  PartAt(q)'
  BY <1>3 DEF PartAt, PartLabel
<1>4. QED
  BY <1>1, <1>2, <1>3 DEF ChargeInv

\* A step that writes the order of its handler.
LEMMA WriteCharges ==
    ASSUME BenchInv, ChargeInv, NEW r \in Request, PartAt(r)',
           pc[r] \in EditLabel \cup {"commitWorkOrder"},
           \A q \in Request \ {r} : pc'[q] = pc[q] /\ repairing'[q] = repairing[q],
           NEW n, n = repairing[r].number,
           \A m \in WorkNumber \ {n} : workOrder'[m] = workOrder[m],
           n \in WorkNumber => ChargeOK(workOrder'[n].contents)
    PROVE  ChargeInv'
<1>1. \A m \in WorkNumber : ChargeOK(workOrder'[m].contents)
  BY DEF ChargeInv
<1>2. ASSUME NEW q \in Request \ {r}, pc[q] \in PartLabel
      PROVE  PartAt(q)'
  <2>1. /\ repairing[q].number \in WorkNumber
        /\ workOrder[repairing[q].number].status # "NONE"
    BY <1>2 DEF BenchInv, HandlerOK, TakenLabel, EditLabel, PartLabel
  <2>2. repairing[q].number # n
    <3>1. CASE pc[r] = "commitWorkOrder"
      BY <2>1, <3>1 DEF BenchInv, HandlerOK
    <3>2. CASE pc[r] \in EditLabel
      BY <1>2, <3>2 DEF BenchInv, Apart, TakenLabel, EditLabel, PartLabel
    <3>3. QED
      BY <3>1, <3>2
  <2>3. workOrder'[repairing[q].number] = workOrder[repairing[q].number]
    BY <2>1, <2>2
  <2>4. QED
    BY <2>3 DEF ChargeInv, PartAt
<1>3. ASSUME NEW q \in Request \ {r}, pc[q] \notin PartLabel
      PROVE  PartAt(q)'
  BY <1>3 DEF PartAt, PartLabel
<1>4. QED
  BY <1>1, <1>2, <1>3 DEF ChargeInv

\* The requests that begin.
LEMMA StartCharges ==
    ASSUME BenchInv, ChargeInv, NEW r \in Request,
           \/ \E photos \in Photos \cup {0} : StartWorkOrder(r, photos)
           \/ \E n \in WorkReceived : StartWork(r, n)
    PROVE  ChargeInv'
<1>0. DOMAIN pc = Request /\ DOMAIN repairing = Request
  BY DEF BenchInv
<1>1. ASSUME NEW to, to \notin PartLabel, Step(r, "idle", to), workOrder' = workOrder,
             \A q \in Request \ {r} : repairing'[q] = repairing[q]
      PROVE  ChargeInv'
  <2>1. PartAt(r)'
    BY <1>0, <1>1 DEF PartAt, PartLabel, Step
  <2>2. QED
    BY <1>0, <1>1, <2>1, QuietCharges DEF Step
<1>2. ASSUME NEW photos \in Photos \cup {0}, StartWorkOrder(r, photos)
      PROVE  ChargeInv'
  BY <1>0, <1>1, <1>2 DEF StartWorkOrder, PartLabel
<1>3. ASSUME NEW n \in WorkReceived, StartWork(r, n)
      PROVE  ChargeInv'
  <2>0. n \in WorkNumber
    BY DEF WorkReceived
  <2>1. ASSUME NEW labor \in Cost \cup {None}, NEW discount \in Cost \cup {None},
               StartUpdateOrder(r, n, labor, discount)
        PROVE  ChargeInv'
    BY <1>0, <1>1, <2>1 DEF StartUpdateOrder, Begin, PartLabel
  <2>2. ASSUME NEW status \in WorkStatus, NEW deliver \in BOOLEAN, StartStage(r, n, status, deliver)
        PROVE  ChargeInv'
    BY <1>0, <1>1, <2>2 DEF StartStage, Begin, PartLabel
  <2>3. ASSUME (\E photos \in Photos : StartPhotos(r, n, photos)) \/ StartDeletePhoto(r, n)
        PROVE  ChargeInv'
    BY <1>0, <1>1, <2>3 DEF StartPhotos, StartDeletePhoto, Begin, PartLabel
  <2>4. ASSUME NEW part \in Part, StartPart(r, n, part)
        PROVE  ChargeInv'
    <3>1. /\ pc'[r] \in {"writePart", "readPart"} /\ repairing'[r].what = part
          /\ workOrder' = workOrder
          /\ \A q \in Request \ {r} : pc'[q] = pc[q] /\ repairing'[q] = repairing[q]
      BY <1>0, <2>4 DEF StartPart, Begin, Step
    <3>2. PartAt(r)'
      BY <3>1 DEF PartAt
    <3>3. QED
      BY <3>1, <3>2, QuietCharges
  <2>5. ASSUME NEW i \in DOMAIN workOrder[n].contents.items, StartRemoveItem(r, n, i)
        PROVE  ChargeInv'
    <3>1. /\ pc'[r] = "deleteItem" /\ repairing'[r].what = i /\ repairing'[r].number = n
          /\ workOrder' = workOrder
          /\ \A q \in Request \ {r} : pc'[q] = pc[q] /\ repairing'[q] = repairing[q]
      BY <1>0, <2>5 DEF StartRemoveItem, Begin, Step
    <3>2. PICK items : items = workOrder[n].contents.items
      OBVIOUS
    <3>3. items \in Seq(ItemRow)
      BY <2>0, <3>2 DEF ChargeInv, ChargeOK
    <3>4. i \in 1..Len(items)
      BY <3>2, <3>3
    <3>5. PartAt(r)'
      BY <3>1, <3>2, <3>4 DEF PartAt
    <3>6. QED
      BY <3>1, <3>5, QuietCharges
  <2>6. QED
    BY <1>3, <2>1, <2>2, <2>3, <2>4, <2>5, Zenon DEF StartWork
<1>4. QED
  BY <1>2, <1>3

\* The steps that leave the items and their cost alone.
LEMMA OtherCharges ==
    ASSUME BenchInv, ChargeInv, NEW r \in Request,
           \/ InsertWorkOrder(r) \/ WriteOrder(r) \/ WriteStage(r) \/ CommitStage(r)
           \/ WriteDelivered(r) \/ ReadPart(r) \/ StorePart(r) \/ WritePart(r)
           \/ CountPhotos(r) \/ CommitPhotos(r) \/ DeletePhoto(r) \/ RollbackWork(r)
    PROVE  ChargeInv'
<1>0. /\ DOMAIN pc = Request /\ DOMAIN repairing = Request /\ DOMAIN workOrder = WorkNumber
      /\ \A m \in WorkNumber : /\ DOMAIN workOrder[m] = {"status", "delivered", "contents"}
                               /\ DOMAIN workOrder[m].contents =
                                    {"labor", "parts", "discount", "total", "items", "photos"}
      /\ PartAt(r)
  BY DEF BenchInv, OrderOK, ChargeInv
<1>1. ASSUME InsertWorkOrder(r) \/ WriteStage(r) \/ CountPhotos(r) \/ RollbackWork(r)
      PROVE  ChargeInv'
  <2>1. /\ workOrder' = workOrder /\ pc'[r] \notin PartLabel
        /\ \A q \in Request \ {r} : pc'[q] = pc[q] /\ repairing'[q] = repairing[q]
    BY <1>0, <1>1 DEF InsertWorkOrder, WriteStage, CountPhotos, RollbackWork, Step, Finish,
       workVars, PartLabel
  <2>2. PartAt(r)'
    BY <2>1 DEF PartAt, PartLabel
  <2>3. QED
    BY <2>1, <2>2, QuietCharges
<1>2. ASSUME StorePart(r) \/ WritePart(r)
      PROVE  ChargeInv'
  <2>1. /\ workOrder' = workOrder /\ repairing' = repairing
        /\ pc[r] \in {"storePart", "writePart"} /\ pc'[r] \in {"writePart", "commitPart"}
        /\ \A q \in Request \ {r} : pc'[q] = pc[q]
    BY <1>0, <1>2 DEF StorePart, WritePart, Step, workVars
  <2>2. PartAt(r)'
    BY <1>0, <2>1 DEF PartAt
  <2>3. QED
    BY <2>1, <2>2, QuietCharges
<1>3. ASSUME ReadPart(r)
      PROVE  ChargeInv'
  <2>1. PICK x : repairing' = [repairing EXCEPT ![r].seen = x]
    BY <1>3 DEF ReadPart
  <2>2. /\ pc[r] = "readPart" /\ pc'[r] = "storePart" /\ workOrder' = workOrder
        /\ \A q \in Request \ {r} : pc'[q] = pc[q] /\ repairing'[q] = repairing[q]
    BY <1>0, <1>3, <2>1 DEF ReadPart, Step
  <2>3. DOMAIN repairing[r] = HandlerFields
    BY <2>2 DEF BenchInv, HandlerOK, TakenLabel, EditLabel
  <2>4. repairing'[r].what = repairing[r].what
    BY <1>0, <2>1, <2>3 DEF HandlerFields
  <2>5. PartAt(r)'
    BY <1>0, <2>2, <2>4 DEF PartAt
  <2>6. QED
    BY <2>2, <2>5, QuietCharges
<1>4. ASSUME NEW n, NEW w, workOrder' = [workOrder EXCEPT ![n] = w],
             n \in WorkNumber =>
               /\ w.contents.items = workOrder[n].contents.items
               /\ w.contents.parts = workOrder[n].contents.parts,
             pc'[r] \notin PartLabel,
             \A q \in Request \ {r} : pc'[q] = pc[q] /\ repairing'[q] = repairing[q]
      PROVE  ChargeInv'
  <2>1. \A m \in WorkNumber :
          /\ workOrder'[m].contents.items = workOrder[m].contents.items
          /\ workOrder'[m].contents.parts = workOrder[m].contents.parts
    BY <1>0, <1>4
  <2>2. PartAt(r)'
    BY <1>4 DEF PartAt, PartLabel
  <2>3. QED
    BY <1>4, <2>1, <2>2, QuietCharges
<1>5. ASSUME CommitStage(r)
      PROVE  ChargeInv'
  <2>1. PICK n, s : n = repairing[r].number /\ s = repairing[r].what.status
    OBVIOUS
  <2>2. workOrder' = [workOrder EXCEPT ![n].status = s]
    BY <1>5, <2>1, Zenon DEF CommitStage
  <2>3. PICK w : w = [workOrder[n] EXCEPT !.status = s]
    OBVIOUS
  <2>4. workOrder' = [workOrder EXCEPT ![n] = w]
    BY <2>2, <2>3
  <2>5. n \in WorkNumber => w.contents = workOrder[n].contents
    BY <1>0, <2>3
  <2>6. /\ pc'[r] \notin PartLabel
        /\ \A q \in Request \ {r} : pc'[q] = pc[q] /\ repairing'[q] = repairing[q]
    <3>1. CASE repairing[r].what.deliver
      BY <1>0, <1>5, <3>1 DEF CommitStage, Step, PartLabel
    <3>2. CASE ~repairing[r].what.deliver
      BY <1>0, <1>5, <3>2 DEF CommitStage, Step, Finish, PartLabel
    <3>3. QED
      BY <3>1, <3>2
  <2>7. QED
    BY <1>4, <2>4, <2>5, <2>6
<1>6. ASSUME WriteDelivered(r)
      PROVE  ChargeInv'
  <2>1. PICK n, delivered : n = repairing[r].number /\ delivered = TRUE
    OBVIOUS
  <2>2. workOrder' = [workOrder EXCEPT ![n].delivered = delivered]
    BY <1>6, <2>1, Zenon DEF WriteDelivered
  <2>3. PICK w : w = [workOrder[n] EXCEPT !.delivered = delivered]
    OBVIOUS
  <2>4. workOrder' = [workOrder EXCEPT ![n] = w]
    BY <2>2, <2>3
  <2>5. n \in WorkNumber => w.contents = workOrder[n].contents
    BY <1>0, <2>3
  <2>6. /\ pc'[r] \notin PartLabel
        /\ \A q \in Request \ {r} : pc'[q] = pc[q] /\ repairing'[q] = repairing[q]
    BY <1>0, <1>6 DEF WriteDelivered, Step, Finish, PartLabel
  <2>7. QED
    BY <1>4, <2>4, <2>5, <2>6
<1>7. ASSUME WriteOrder(r)
      PROVE  ChargeInv'
  <2>1. PICK n, c : n = repairing[r].number /\ c = workOrder[n].contents
    OBVIOUS
  <2>2. PICK labor, discount, total : workOrder' = [workOrder EXCEPT ![n].contents =
          [c EXCEPT !.labor = labor, !.discount = discount, !.total = total]]
    BY <1>7, <2>1, Zenon DEF WriteOrder
  <2>3. PICK new : new = [c EXCEPT !.labor = labor, !.discount = discount, !.total = total]
    OBVIOUS
  <2>4. n \in WorkNumber => new.items = c.items /\ new.parts = c.parts
    BY <1>0, <2>1, <2>3
  <2>5. PICK w : w = [workOrder[n] EXCEPT !.contents = new]
    OBVIOUS
  <2>6. workOrder' = [workOrder EXCEPT ![n] = w]
    BY <2>2, <2>3, <2>5
  <2>7. n \in WorkNumber => w.contents = new
    BY <1>0, <2>5
  <2>8. /\ pc'[r] \notin PartLabel
        /\ \A q \in Request \ {r} : pc'[q] = pc[q] /\ repairing'[q] = repairing[q]
    BY <1>0, <1>7 DEF WriteOrder, Step, Finish, PartLabel
  <2>9. QED
    BY <1>4, <2>1, <2>4, <2>6, <2>7, <2>8
<1>8. ASSUME CommitPhotos(r) \/ DeletePhoto(r)
      PROVE  ChargeInv'
  <2>1. PICK n, c : n = repairing[r].number /\ c = workOrder[n].contents
    OBVIOUS
  <2>2. PICK photos : workOrder' = [workOrder EXCEPT ![n] = [workOrder[n] EXCEPT !.contents =
          [c EXCEPT !.photos = photos]]]
    <3>1. CASE CommitPhotos(r)
      BY <2>1, <3>1 DEF CommitPhotos
    <3>2. CASE DeletePhoto(r)
      BY <2>1, <3>2 DEF DeletePhoto
    <3>3. QED
      BY <1>8, <3>1, <3>2
  <2>3. PICK new, w : /\ new = [c EXCEPT !.photos = photos]
                      /\ w = [workOrder[n] EXCEPT !.contents = new]
    OBVIOUS
  <2>4. n \in WorkNumber => new.items = c.items /\ new.parts = c.parts /\ w.contents = new
    BY <1>0, <2>1, <2>3
  <2>5. workOrder' = [workOrder EXCEPT ![n] = w]
    BY <2>2, <2>3
  <2>6. /\ pc'[r] \notin PartLabel
        /\ \A q \in Request \ {r} : pc'[q] = pc[q] /\ repairing'[q] = repairing[q]
    BY <1>0, <1>8 DEF CommitPhotos, DeletePhoto, Step, Finish, PartLabel
  <2>7. QED
    BY <1>4, <2>1, <2>4, <2>5, <2>6
<1>9. QED
  BY <1>1, <1>2, <1>3, <1>5, <1>6, <1>7, <1>8

\* create: an order begins with nothing to charge.
LEMMA CreateCharges ==
    ASSUME BenchInv, ChargeInv, NEW r \in Request, CommitWorkOrder(r)
    PROVE  ChargeInv'
<1>0. DOMAIN pc = Request /\ DOMAIN repairing = Request /\ DOMAIN workOrder = WorkNumber
  BY DEF BenchInv
<1>1. PICK n, delivered, c : /\ n = repairing[r].number /\ delivered = FALSE
                             /\ c = [NoContents EXCEPT !.photos = repairing[r].what]
  OBVIOUS
<1>2. workOrder' = [workOrder EXCEPT ![n] =
        [status |-> "RECEIVED", delivered |-> delivered, contents |-> c]]
  BY <1>1, Zenon DEF CommitWorkOrder
<1>3. c.items = <<>> /\ c.parts = 0
  BY <1>1 DEF NoContents
<1>4. ChargeOK(c)
  BY <1>3, CostOfNothing DEF ChargeOK
<1>5. /\ pc[r] = "commitWorkOrder" /\ pc'[r] = "idle"
      /\ \A q \in Request \ {r} : pc'[q] = pc[q] /\ repairing'[q] = repairing[q]
  BY <1>0 DEF CommitWorkOrder, Step, Finish
<1>6. PartAt(r)'
  BY <1>5 DEF PartAt
<1>7. /\ \A m \in WorkNumber \ {n} : workOrder'[m] = workOrder[m]
      /\ n \in WorkNumber => workOrder'[n].contents = c
  BY <1>0, <1>2
<1>8. QED
  BY <1>1, <1>4, <1>5, <1>6, <1>7, WriteCharges

\* addItem: the item and its price enter together.
LEMMA PartCharges ==
    ASSUME BenchInv, ChargeInv, NEW r \in Request, CommitPart(r)
    PROVE  ChargeInv'
<1> DEFINE b == repairing[r]
           n == b.number
           c == workOrder[n].contents
           e == [part |-> b.what, kept |-> TRUE]
           parts == b.parts + Subtotal(b.what)
           total == CalculateTotal(b.labor, parts, b.discount)
<1>1. pc[r] = "commitPart" /\ pc' = [pc EXCEPT ![r] = "idle"] /\ Finish(r)
  BY DEF CommitPart, Step
<1>2. /\ n \in WorkNumber /\ DOMAIN workOrder = WorkNumber
      /\ DOMAIN workOrder[n] = {"status", "delivered", "contents"}
      /\ DOMAIN c = {"labor", "parts", "discount", "total", "items", "photos"}
      /\ b.parts = c.parts
  BY <1>1, ContentsOf DEF EditLabel, CostLabel
<1>3. /\ b.what \in Part /\ c.items \in Seq(ItemRow) /\ c.parts \in Int
      /\ c.parts >= PartsCost(c.items)
  BY <1>1, <1>2 DEF ChargeInv, ChargeOK, PartAt
<1>4. e \in ItemRow /\ e.kept /\ e.part = b.what
  BY <1>3 DEF ItemRow
<1>5. PICK items, cost, sum : items = Append(c.items, e) /\ cost = parts /\ sum = total
  OBVIOUS
<1>6. workOrder' = [workOrder EXCEPT ![n] = [workOrder[n] EXCEPT !.contents =
        [c EXCEPT !.items = items, !.parts = cost, !.total = sum]]]
  BY <1>5, Zenon DEF CommitPart
<1>7. PICK old, x, part : old = c.items /\ x = e /\ part = b.what
  OBVIOUS
<1> HIDE DEF total, e
<1>8. items \in Seq(ItemRow) /\ PartsCost(items) = PartsCost(old) + Subtotal(part)
  BY <1>3, <1>4, <1>5, <1>7, CostOfOneMore
<1>9. Subtotal(part) \in Int /\ PartsCost(old) \in Int
  BY <1>3, <1>7, SubtotalInt, CostFacts
<1>10. cost = c.parts + Subtotal(part)
  BY <1>2, <1>5, <1>7
<1>11. cost \in Int /\ cost >= PartsCost(items)
  BY <1>3, <1>7, <1>8, <1>9, <1>10
<1> HIDE DEF parts
<1>12. PICK new : new = [c EXCEPT !.items = items, !.parts = cost, !.total = sum]
  OBVIOUS
<1>13. new.items = items /\ new.parts = cost
  BY <1>2, <1>12
<1>14. ChargeOK(new)
  BY <1>8, <1>11, <1>13 DEF ChargeOK
<1>15. /\ \A m \in WorkNumber \ {n} : workOrder'[m] = workOrder[m]
       /\ workOrder'[n].contents = new
  BY <1>2, <1>6, <1>12
<1>16. /\ pc'[r] = "idle" /\ pc[r] \in EditLabel
       /\ \A q \in Request \ {r} : pc'[q] = pc[q] /\ repairing'[q] = repairing[q]
  BY <1>1 DEF BenchInv, Finish, EditLabel
<1>17. PartAt(r)'
  BY <1>16 DEF PartAt
<1>18. QED
  BY <1>14, <1>15, <1>16, <1>17, WriteCharges

\* removeItem: the item goes first, its price after it.
LEMMA DeleteCharges ==
    ASSUME BenchInv, ChargeInv, NEW r \in Request, DeleteItem(r)
    PROVE  ChargeInv'
<1> DEFINE n == repairing[r].number
           c == workOrder[n].contents
<1>1. PICK i, kept : i = repairing[r].what /\ kept = FALSE
  OBVIOUS
<1>2. workOrder' = [workOrder EXCEPT ![n].contents.items[i].kept = kept]
  BY <1>1, Zenon DEF DeleteItem
<1>3. pc[r] = "deleteItem" /\ pc' = [pc EXCEPT ![r] = "writeRemoved"] /\ repairing' = repairing
  BY DEF DeleteItem, Step
<1>4. /\ n \in WorkNumber /\ DOMAIN workOrder = WorkNumber
      /\ DOMAIN workOrder[n] = {"status", "delivered", "contents"}
      /\ DOMAIN c = {"labor", "parts", "discount", "total", "items", "photos"}
  BY <1>3, ContentsOf DEF EditLabel
<1>5. PICK old : old = c.items
  OBVIOUS
<1>6. /\ old \in Seq(ItemRow) /\ c.parts \in Int /\ c.parts >= PartsCost(old)
      /\ i \in 1..Len(old)
  BY <1>1, <1>3, <1>4, <1>5 DEF ChargeInv, ChargeOK, PartAt
<1>7. old[i].kept
  BY <1>1, <1>5 DEF DeleteItem
<1>8. PICK row : row = [old[i] EXCEPT !.kept = kept]
  OBVIOUS
<1>9. PICK less : less = [old EXCEPT ![i] = row]
  OBVIOUS
<1>10. PICK new : new = [c EXCEPT !.items = less]
  OBVIOUS
<1>11. workOrder' = [workOrder EXCEPT ![n] = [workOrder[n] EXCEPT !.contents = new]]
  BY <1>2, <1>5, <1>8, <1>9, <1>10
<1>12. \A k \in 1..Len(old) : old[k] \in ItemRow
  BY <1>6, ElementOfSeq
<1>13. row \in ItemRow /\ row.part = old[i].part /\ row.kept = kept
  BY <1>1, <1>6, <1>8, <1>12 DEF ItemRow
<1>14. less \in Seq(ItemRow) /\ Len(less) = Len(old)
  BY <1>6, <1>9, <1>13
<1>15. /\ less[i] = row /\ ~less[i].kept
       /\ \A k \in 1..Len(old) :
            less[k].part = old[k].part /\ (k # i => less[k].kept = old[k].kept)
  BY <1>1, <1>6, <1>9, <1>13
<1>16. PartsCost(old) = PartsCost(less) + Subtotal(old[i].part)
  BY <1>6, <1>7, <1>14, <1>15, CostOfOneLess
<1>17. /\ Subtotal(old[i].part) \in Nat /\ PartsCost(less) \in Int
       /\ Subtotal(less[i].part) = Subtotal(old[i].part)
  <2>1. old[i].part \in Part
    BY <1>6, <1>12 DEF ItemRow
  <2>2. Subtotal(old[i].part) \in Nat
    BY <2>1, ServiceOrderAssumption DEF Subtotal
  <2>3. QED
    BY <1>13, <1>14, <1>15, <2>2, CostFacts
<1>18. new.items = less /\ new.parts = c.parts
  BY <1>4, <1>10
<1>19. /\ ChargeOK(new)
       /\ new.parts >= PartsCost(less) + Subtotal(less[i].part)
  BY <1>6, <1>14, <1>16, <1>17, <1>18 DEF ChargeOK
<1>20. /\ \A m \in WorkNumber \ {n} : workOrder'[m] = workOrder[m]
       /\ workOrder'[n].contents = new
  BY <1>4, <1>11
<1>21. /\ pc'[r] = "writeRemoved" /\ pc[r] \in EditLabel
       /\ \A q \in Request \ {r} : pc'[q] = pc[q] /\ repairing'[q] = repairing[q]
       /\ repairing'[r].number = n /\ repairing'[r].what = i
  BY <1>1, <1>3 DEF BenchInv, EditLabel
<1>22. PartAt(r)'
  BY <1>6, <1>14, <1>15, <1>18, <1>19, <1>20, <1>21 DEF PartAt
<1>23. QED
  BY <1>19, <1>20, <1>21, <1>22, WriteCharges

LEMMA RemovedCharges ==
    ASSUME BenchInv, ChargeInv, NEW r \in Request, WriteRemoved(r)
    PROVE  ChargeInv'
<1> DEFINE b == repairing[r]
           n == b.number
           c == workOrder[n].contents
           subtotal == Subtotal(c.items[b.what].part)
           parts == IF b.parts > subtotal THEN b.parts - subtotal ELSE 0
           total == CalculateTotal(b.labor, parts, b.discount)
<1>1. pc[r] = "writeRemoved" /\ pc' = [pc EXCEPT ![r] = "idle"] /\ Finish(r)
  BY DEF WriteRemoved, Step
<1>2. /\ n \in WorkNumber /\ DOMAIN workOrder = WorkNumber
      /\ DOMAIN workOrder[n] = {"status", "delivered", "contents"}
      /\ DOMAIN c = {"labor", "parts", "discount", "total", "items", "photos"}
      /\ b.parts = c.parts
  BY <1>1, ContentsOf DEF EditLabel, CostLabel
<1>3. /\ c.items \in Seq(ItemRow) /\ c.parts \in Int
      /\ b.what \in 1..Len(c.items)
      /\ c.parts >= PartsCost(c.items) + subtotal
  BY <1>1, <1>2 DEF ChargeInv, ChargeOK, PartAt
<1>4. PICK cost, sum : cost = parts /\ sum = total
  OBVIOUS
<1>5. workOrder' = [workOrder EXCEPT ![n] = [workOrder[n] EXCEPT !.contents =
        [c EXCEPT !.parts = cost, !.total = sum]]]
  BY <1>4, Zenon DEF WriteRemoved
<1> HIDE DEF total
<1>6. PICK items, s : items = c.items /\ s = subtotal
  OBVIOUS
<1>7. s \in Int /\ PartsCost(items) \in Int
  <2>1. items[b.what] \in ItemRow
    BY <1>3, <1>6, ElementOfSeq
  <2>2. QED
    BY <1>3, <1>6, <2>1, SubtotalInt, CostFacts DEF ItemRow
<1>8. PICK old, kept : old = c.parts /\ kept = PartsCost(items)
  OBVIOUS
<1>9. cost \in Int /\ cost >= PartsCost(items)
  <2>1. cost = IF old > s THEN old - s ELSE 0
    BY <1>2, <1>4, <1>6, <1>8
  <2>2. old \in Int /\ s \in Int /\ kept \in Int /\ old >= kept + s
    BY <1>3, <1>6, <1>7, <1>8
  <2> HIDE DEF parts, subtotal, b, c
  <2>3. QED
    BY <1>8, <2>1, <2>2
<1> HIDE DEF parts, subtotal
<1>10. PICK new : new = [c EXCEPT !.parts = cost, !.total = sum]
  OBVIOUS
<1>11. new.items = items /\ new.parts = cost
  BY <1>2, <1>6, <1>10
<1>12. ChargeOK(new)
  BY <1>3, <1>6, <1>9, <1>11 DEF ChargeOK
<1>13. /\ \A m \in WorkNumber \ {n} : workOrder'[m] = workOrder[m]
       /\ workOrder'[n].contents = new
  BY <1>2, <1>5, <1>10
<1>14. /\ pc'[r] = "idle" /\ pc[r] \in EditLabel
       /\ \A q \in Request \ {r} : pc'[q] = pc[q] /\ repairing'[q] = repairing[q]
  BY <1>1 DEF BenchInv, Finish, EditLabel
<1>15. PartAt(r)'
  BY <1>14 DEF PartAt
<1>16. QED
  BY <1>12, <1>13, <1>14, <1>15, WriteCharges

LEMMA BenchNextCharges ==
    ASSUME BenchInv, ChargeInv, [OneTechnicianNext]_benchVars
    PROVE  ChargeInv'
<1>1. ASSUME NEW r \in Request, WorkStep(r)
      PROVE  ChargeInv'
  BY <1>1, CreateCharges, OtherCharges, PartCharges, DeleteCharges, RemovedCharges, Zenon
     DEF WorkStep
<1>2. ASSUME OneTechnicianNext
      PROVE  ChargeInv'
  BY <1>1, <1>2, StartCharges, OtherCharges, Zenon DEF OneTechnicianNext
<1>3. ASSUME UNCHANGED benchVars
      PROVE  ChargeInv'
  BY <1>3 DEF benchVars, workVars, ChargeInv, PartAt
<1>4. QED
  BY <1>2, <1>3

\* What a step of the workshop does to the orders is a step of the lifecycle.
LEMMA FollowsLifecycle ==
    ASSUME BenchInv, BenchInv', Follows
    PROVE  [Lifecycle!Next]_Lifecycle!vars
<1>1. CASE NothingSeen
  BY <1>1 DEF NothingSeen, Lifecycle!vars
<1>2. ASSUME NEW n \in WorkNumber, OneSeen(n)
      PROVE  Lifecycle!Next
  <2> DEFINE stage == [m \in WorkNumber |-> workOrder[m].status]
             stageNext == [m \in WorkNumber |-> workOrder'[m].status]
  <2>1. stageNext = [stage EXCEPT ![n] = workOrder'[n].status]
    BY <1>2 DEF OneSeen
  <2>2. CASE workOrder[n].status = "NONE" /\ workOrder'[n].status = "RECEIVED"
    <3>1. Lifecycle!Receive(n)
      BY <1>2, <2>1, <2>2 DEF Lifecycle!Receive, OneSeen
    <3>2. QED
      BY <3>1 DEF Lifecycle!Next
  <2>3. CASE /\ workOrder'[n].status \in AllowedTransitions(workOrder[n].status)
             /\ workOrder'[n].contents = workOrder[n].contents
    <3>1. /\ workOrder'[n].status \in Lifecycle!NextStages(workOrder[n].status)
          /\ workOrder[n].status # "NONE"
      BY <2>3 DEF AllowedTransitions, Lifecycle!NextStages
    <3>2. [m \in WorkNumber |-> workOrder'[m].contents] = [m \in WorkNumber |-> workOrder[m].contents]
      BY <1>2, <2>3 DEF OneSeen
    <3>3. Lifecycle!Advance(n)
      BY <2>1, <3>1, <3>2 DEF Lifecycle!Advance
    <3>4. QED
      BY <3>3 DEF Lifecycle!Next
  <2>4. CASE /\ workOrder[n].status \notin {"NONE", "DELIVERED", "CANCELLED"}
             /\ workOrder'[n].status = workOrder[n].status
    <3>1. stageNext = stage
      BY <1>2, <2>4 DEF OneSeen
    <3>2. Lifecycle!Work(n)
      BY <1>2, <2>4, <3>1 DEF Lifecycle!Work, OneSeen
    <3>3. QED
      BY <3>2 DEF Lifecycle!Next
  <2>5. QED
    BY <1>2, <2>2, <2>3, <2>4 DEF OneSeen
<1>3. QED
  BY <1>1, <1>2 DEF Follows

\* One technician per order: the handlers of service orders implement the
\* lifecycle, whatever fails between their statements.
THEOREM WorkshopFollowsLifecycle == BenchSpec => OrdersFollowLifecycle
<1>1. BenchInit => Lifecycle!Init
  BY DEF BenchInit, WorkInit, NoWorkOrder, Lifecycle!Init
<1>2. BenchInv /\ BenchInv' /\ [OneTechnicianNext]_benchVars => [Lifecycle!Next]_Lifecycle!vars
  BY BenchNextFollows, FollowsLifecycle
<1>3. QED
  BY <1>1, <1>2, BenchKeepsInvariant, PTL DEF BenchSpec, OrdersFollowLifecycle, Lifecycle!Spec

\* One technician per order: no part on an order is missing from its cost, and
\* the total follows, wherever a removal or an addition breaks off.
THEOREM WorkshopChargesAddUp == BenchSpec => []ChargesAddUp
<1>1. BenchInit => ChargeInv
  <2> SUFFICES ASSUME BenchInit PROVE ChargeInv
    OBVIOUS
  <2>1. \A n \in WorkNumber : workOrder[n].contents.items = <<>> /\ workOrder[n].contents.parts = 0
    BY DEF BenchInit, WorkInit, NoWorkOrder, NoContents
  <2>2. \A r \in Request : PartAt(r)
    BY DEF BenchInit, PartAt
  <2>3. <<>> \in Seq(ItemRow)
    OBVIOUS
  <2>4. ASSUME NEW n \in WorkNumber PROVE ChargeOK(workOrder[n].contents)
    <3>1. PICK c : c = workOrder[n].contents
      OBVIOUS
    <3>2. c.items = <<>> /\ c.parts = 0
      BY <2>1, <3>1
    <3>3. QED
      BY <2>3, <3>1, <3>2, CostOfNothing DEF ChargeOK
  <2>5. QED
    BY <2>2, <2>4 DEF ChargeInv
<1>2. BenchInv /\ ChargeInv /\ [OneTechnicianNext]_benchVars => ChargeInv'
  BY BenchNextCharges
<1>3. BenchInv /\ ChargeInv => ChargesAddUp
  <2> SUFFICES ASSUME BenchInv, ChargeInv PROVE ChargesAddUp
    OBVIOUS
  <2>1. PartsAreCharged
    BY DEF ChargeInv, ChargeOK, PartsAreCharged, WorkReceived
  <2>2. TotalFollowsCosts
    BY DEF BenchInv, OrderOK, TotalFollowsCosts, WorkReceived
  <2>3. QED
    BY <2>1, <2>2 DEF ChargesAddUp
<1>4. QED
  BY <1>1, <1>2, <1>3, BenchKeepsInvariant, PTL DEF BenchSpec

-----------------------------------------------------------------------------
(* What the documents add up to *)

\* The units of a product in an order are the last row of taken.
LEMMA TakenIsUnits ==
    ASSUME NEW o \in Order, NEW p \in Product
    PROVE  /\ UnitsOf(o.items, p) = taken[o][Len(o.items)][p]
           /\ UnitsOf(o.items, p) \in Nat
<1>1. PICK L : L = Len(o.items)
  OBVIOUS
<1>2. PICK f : f = [i \in DOMAIN o.items |-> o.items[i].quantity]
  OBVIOUS
<1>3. PICK g : g = [i \in 0..L |-> taken[o][i][p]]
  OBVIOUS
<1>4. /\ L \in Nat /\ DOMAIN o.items = 1..L
      /\ \A i \in 1..L : f[i] \in Nat /\ f[i] = o.items[i].quantity
  BY <1>1, <1>2, OrderFacts
<1>5. /\ g[0] = 0
      /\ \A i \in 0..L : g[i] \in Nat
      /\ \A i \in 1..L : g[i] = g[i - 1] + (IF p = o.items[i].product THEN f[i] ELSE 0)
  <2>1. g[0] = 0 /\ \A i \in 0..L : g[i] \in Nat
    BY <1>1, <1>3, <1>4, TakenFacts
  <2>2. ASSUME NEW i \in 1..L
        PROVE  g[i] = g[i - 1] + (IF p = o.items[i].product THEN f[i] ELSE 0)
    <3>1. i \in 0..L /\ i - 1 \in 0..L
      BY <1>4
    <3>2. g[i] = taken[o][i][p] /\ g[i - 1] = taken[o][i - 1][p]
      BY <1>3, <3>1
    <3>3. taken[o][i][p] = taken[o][i - 1][p]
                             + (IF p = o.items[i].product THEN o.items[i].quantity ELSE 0)
      BY <1>1, TakenFacts
    <3>4. f[i] = o.items[i].quantity
      BY <1>4
    <3>5. QED
      BY <3>2, <3>3, <3>4
  <2>3. QED
    BY <2>1, <2>2
<1> DEFINE Of(T) == {i \in T : o.items[i].product = p}
           Good == {T \in SUBSET (1..L) : \A j \in 0..L : T = 1..j => SumFunctionOnSet(f, Of(T)) = g[j]}
<1>6. ASSUME NEW T \in SUBSET (1..L), \A x \in T : T \ {x} \in Good
      PROVE  T \in Good
  <2> SUFFICES ASSUME NEW j \in 0..L, T = 1..j PROVE SumFunctionOnSet(f, Of(T)) = g[j]
    BY DEF Good
  <2>1. CASE j = 0
    <3>1. Of(T) = {}
      BY <1>4, <2>1
    <3>2. QED
      BY <1>5, <2>1, <3>1, SumEmpty
  <2>2. CASE j # 0
    <3>1. /\ j \in 1..L /\ j \in T /\ T \ {j} = 1..(j - 1) /\ j - 1 \in 0..L
      BY <1>4, <2>2
    <3>2. SumFunctionOnSet(f, Of(T \ {j})) = g[j - 1]
      BY <1>6, <3>1
    <3>3. PICK R : R = Of(T \ {j})
      OBVIOUS
    <3>4. IsFiniteSet(R) /\ j \notin R /\ R \subseteq 1..L
      <4>1. R \subseteq 1..L /\ j \notin R
        BY <3>3
      <4>2. L \in Int
        BY <1>4
      <4>3. IsFiniteSet(1..L)
        BY <4>2, FS_Interval
      <4>4. QED
        BY <4>1, <4>3, FS_Subset
    <3>5. CASE o.items[j].product = p
      <4>1. Of(T) = R \cup {j}
        BY <3>1, <3>3, <3>5
      <4>2. \A y \in R : f[y] \in Int
        BY <1>4, <3>4
      <4>3. f[j] \in Int
        BY <1>4, <3>1
      <4>4. SumFunctionOnSet(f, R \cup {j}) = SumFunctionOnSet(f, R) + f[j]
        BY <3>4, <4>2, <4>3, SumAdded
      <4>5. SumFunctionOnSet(f, R) = g[j - 1]
        BY <3>2, <3>3
      <4>6. g[j] = g[j - 1] + f[j]
        BY <1>5, <3>1, <3>5
      <4>7. QED
        BY <4>1, <4>4, <4>5, <4>6
    <3>6. CASE o.items[j].product # p
      <4>1. Of(T) = R
        BY <3>1, <3>3, <3>6
      <4>2. g[j] = g[j - 1]
        BY <1>5, <3>1, <3>6
      <4>3. QED
        BY <3>2, <3>3, <4>1, <4>2
    <3>7. QED
      BY <3>5, <3>6
  <2>3. QED
    BY <2>1, <2>2
<1>7. IsFiniteSet(1..L)
  BY <1>4, FS_Interval
<1>8. SUBSET (1..L) = Good
  <2>1. Good \in SUBSET (SUBSET (1..L))
    OBVIOUS
  <2> HIDE DEF Good
  <2>2. \A T \in SUBSET (1..L) : (\A x \in T : T \ {x} \in Good) => T \in Good
    BY <1>6
  <2>3. QED
    BY <1>7, <2>1, <2>2, SubsetInduction
<1>9. SumFunctionOnSet(f, Of(1..L)) = g[L]
  <2>1. 1..L \in Good /\ L \in 0..L
    BY <1>4, <1>8, SMTT(30)
  <2>2. QED
    BY <2>1 DEF Good
<1>10. UnitsOf(o.items, p) = SumFunctionOnSet(f, Of(1..L))
  BY <1>2, <1>4 DEF UnitsOf
<1>11. UnitsOf(o.items, p) = g[L] /\ L \in 0..L
  BY <1>4, <1>9, <1>10
<1>12. g[L] = taken[o][L][p] /\ g[L] \in Nat
  BY <1>3, <1>5, <1>11
<1>13. QED
  BY <1>1, <1>11, <1>12

\* One term of a sum grows by v, or enters as v.
LEMMA SumMoves ==
    ASSUME NEW S, IsFiniteSet(S), NEW x, NEW f, NEW g, NEW v \in Int,
           \A y \in S : f[y] \in Int,
           \A y \in S \ {x} : g[y] = f[y],
           x \in S => g[x] = f[x] + v,
           x \notin S => g[x] = v
    PROVE  SumFunctionOnSet(g, S \cup {x}) = SumFunctionOnSet(f, S) + v
<1>1. PICK T, R : T = S \cup {x} /\ R = S \ {x}
  OBVIOUS
<1>2. IsFiniteSet(T) /\ IsFiniteSet(R) /\ x \in T /\ T \ {x} = R
  BY <1>1, FS_AddElement, FS_Subset
<1>3. /\ \A y \in R : f[y] \in Int
      /\ \A y \in R : g[y] = f[y]
  BY <1>1
<1>4. g[x] \in Int
  BY SMT
<1>5. \A y \in T : g[y] \in Int
  BY <1>1, <1>3, <1>4
<1>6. SumFunctionOnSet(g, T) = g[x] + SumFunctionOnSet(g, T \ {x})
  BY <1>2, <1>5, SumSplit
<1>7. PICK a : a = SumFunctionOnSet(f, R)
  OBVIOUS
<1>8. a \in Int
  BY <1>2, <1>3, <1>7, SumInt
<1>9. SumFunctionOnSet(g, R) = a
  BY <1>2, <1>3, <1>7, SumSame
<1>10. SumFunctionOnSet(g, T) = g[x] + a
  BY <1>2, <1>6, <1>9
<1>11. CASE x \in S
  <2>1. \A y \in S : f[y] \in Int
    OBVIOUS
  <2>2. SumFunctionOnSet(f, S) = f[x] + SumFunctionOnSet(f, S \ {x})
    BY <1>11, <2>1, SumSplit
  <2>3. SumFunctionOnSet(f, S) = f[x] + a
    BY <1>1, <1>7, <2>2
  <2>4. f[x] \in Int /\ g[x] = f[x] + v
    BY <1>11
  <2>5. QED
    BY <1>1, <1>8, <1>10, <2>3, <2>4
<1>12. CASE x \notin S
  <2>1. S = R /\ g[x] = v
    BY <1>1, <1>12
  <2>2. SumFunctionOnSet(f, S) = a
    BY <1>7, <2>1
  <2>3. QED
    BY <1>1, <1>8, <1>10, <2>1, <2>2
<1>13. QED
  BY <1>11, <1>12

\* The units of a product fitted, in the shape the lemmas about sums use.
LEMMA FittedFacts ==
    ASSUME NEW items \in Seq(ItemRow), NEW p \in Product
    PROVE  \E f, S : /\ UnitsFitted(items, p) = SumFunctionOnSet(f, S)
                     /\ UnitsFitted(items, p) \in Int
                     /\ S = {i \in 1..Len(items) : items[i].part.product = p}
                     /\ IsFiniteSet(S)
                     /\ \A i \in 1..Len(items) : f[i] = items[i].part.quantity /\ f[i] \in Int
<1>0. /\ DOMAIN items = 1..Len(items) /\ Len(items) \in Nat
      /\ \A i \in 1..Len(items) : items[i].part.quantity \in Int
  <2>1. \A i \in 1..Len(items) : items[i] \in ItemRow
    BY ElementOfSeq
  <2>2. \A part \in Part : part.quantity \in Int
    BY ServiceOrderAssumption
  <2>3. QED
    BY <2>1, <2>2 DEF ItemRow
<1>1. PICK f, S : /\ f = [i \in DOMAIN items |-> items[i].part.quantity]
                  /\ S = {i \in DOMAIN items : items[i].part.product = p}
  OBVIOUS
<1>2. S \subseteq 1..Len(items) /\ IsFiniteSet(S)
  <2>1. S \in SUBSET (1..Len(items))
    BY <1>0, <1>1
  <2>2. IsFiniteSet(1..Len(items))
    BY <1>0, FS_Interval
  <2>3. QED
    BY <2>1, <2>2, FS_Subset
<1>3. \A i \in 1..Len(items) : f[i] = items[i].part.quantity /\ f[i] \in Int
  BY <1>0, <1>1
<1>4. UnitsFitted(items, p) = SumFunctionOnSet(f, S)
  BY <1>1 DEF UnitsFitted
<1>5. \A i \in S : f[i] \in Int
  BY <1>2, <1>3
<1>6. SumFunctionOnSet(f, S) \in Int
  BY <1>2, <1>5, SumInt
<1>7. S = {i \in 1..Len(items) : items[i].part.product = p}
  BY <1>0, <1>1
<1>8. QED
  BY <1>2, <1>3, <1>4, <1>6, <1>7

\* A part is fitted.
LEMMA FittedOneMore ==
    ASSUME NEW items \in Seq(ItemRow), NEW e \in ItemRow, NEW p \in Product
    PROVE  /\ Append(items, e) \in Seq(ItemRow)
           /\ UnitsFitted(Append(items, e), p) =
                UnitsFitted(items, p) + IF e.part.product = p THEN e.part.quantity ELSE 0
<1>1. PICK more, n : more = Append(items, e) /\ n = Len(items) + 1
  OBVIOUS
<1>2. /\ more \in Seq(ItemRow) /\ Len(more) = n /\ n \in Nat
      /\ \A i \in 1..Len(items) : more[i] = items[i]
      /\ more[n] = e
  BY <1>1, AppendProperties
<1>3. PICK f, S : /\ UnitsFitted(items, p) = SumFunctionOnSet(f, S)
                  /\ S = {i \in 1..Len(items) : items[i].part.product = p}
                  /\ IsFiniteSet(S)
                  /\ \A i \in 1..Len(items) : f[i] = items[i].part.quantity /\ f[i] \in Int
  BY FittedFacts
<1>4. PICK g, T : /\ UnitsFitted(more, p) = SumFunctionOnSet(g, T)
                  /\ T = {i \in 1..Len(more) : more[i].part.product = p}
                  /\ \A i \in 1..Len(more) : g[i] = more[i].part.quantity /\ g[i] \in Int
  BY <1>2, FittedFacts
<1>5. 1..n = 1..Len(items) \cup {n} /\ n \notin 1..Len(items)
  BY <1>1
<1>6. \A i \in S : f[i] = g[i] /\ g[i] \in Int
  BY <1>2, <1>3, <1>4, <1>5
<1>7. PICK a : a = SumFunctionOnSet(g, S)
  OBVIOUS
<1>8. a \in Int /\ UnitsFitted(items, p) = a
  <2>1. \A i \in S : f[i] = g[i]
    BY <1>6
  <2>2. SumFunctionOnSet(f, S) = SumFunctionOnSet(g, S)
    BY <1>3, <2>1, SumSame
  <2>3. \A i \in S : g[i] \in Int
    BY <1>6
  <2>4. QED
    BY <1>3, <1>7, <2>2, <2>3, SumInt
<1>9. g[n] = e.part.quantity /\ g[n] \in Int
  BY <1>2, <1>4, <1>5
<1>10. CASE e.part.product = p
  <2>1. T = S \cup {n} /\ n \notin S
    BY <1>2, <1>3, <1>4, <1>5, <1>10
  <2>2. \A i \in S : g[i] \in Int
    BY <1>6
  <2>3. SumFunctionOnSet(g, S \cup {n}) = SumFunctionOnSet(g, S) + g[n]
    <3>1. IsFiniteSet(S) /\ n \notin S /\ g[n] \in Int
      BY <1>3, <1>9, <2>1
    <3>2. QED
      BY <2>2, <3>1, SumAdded
  <2>4. UnitsFitted(more, p) = a + e.part.quantity
    BY <1>4, <1>7, <1>9, <2>1, <2>3
  <2>5. QED
    BY <1>1, <1>2, <1>8, <1>10, <2>4
<1>11. CASE e.part.product # p
  <2>1. T = S
    BY <1>2, <1>3, <1>4, <1>5, <1>11
  <2>2. UnitsFitted(more, p) = a
    BY <1>4, <1>7, <2>1
  <2>3. QED
    BY <1>1, <1>2, <1>8, <1>11, <2>2
<1>12. QED
  BY <1>10, <1>11

LEMMA FittedNothing == \A p \in Product : UnitsFitted(<<>>, p) = 0
<1> SUFFICES ASSUME NEW p \in Product PROVE UnitsFitted(<<>>, p) = 0
  OBVIOUS
<1>1. {i \in DOMAIN <<>> : <<>>[i].part.product = p} = {}
  OBVIOUS
<1>2. QED
  BY <1>1, SumEmpty DEF UnitsFitted

\* Taking an item off an order leaves what was fitted.
LEMMA FittedSame ==
    ASSUME NEW items, NEW less, DOMAIN less = DOMAIN items,
           \A i \in DOMAIN items : less[i].part = items[i].part,
           NEW p
    PROVE  UnitsFitted(less, p) = UnitsFitted(items, p)
<1>1. [i \in DOMAIN less |-> less[i].part.quantity] = [i \in DOMAIN items |-> items[i].part.quantity]
  OBVIOUS
<1>2. {i \in DOMAIN less : less[i].part.product = p} = {i \in DOMAIN items : items[i].part.product = p}
  OBVIOUS
<1>3. QED
  BY <1>1, <1>2 DEF UnitsFitted

-----------------------------------------------------------------------------
(* Quick services: a sale under way and a sale registered *)

SessionOrNone == Session \cup {None}

ServedOK(w) ==
    /\ DOMAIN w = {"status", "sale", "till", "refunds"}
    /\ w.status \in {"COMPLETED", "CANCELLED"}
    /\ w.sale \in QuickSale /\ w.till \in SessionOrNone

ServingAt(r) ==
    /\ pc[r] \in QuickLabel => DOMAIN serving[r] = {"number", "sale"} /\ serving[r].sale \in QuickSale
    /\ pc[r] \in {"insertQuick", "commitQuick"} => serving[r].number \in QuickNumber
    /\ pc[r] \in {"writeQuick", "commitRefund"} => serving[r].number \in Served

QuickInv ==
    /\ DOMAIN quick = QuickNumber /\ DOMAIN serving = Request
    /\ \A n \in QuickNumber : quick[n] = NoQuick \/ ServedOK(quick[n])
    /\ \A r \in Request : ServingAt(r)

-----------------------------------------------------------------------------
(* Purchases: an order, and the handler at work on one *)

PurchaseStatus == {"PENDING", "PARTIALLY_RECEIVED", "RECEIVED", "CANCELLED"}

LocalFields == {"number", "supply", "base", "due", "at", "seen", "status", "payment"}

ReceiveLabel == {"readItem", "storeItem", "writeStatus", "commitReceive"}

PurchaseOK(w) ==
    /\ DOMAIN w = {"status", "supply", "payment", "received", "arrived"}
    /\ w.status \in PurchaseStatus /\ w.supply \in Supply
    /\ DOMAIN w.received = DOMAIN w.supply.items
    /\ DOMAIN w.arrived = DOMAIN w.supply.items
    /\ \A i \in DOMAIN w.supply.items :
         /\ w.received[i] \in 0..w.supply.items[i].quantity
         /\ w.arrived[i] \in Nat
         /\ w.received[i] <= w.arrived[i]

\* Items that a handler with the local variables b has written.
StoredBy(b) == {i \in DOMAIN b.due : i < b.at /\ b.due[i] > 0}

\* What was read of the items when the reception began had arrived by then.
ReceiverOK(b, w) ==
    /\ w.supply = b.supply
    /\ DOMAIN b.base = DOMAIN b.supply.items
    /\ DOMAIN b.due = DOMAIN b.supply.items
    /\ b.at \in Nat \ {0} /\ b.seen \in Nat
    /\ \A i \in DOMAIN b.supply.items :
         /\ b.base[i] \in Nat /\ b.due[i] \in Nat
         /\ b.base[i] <= w.arrived[i]
         /\ i \in StoredBy(b) => b.base[i] + b.due[i] <= b.supply.items[i].quantity

\* The check that the statement about to store item `at' has passed.
StoringOK(b) ==
    /\ b.at \in DOMAIN b.supply.items /\ b.due[b.at] > 0
    /\ b.base[b.at] + b.due[b.at] <= b.supply.items[b.at].quantity

Receives(r) ==
    /\ ReceiverOK(purchasing[r], purchase[purchasing[r].number])
    /\ pc[r] = "storeItem" => StoringOK(purchasing[r])

BuyerAt(r) ==
    LET b == purchasing[r]
    IN  /\ pc[r] \in PurchaseLabel =>
             DOMAIN b = LocalFields /\ b.supply \in Supply /\ b.status \in PurchaseStatus
        /\ pc[r] = "insertPurchase" => b.number \in PurchaseNumber
        /\ HasInsertedPurchase(r) => b.number \in PurchaseNumber \ Ordered
        /\ pc[r] \in ReceiveLabel \cup {"writeCancelled", "writePayment"} => b.number \in Ordered
        /\ pc[r] \in ReceiveLabel => Receives(r)

BuyersApart ==
    \A q, r \in Request :
        HasInsertedPurchase(q) /\ HasInsertedPurchase(r) /\ q # r =>
            purchasing[q].number # purchasing[r].number

BuyInv ==
    /\ DOMAIN purchase = PurchaseNumber /\ DOMAIN purchasing = Request
    /\ \A n \in PurchaseNumber : purchase[n] = NoPurchase \/ PurchaseOK(purchase[n])
    /\ \A r \in Request : BuyerAt(r)
    /\ BuyersApart

-----------------------------------------------------------------------------
(* Service orders: an order, and the handler at work on one, when requests     *)
(* about one order may race                                                    *)

RepairOK(w) ==
    /\ DOMAIN w = {"status", "delivered", "contents"}
    /\ w.status \in WorkStatus \cup {"NONE"}
    /\ DOMAIN w.contents = {"labor", "parts", "discount", "total", "items", "photos"}
    /\ w.contents.items \in Seq(ItemRow)

RepairerAt(r) ==
    LET b == repairing[r]
    IN  /\ pc[r] \in WorkLabel => DOMAIN b = HandlerFields /\ b.number \in WorkNumber
        /\ pc[r] = "commitWorkOrder" => b.number \notin WorkReceived
        /\ pc[r] \in TakenLabel => b.number \in WorkReceived
        /\ pc[r] \in {"writeStage", "commitStage"} => b.what.status \in WorkStatus
        /\ pc[r] \in {"readPart", "storePart", "writePart", "commitPart"} => b.what \in Part
        /\ pc[r] \in {"readPart", "storePart"} => b.what.product \in Product
        /\ pc[r] = "storePart" => b.seen \in Nat /\ b.seen >= b.what.quantity
        /\ pc[r] \in {"deleteItem", "writeRemoved"} =>
             b.what \in 1..Len(workOrder[b.number].contents.items)

RepairInv ==
    /\ DOMAIN workOrder = WorkNumber /\ DOMAIN repairing = Request
    /\ \A n \in WorkNumber : RepairOK(workOrder[n])
    /\ \A r \in Request : RepairerAt(r)
    /\ \A q, r \in Request : q # r => InsertApart(q, r)

-----------------------------------------------------------------------------
(* What the documents say, one document at a time *)

\* One sale is registered or cancelled.
LEMMA BackMoves ==
    ASSUME TypeInv, NEW p \in Product, NEW n, NEW v \in Int,
           Registered' = Registered \cup {n},
           \A m \in Registered \ {n} : sale'[m] = sale[m],
           n \in Registered => Returned(n, p)' = Returned(n, p) + v,
           n \notin Registered => Returned(n, p)' = v
    PROVE  Back(p)' = Back(p) + v
<1>1. PICK S, f, g : /\ S = Registered
                     /\ f = [m \in Registered |-> Returned(m, p)]
                     /\ g = [m \in Registered' |-> Returned(m, p)']
  OBVIOUS
<1>2. IsFiniteSet(S)
  BY <1>1, RegisteredFinite
<1>3. \A m \in S : f[m] \in Int
  <2>1. ASSUME NEW m \in S PROVE Returned(m, p) \in Int
    <3>1. sale[m] \in SaleRow
      BY <1>1 DEF TypeInv, TypeOK, Registered, NoSale
    <3>2. sale[m].order \in Order /\ sale[m].cancellations \in Nat
      BY <3>1 DEF SaleRow
    <3>3. UnitsOf(sale[m].order.items, p) \in Nat
      BY <3>2, TakenIsUnits
    <3>4. PICK u : u = UnitsOf(sale[m].order.items, p)
      OBVIOUS
    <3>5. QED
      BY <3>2, <3>3, <3>4 DEF Returned
  <2>2. QED
    BY <1>1, <2>1
<1>4. \A m \in S \ {n} : g[m] = f[m]
  <2>1. \A m \in S \ {n} : Returned(m, p)' = Returned(m, p)
    BY <1>1 DEF Returned
  <2>2. QED
    BY <1>1, <2>1
<1>5. n \in S => g[n] = f[n] + v
  BY <1>1
<1>6. n \notin S => g[n] = v
  BY <1>1
<1>7. SumFunctionOnSet(g, S \cup {n}) = SumFunctionOnSet(f, S) + v
  BY <1>2, <1>3, <1>4, <1>5, <1>6, SumMoves
<1>8. Back(p) = SumFunctionOnSet(f, S) /\ Back(p)' = SumFunctionOnSet(g, S \cup {n})
  BY <1>1 DEF Back
<1>9. QED
  BY <1>7, <1>8

\* The orders can be counted, and each has items that can.
LEMMA OrderedFinite == IsFiniteSet(Ordered) /\ Cardinality(Ordered) \in Nat
<1>1. MaxPurchases \in Nat
  BY SupplyAssumption
<1>2. IsFiniteSet(PurchaseNumber) /\ Ordered \subseteq PurchaseNumber
  BY <1>1, FS_Interval DEF PurchaseNumber, Ordered
<1>3. QED
  BY <1>2, FS_Subset, FS_CardinalityType

LEMMA SupplyFacts ==
    ASSUME NEW s \in Supply
    PROVE  /\ Len(s.items) \in Nat /\ DOMAIN s.items = 1..Len(s.items)
           /\ IsFiniteSet(DOMAIN s.items)
           /\ \A i \in DOMAIN s.items : s.items[i].product \in Product
                                         /\ s.items[i].quantity \in Nat \ {0}
           /\ \A i, j \in DOMAIN s.items :
                s.items[i].product = s.items[j].product => i = j
           /\ s.total \in Nat /\ s.method \in Method
           /\ s.payment \in {"PENDING", "PAID"}
<1>1. s \in SupplyType /\ \A i, j \in DOMAIN s.items :
                            s.items[i].product = s.items[j].product => i = j
  BY SupplyAssumption
<1>2. s.items \in Seq([product: Product, quantity: Nat \ {0}])
  BY <1>1 DEF SupplyType
<1>3. /\ Len(s.items) \in Nat /\ DOMAIN s.items = 1..Len(s.items)
      /\ \A i \in 1..Len(s.items) : s.items[i].product \in Product
                                    /\ s.items[i].quantity \in Nat \ {0}
  <2>1. PICK T : T = [product: Product, quantity: Nat \ {0}]
    OBVIOUS
  <2>2. PICK L, q : L = Len(s.items) /\ q = s.items
    OBVIOUS
  <2>3. q \in Seq(T)
    BY <1>2, <2>1, <2>2
  <2>4. /\ L \in Nat /\ DOMAIN q = 1..L
        /\ \A i \in 1..L : q[i] \in T
    BY <2>2, <2>3, ElementOfSeq
  <2>5. \A i \in 1..L : q[i].product \in Product /\ q[i].quantity \in Nat \ {0}
    BY <2>1, <2>4
  <2>6. QED
    BY <2>2, <2>4, <2>5
<1>4. IsFiniteSet(1..Len(s.items))
  <2>1. PICK L : L = Len(s.items)
    OBVIOUS
  <2>2. IsFiniteSet(1..L)
    BY <1>3, <2>1, FS_Interval
  <2>3. QED
    BY <2>1, <2>2
<1>5. s.total \in Nat /\ s.method \in Method /\ s.payment \in {"PENDING", "PAID"}
  BY <1>1 DEF SupplyType
<1>6. QED
  BY <1>1, <1>3, <1>4, <1>5

LEMMA ArrivedIsInt ==
    ASSUME BuyInv, NEW n \in Ordered, NEW p
    PROVE  /\ ArrivedWith(n, p) \in Int
           /\ IsFiniteSet({i \in DOMAIN purchase[n].arrived :
                             purchase[n].supply.items[i].product = p})
<1>1. PurchaseOK(purchase[n])
  BY DEF BuyInv, Ordered, NoPurchase
<1>2. PICK f, S : /\ f = purchase[n].arrived
                  /\ S = {i \in DOMAIN purchase[n].arrived :
                            purchase[n].supply.items[i].product = p}
  OBVIOUS
<1>3. /\ purchase[n].supply \in Supply
      /\ DOMAIN f = DOMAIN purchase[n].supply.items
      /\ \A i \in DOMAIN f : f[i] \in Int
  BY <1>1, <1>2 DEF PurchaseOK
<1>4. IsFiniteSet(DOMAIN f) /\ S \subseteq DOMAIN f
  BY <1>2, <1>3, SupplyFacts
<1>5. IsFiniteSet(S)
  BY <1>4, FS_Subset
<1>6. \A i \in S : f[i] \in Int
  BY <1>3, <1>4
<1>7. SumFunctionOnSet(f, S) \in Int
  BY <1>5, <1>6, SumInt
<1>8. QED
  BY <1>2, <1>5, <1>7 DEF ArrivedWith

\* One purchase is made or received.
LEMMA ArrivedMoves ==
    ASSUME BuyInv, NEW p \in Product, NEW n, NEW v \in Int,
           Ordered' = Ordered \cup {n},
           \A m \in Ordered \ {n} : purchase'[m] = purchase[m],
           n \in Ordered => ArrivedWith(n, p)' = ArrivedWith(n, p) + v,
           n \notin Ordered => ArrivedWith(n, p)' = v
    PROVE  Arrived(p)' = Arrived(p) + v
<1>1. PICK S, f, g : /\ S = Ordered
                     /\ f = [m \in Ordered |-> ArrivedWith(m, p)]
                     /\ g = [m \in Ordered' |-> ArrivedWith(m, p)']
  OBVIOUS
<1>2. IsFiniteSet(S)
  BY <1>1, OrderedFinite
<1>3. \A m \in S : f[m] \in Int
  BY <1>1, ArrivedIsInt
<1>4. \A m \in S \ {n} : g[m] = f[m]
  <2>1. \A m \in S \ {n} : ArrivedWith(m, p)' = ArrivedWith(m, p)
    BY <1>1 DEF ArrivedWith
  <2>2. QED
    BY <1>1, <2>1
<1>5. n \in S => g[n] = f[n] + v
  BY <1>1
<1>6. n \notin S => g[n] = v
  BY <1>1
<1>7. SumFunctionOnSet(g, S \cup {n}) = SumFunctionOnSet(f, S) + v
  BY SumMoves, <1>2, <1>3, <1>4, <1>5, <1>6, SMTT(30)
<1>8. Arrived(p) = SumFunctionOnSet(f, S) /\ Arrived(p)' = SumFunctionOnSet(g, S \cup {n})
  BY <1>1 DEF Arrived
<1>9. QED
  BY <1>7, <1>8

LEMMA FittedIsInt ==
    ASSUME RepairInv
    PROVE  \A p \in Product : Fitted(p) \in Int
<1>1. IsFiniteSet(WorkReceived)
  <2>1. MaxOrders \in Nat
    BY ServiceOrderAssumption
  <2>2. IsFiniteSet(WorkNumber) /\ WorkReceived \subseteq WorkNumber
    BY <2>1, FS_Interval DEF WorkNumber, WorkReceived
  <2>3. QED
    BY <2>2, FS_Subset
<1> SUFFICES ASSUME NEW p \in Product PROVE Fitted(p) \in Int
  OBVIOUS
<1>2. PICK f : f = [m \in WorkReceived |-> FittedOn(m, p)]
  OBVIOUS
<1>3. \A m \in WorkReceived : f[m] \in Int
  <2>1. ASSUME NEW m \in WorkReceived PROVE FittedOn(m, p) \in Int
    <3>1. workOrder[m].contents.items \in Seq(ItemRow)
      BY DEF RepairInv, RepairOK, WorkReceived
    <3>2. QED
      BY <3>1, FittedFacts DEF FittedOn
  <2>2. QED
    BY <1>2, <2>1
<1>4. SumFunctionOnSet(f, WorkReceived) \in Int
  BY <1>1, <1>3, SumInt
<1>5. QED
  BY <1>2, <1>4 DEF Fitted

\* One service order is received, or a part is fitted on it.
LEMMA FittedMoves ==
    ASSUME RepairInv, NEW p \in Product, NEW n, NEW v \in Int,
           WorkReceived' = WorkReceived \cup {n},
           \A m \in WorkReceived \ {n} : FittedOn(m, p)' = FittedOn(m, p),
           n \in WorkReceived => FittedOn(n, p)' = FittedOn(n, p) + v,
           n \notin WorkReceived => FittedOn(n, p)' = v
    PROVE  Fitted(p)' = Fitted(p) + v
<1>1. PICK S, f, g : /\ S = WorkReceived
                     /\ f = [m \in WorkReceived |-> FittedOn(m, p)]
                     /\ g = [m \in WorkReceived' |-> FittedOn(m, p)']
  OBVIOUS
<1>2. IsFiniteSet(S)
  <2>1. MaxOrders \in Nat
    BY ServiceOrderAssumption
  <2>2. IsFiniteSet(WorkNumber) /\ S \subseteq WorkNumber
    BY <1>1, <2>1, FS_Interval DEF WorkNumber, WorkReceived
  <2>3. QED
    BY <2>2, FS_Subset
<1>3. \A m \in S : f[m] \in Int
  <2>1. ASSUME NEW m \in S PROVE FittedOn(m, p) \in Int
    <3>1. workOrder[m].contents.items \in Seq(ItemRow)
      BY <1>1 DEF RepairInv, RepairOK, WorkReceived
    <3>2. QED
      BY <3>1, FittedFacts DEF FittedOn
  <2>2. QED
    BY <1>1, <2>1
<1>4. \A m \in S \ {n} : g[m] = f[m]
  BY <1>1
<1>5. n \in S => g[n] = f[n] + v
  BY <1>1
<1>6. n \notin S => g[n] = v
  BY <1>1
<1>7. SumFunctionOnSet(g, S \cup {n}) = SumFunctionOnSet(f, S) + v
  BY <1>2, <1>3, <1>4, <1>5, <1>6, SumMoves
<1>8. Fitted(p) = SumFunctionOnSet(f, S) /\ Fitted(p)' = SumFunctionOnSet(g, S \cup {n})
  BY <1>1 DEF Fitted
<1>9. QED
  BY <1>7, <1>8

-----------------------------------------------------------------------------
(* One step of one handler, as the other components see it *)

\* The handler of r is one of those whose labels are L, before and after.
OneSlot(r, L) ==
    /\ DOMAIN pc' = Request
    /\ pc[r] \in L \cup {"idle"} /\ pc'[r] \in L \cup {"idle"}
    /\ \A q \in Request \ {r} : pc'[q] = pc[q]

OtherLabel == PurchaseLabel \cup WorkLabel \cup QuickLabel

LEMMA LabelsApart ==
    /\ SaleLabel \cap OtherLabel = {} /\ "idle" \notin SaleLabel \cup OtherLabel
    /\ PurchaseLabel \cap WorkLabel = {} /\ PurchaseLabel \cap QuickLabel = {}
    /\ WorkLabel \cap QuickLabel = {}
    /\ "insert" \in SaleLabel /\ "decrement" \in SaleLabel /\ "collect" \in SaleLabel
    /\ "commitSale" \in SaleLabel
  BY DEF SaleLabel, CreateLabel, CancelLabel, OtherLabel, PurchaseLabel, WorkLabel, QuickLabel

\* What is not the work of a sale leaves the invariants of the sales, provided
\* it leaves the stock and the cash tables well typed and not negative.
LEMMA SalesStay ==
    ASSUME TypeInv, CodesInv, StockInv, NEW r \in Request, OneSlot(r, OtherLabel),
           UNCHANGED saleVars, \A q \in Request \ {r} : till'[q] = till[q],
           RowsTypeOK', CashBookTypeOK', StockNeverNegative'
    PROVE  TypeInv' /\ CodesInv' /\ StockInv'
<1>0. TypeOK /\ LocalOK
  BY DEF TypeInv
<1>1. TypeOK'
  BY <1>0 DEF TypeOK, saleVars, OneSlot
<1>2. pc'[r] \notin SaleLabel
  BY LabelsApart DEF OneSlot
<1>3. LocalAt(r)'
  BY <1>2 DEF LocalAt, SaleLabel, CreateLabel, CancelLabel
<1>4. Registered' = Registered /\ order' = order /\ at' = at /\ number' = number
  BY DEF saleVars, Registered
<1>5. LocalOK'
  BY <1>0, <1>3, <1>4, LocalFrame DEF OneSlot
<1>6. CodesInv'
  <2>1. pc'[r] # "insert" /\ ~HasInserted(r)'
    BY <1>2, LabelsApart DEF HasInserted
  <2>2. \A q \in Request \ {r} : pc'[q] = pc[q] /\ number'[q] = number[q]
    BY <1>4 DEF OneSlot
  <2>3. QED
    BY <1>4, <2>1, <2>2, CodesFrame
<1>7. QED
  BY <1>1, <1>5, <1>6 DEF TypeInv, StockInv, SeenNotNegative, saleVars

LEMMA QuickStays ==
    ASSUME QuickInv, NEW r \in Request, pc'[r] \notin QuickLabel,
           \A q \in Request \ {r} : pc'[q] = pc[q], UNCHANGED quickVars
    PROVE  QuickInv'
<1>1. quick' = quick /\ serving' = serving
  BY DEF quickVars
<1>2. \A q \in Request : ServingAt(q)'
  BY <1>1 DEF QuickInv, ServingAt, Served, QuickLabel
<1>3. QED
  BY <1>1, <1>2 DEF QuickInv

LEMMA BuyStays ==
    ASSUME BuyInv, NEW r \in Request, pc'[r] \notin PurchaseLabel,
           \A q \in Request \ {r} : pc'[q] = pc[q], UNCHANGED purchaseVars
    PROVE  BuyInv'
<1>1. purchase' = purchase /\ purchasing' = purchasing /\ Ordered' = Ordered
  BY DEF purchaseVars, Ordered
<1>2. ASSUME NEW q \in Request PROVE BuyerAt(q)'
  <2>1. CASE q = r
    BY <2>1 DEF BuyerAt, HasInsertedPurchase, ReceiveLabel, PurchaseLabel
  <2>2. CASE q # r
    <3>1. pc'[q] = pc[q]
      BY <2>2
    <3>2. (pc[q] \in ReceiveLabel => Receives(q)) => (pc[q] \in ReceiveLabel => Receives(q))'
      BY <1>1, <3>1 DEF Receives
    <3>3. QED
      BY <1>1, <3>1, <3>2 DEF BuyInv, BuyerAt, HasInsertedPurchase
  <2>3. QED
    BY <2>1, <2>2
<1>3. BuyersApart'
  BY <1>1 DEF BuyInv, BuyersApart, HasInsertedPurchase, PurchaseLabel
<1>4. QED
  BY <1>1, <1>2, <1>3 DEF BuyInv

LEMMA RepairStays ==
    ASSUME RepairInv, NEW r \in Request, pc'[r] \notin WorkLabel,
           \A q \in Request \ {r} : pc'[q] = pc[q], UNCHANGED workVars
    PROVE  RepairInv'
<1>1. workOrder' = workOrder /\ repairing' = repairing /\ WorkReceived' = WorkReceived
  BY DEF workVars, WorkReceived
<1>2. ASSUME NEW q \in Request PROVE RepairerAt(q)'
  <2>1. CASE q = r
    BY <2>1 DEF RepairerAt, TakenLabel, EditLabel, WorkLabel
  <2>2. CASE q # r
    BY <1>1, <2>2 DEF RepairInv, RepairerAt
  <2>3. QED
    BY <2>1, <2>2
<1>3. \A q, x \in Request : q # x => InsertApart(q, x)'
  BY <1>1 DEF RepairInv, InsertApart, WorkLabel
<1>4. QED
  BY <1>1, <1>2, <1>3 DEF RepairInv

-----------------------------------------------------------------------------
(* Quick services *)

LEMMA ServedCount == Cardinality(Served) \in Nat
<1>1. MaxQuick \in Nat
  BY QuickAssumption
<1>2. IsFiniteSet(QuickNumber) /\ Served \subseteq QuickNumber
  BY <1>1, FS_Interval DEF QuickNumber, Served
<1>3. QED
  BY <1>2, FS_Subset, FS_CardinalityType

\* The handler of r moves on, and the rows it writes are rows.
LEMMA ServingMoves ==
    ASSUME QuickInv, NEW r \in Request, OneSlot(r, QuickLabel),
           DOMAIN serving' = Request, \A q \in Request \ {r} : serving'[q] = serving[q],
           DOMAIN quick' = QuickNumber,
           \A n \in QuickNumber : quick'[n] = quick[n] \/ ServedOK(quick'[n]),
           ServingAt(r)'
    PROVE  QuickInv'
<1>1. \A n \in QuickNumber : quick'[n] = NoQuick \/ ServedOK(quick'[n])
  BY DEF QuickInv
<1>2. Served \subseteq Served'
  BY DEF Served, ServedOK, NoQuick, QuickInv
<1>3. \A q \in Request : ServingAt(q)'
  BY <1>2 DEF QuickInv, ServingAt, OneSlot
<1>4. QED
  BY <1>1, <1>3 DEF QuickInv

\* What a step of a quick service leaves to the others.
QuickKept(r) ==
    /\ QuickInv' /\ CashBookTypeOK' /\ OneSlot(r, QuickLabel)
    /\ \A q \in Request \ {r} : till'[q] = till[q]

LEMMA QuickKeeps ==
    ASSUME TypeInv, QuickInv, QuickNext
    PROVE  \E r \in Request : QuickKept(r)
<1> USE DEF Step
<1>0. /\ CashBookTypeOK /\ DOMAIN pc = Request /\ till \in [Request -> SessionOrNone]
      /\ session' = session => session' \in [Session -> SessionRow]
      /\ DOMAIN serving = Request /\ DOMAIN quick = QuickNumber
      /\ "idle" \notin QuickLabel
  BY DEF TypeInv, TypeOK, CashBookTypeOK, SessionOrNone, QuickInv, QuickLabel
<1>1. ASSUME NEW r \in Request, NEW q \in QuickSale, StartQuick(r, q)
      PROVE  QuickKept(r)
  <2>1. OneSlot(r, QuickLabel) /\ pc'[r] = "readServices"
    BY <1>0, <1>1 DEF StartQuick, OneSlot, QuickLabel
  <2>2. PICK s \in Session : till' = [till EXCEPT ![r] = s]
    BY <1>1 DEF StartQuick, OpenSessionsOf
  <2>3. CashBookTypeOK'
    BY <1>0, <1>1, <2>2 DEF StartQuick, CashBookTypeOK
  <2>4. PICK b : b = [number |-> 0, sale |-> q]
    OBVIOUS
  <2>5. serving' = [serving EXCEPT ![r] = b] /\ quick' = quick
    BY <1>1, <2>4 DEF StartQuick
  <2>6. DOMAIN b = {"number", "sale"} /\ b.sale \in QuickSale
    BY <2>4
  <2>7. ServingAt(r)'
    BY <1>0, <2>1, <2>5, <2>6 DEF ServingAt, QuickLabel
  <2>8. QuickInv'
    BY <1>0, <2>1, <2>5, <2>7, ServingMoves
  <2>9. QED
    BY <1>0, <2>1, <2>2, <2>3, <2>8 DEF QuickKept
<1>2. ASSUME NEW r \in Request, NEW n \in Served, StartCancelQuick(r, n)
      PROVE  QuickKept(r)
  <2>1. OneSlot(r, QuickLabel) /\ pc'[r] = "writeQuick"
    BY <1>0, <1>2 DEF StartCancelQuick, OneSlot, QuickLabel
  <2>2. ServedOK(quick[n])
    BY DEF QuickInv, Served, NoQuick
  <2>3. CashBookTypeOK'
    BY <1>0, <1>2, <2>2 DEF StartCancelQuick, CashBookTypeOK, ServedOK, SessionOrNone
  <2>4. PICK b : b = [number |-> n, sale |-> quick[n].sale]
    OBVIOUS
  <2>5. serving' = [serving EXCEPT ![r] = b] /\ quick' = quick
    BY <1>2, <2>4 DEF StartCancelQuick
  <2>6. DOMAIN b = {"number", "sale"} /\ b.sale \in QuickSale /\ b.number = n
    BY <2>2, <2>4 DEF ServedOK
  <2>7. ServingAt(r)'
    BY <1>0, <2>1, <2>5, <2>6 DEF ServingAt, QuickLabel, Served
  <2>8. QuickInv'
    BY <1>0, <2>1, <2>5, <2>7, ServingMoves
  <2>9. QED
    BY <1>0, <1>2, <2>1, <2>3, <2>8 DEF QuickKept, StartCancelQuick
<1>3. ASSUME NEW r \in Request, NEW s \in Service, DeactivateService(r, s)
      PROVE  QuickKept(r)
  <2>1. OneSlot(r, QuickLabel) /\ pc' = pc
    BY <1>0, <1>3 DEF DeactivateService, OneSlot, Idle
  <2>2. CashBookTypeOK'
    BY <1>0, <1>3, SameCashType DEF DeactivateService
  <2>3. serving' = serving /\ quick' = quick
    BY <1>3 DEF DeactivateService
  <2>4. ServingAt(r)'
    BY <2>1, <2>3 DEF ServingAt, QuickInv, Served
  <2>5. QuickInv'
    BY <1>0, <2>1, <2>3, <2>4, ServingMoves
  <2>6. QED
    BY <1>3, <2>1, <2>2, <2>5 DEF QuickKept, DeactivateService, cashVars
<1>4. ASSUME NEW r \in Request, ReadServices(r)
      PROVE  QuickKept(r)
  <2>1. OneSlot(r, QuickLabel) /\ pc'[r] = "insertQuick" /\ pc[r] \in QuickLabel
    BY <1>0, <1>4 DEF ReadServices, OneSlot, QuickLabel
  <2>2. CashBookTypeOK'
    BY <1>0, <1>4, SameCashType DEF ReadServices
  <2>3. DOMAIN serving[r] = {"number", "sale"} /\ serving[r].sale \in QuickSale
    BY <2>1 DEF QuickInv, ServingAt
  <2>4. PICK k : k = Cardinality(Served) + 1
    OBVIOUS
  <2>5. k \in QuickNumber
    <3>1. PICK c : c = Cardinality(Served)
      OBVIOUS
    <3>2. c \in Nat /\ c < MaxQuick /\ MaxQuick \in Nat /\ k = c + 1
      BY <1>4, <2>4, <3>1, ServedCount, QuickAssumption DEF ReadServices
    <3>3. QED
      BY <3>2 DEF QuickNumber
  <2>6. PICK b : b = [serving[r] EXCEPT !.number = k]
    OBVIOUS
  <2>7. serving' = [serving EXCEPT ![r] = b] /\ quick' = quick
    <3>1. serving' = [serving EXCEPT ![r].number = k] /\ quick' = quick
      BY <1>4, <2>4 DEF ReadServices
    <3>2. QED
      BY <2>6, <3>1
  <2>8. DOMAIN b = {"number", "sale"} /\ b.sale \in QuickSale /\ b.number = k
    BY <2>3, <2>6
  <2>9. ServingAt(r)'
    BY <1>0, <2>1, <2>5, <2>7, <2>8 DEF ServingAt, QuickLabel
  <2>10. QuickInv'
    BY <1>0, <2>1, <2>7, <2>9, ServingMoves
  <2>11. QED
    BY <1>4, <2>1, <2>2, <2>10 DEF QuickKept, ReadServices, cashVars
<1>5. ASSUME NEW r \in Request, NEW from, NEW to, NEW amount,
             \/ from = "insertQuick" /\ to = "commitQuick"
             \/ from = "writeQuick" /\ to = "commitRefund",
             Step(r, from, to), amount \in {serving[r].sale.total, -serving[r].sale.total},
             posting' = [posting EXCEPT ![r] = PostOne("INCOME", serving[r].sale.method, amount)],
             UNCHANGED <<session, takings, till, quickVars>>
      PROVE  QuickKept(r)
  <2>1. OneSlot(r, QuickLabel) /\ pc[r] = from /\ pc'[r] = to /\ from \in QuickLabel
    BY <1>0, <1>5 DEF OneSlot, QuickLabel
  <2>2. ServingAt(r) /\ serving[r].sale \in QuickSale
    BY <2>1 DEF QuickInv, ServingAt
  <2>3. serving[r].sale.method \in Method /\ amount \in Int
    BY <1>5, <2>2, QuickAssumption
  <2>4. PostOne("INCOME", serving[r].sale.method, amount) \in Book
    BY <2>3, PostOneType DEF MoveType
  <2>5. CashBookTypeOK'
    BY <1>0, <1>5, <2>4 DEF CashBookTypeOK
  <2>6. serving' = serving /\ quick' = quick
    BY <1>5 DEF quickVars
  <2>7. ServingAt(r)'
    BY <1>5, <2>1, <2>2, <2>6 DEF ServingAt, QuickLabel, Served
  <2>8. QuickInv'
    BY <1>0, <2>1, <2>6, <2>7, ServingMoves
  <2>9. QED
    BY <1>5, <2>1, <2>5, <2>8 DEF QuickKept
<1>6. ASSUME NEW r \in Request, InsertQuick(r) \/ WriteQuick(r)
      PROVE  QuickKept(r)
  <2>1. CASE InsertQuick(r)
    <3>1. /\ Step(r, "insertQuick", "commitQuick")
          /\ posting' = [posting EXCEPT ![r] =
                           PostOne("INCOME", serving[r].sale.method, serving[r].sale.total)]
          /\ UNCHANGED <<session, takings, till, quickVars>>
      BY <2>1 DEF InsertQuick
    <3>2. QED
      BY <1>5, <3>1
  <2>2. CASE WriteQuick(r)
    <3>1. /\ Step(r, "writeQuick", "commitRefund")
          /\ posting' = [posting EXCEPT ![r] =
                           PostOne("INCOME", serving[r].sale.method, -serving[r].sale.total)]
          /\ UNCHANGED <<session, takings, till, quickVars>>
      BY <2>2 DEF WriteQuick
    <3>2. QED
      BY <1>5, <3>1
  <2>3. QED
    BY <1>6, <2>1, <2>2
\* The handler answers: its row is written, or nothing is.
<1>7. ASSUME NEW r \in Request, pc[r] \in QuickLabel, pc' = [pc EXCEPT ![r] = "idle"],
             CommitPostings(r) \/ DropPostings(r), UNCHANGED session,
             serving' = [serving EXCEPT ![r] = None],
             DOMAIN quick' = QuickNumber,
             \A n \in QuickNumber : quick'[n] = quick[n] \/ ServedOK(quick'[n])
      PROVE  QuickKept(r)
  <2>1. OneSlot(r, QuickLabel) /\ pc'[r] = "idle"
    BY <1>0, <1>7 DEF OneSlot
  <2>2. CashBookTypeOK'
    BY <1>0, <1>7, CommitPostingsType, DropPostingsType
  <2>3. ServingAt(r)'
    BY <2>1 DEF ServingAt, QuickLabel
  <2>4. QuickInv'
    BY <1>0, <1>7, <2>1, <2>3, ServingMoves
  <2>5. till' = [till EXCEPT ![r] = None]
    BY <1>7 DEF CommitPostings, DropPostings
  <2>6. QED
    BY <1>0, <2>1, <2>2, <2>4, <2>5 DEF QuickKept
<1>8. ASSUME NEW r \in Request, CommitQuick(r)
      PROVE  QuickKept(r)
  <2>1. ServingAt(r) /\ pc[r] = "commitQuick"
    BY <1>8 DEF QuickInv, CommitQuick
  <2>2. PICK n : n = serving[r].number
    OBVIOUS
  <2>3. n \in QuickNumber /\ serving[r].sale \in QuickSale
    BY <2>1, <2>2 DEF ServingAt, QuickLabel
  <2>4. PICK w : w = [status |-> "COMPLETED", sale |-> serving[r].sale, till |-> till[r], refunds |-> 0]
    OBVIOUS
  <2>5. ServedOK(w)
    BY <1>0, <2>3, <2>4 DEF ServedOK
  <2>6. quick' = [quick EXCEPT ![n] = w]
    BY <1>8, <2>2, <2>4 DEF CommitQuick
  <2>7. DOMAIN quick' = QuickNumber /\ \A k \in QuickNumber : quick'[k] = quick[k] \/ ServedOK(quick'[k])
    BY <1>0, <2>3, <2>5, <2>6
  <2>8. QED
    BY <1>7, <1>8, <2>1, <2>7 DEF CommitQuick, QuickLabel
<1>9. ASSUME NEW r \in Request, CommitRefund(r)
      PROVE  QuickKept(r)
  <2>1. ServingAt(r) /\ pc[r] = "commitRefund"
    BY <1>9 DEF QuickInv, CommitRefund
  <2>2. PICK n : n = serving[r].number
    OBVIOUS
  <2>3. n \in QuickNumber /\ ServedOK(quick[n])
    BY <2>1, <2>2 DEF ServingAt, Served, QuickInv, NoQuick
  <2>4. PICK v : v = quick[n]
    OBVIOUS
  <2>5. PICK w : w = [v EXCEPT !.status = "CANCELLED", !.refunds = v.refunds + 1]
    OBVIOUS
  <2>6. ServedOK(w)
    BY <2>3, <2>4, <2>5 DEF ServedOK
  <2>7. quick' = [quick EXCEPT ![n] = w]
    BY <1>0, <1>9, <2>2, <2>3, <2>4, <2>5 DEF CommitRefund
  <2>8. DOMAIN quick' = QuickNumber /\ \A k \in QuickNumber : quick'[k] = quick[k] \/ ServedOK(quick'[k])
    BY <1>0, <2>3, <2>6, <2>7
  <2>9. QED
    BY <1>7, <1>9, <2>1, <2>8 DEF CommitRefund, QuickLabel
<1>10. ASSUME NEW r \in Request, RollbackQuick(r)
       PROVE  QuickKept(r)
  BY <1>0, <1>7, <1>10 DEF RollbackQuick
<1>11. QED
  BY <1>1, <1>2, <1>3, <1>4, <1>6, <1>8, <1>9, <1>10 DEF QuickNext, QuickStep

-----------------------------------------------------------------------------
(* Statements that leave the stock and the cash tables in order *)

LEMMA RowsKept ==
    ASSUME TypeInv, StockNeverNegative, NEW r \in Request,
           UNCHANGED rowVars \/ CommitRows(r) \/ RollbackRows(r)
    PROVE  RowsTypeOK' /\ StockNeverNegative'
<1>1. RowsTypeOK
  BY DEF TypeInv, TypeOK
<1>2. RowsTypeOK'
  BY <1>1, SameRowsType, CommitRowsType, RollbackRowsType
<1>3. \A p \in Product : Visible(r, p) >= 0
  BY VisibleNotNegative
<1>4. CASE UNCHANGED rowVars
  BY <1>2, <1>4 DEF rowVars, StockNeverNegative
<1>5. CASE CommitRows(r)
  BY <1>2, <1>3, <1>5 DEF CommitRows, StockNeverNegative
<1>6. CASE RollbackRows(r)
  BY <1>2, <1>6 DEF RollbackRows, StockNeverNegative
<1>7. QED
  BY <1>4, <1>5, <1>6

LEMMA RowWritten ==
    ASSUME TypeInv, StockNeverNegative, NEW r \in Request, NEW p \in Product,
           NEW value \in Nat, NEW delta \in Int, WriteStock(r, p, value, delta)
    PROVE  RowsTypeOK' /\ StockNeverNegative'
<1>1. RowsTypeOK /\ value \in Int
  BY DEF TypeInv, TypeOK
<1>2. QED
  BY <1>1, WriteStockType, WriteNotNegative

LEMMA CashKept ==
    ASSUME TypeInv, NEW r \in Request,
           \/ UNCHANGED cashVars
           \/ UNCHANGED session /\ (CommitPostings(r) \/ DropPostings(r))
    PROVE  CashBookTypeOK' /\ \A q \in Request \ {r} : till'[q] = till[q]
<1>1. CashBookTypeOK /\ till \in [Request -> SessionOrNone]
  BY DEF TypeInv, TypeOK, CashBookTypeOK, SessionOrNone
<1>2. CashBookTypeOK'
  BY <1>1, SameCashType, CommitPostingsType, DropPostingsType
<1>3. \A q \in Request \ {r} : till'[q] = till[q]
  BY <1>1 DEF cashVars, CommitPostings, DropPostings
<1>4. QED
  BY <1>2, <1>3

-----------------------------------------------------------------------------
(* Purchases *)

\* The handler of r moves on.  No order loses what has arrived with it, and
\* none that another handler has inserted is taken.
LEMMA BuyerMoves ==
    ASSUME BuyInv, NEW r \in Request, OneSlot(r, PurchaseLabel),
           DOMAIN purchasing' = Request, \A q \in Request \ {r} : purchasing'[q] = purchasing[q],
           DOMAIN purchase' = PurchaseNumber,
           \A n \in PurchaseNumber : purchase'[n] = purchase[n] \/ PurchaseOK(purchase'[n]),
           \A n \in Ordered :
             /\ purchase'[n].supply = purchase[n].supply
             /\ \A i \in DOMAIN purchase[n].arrived : purchase[n].arrived[i] <= purchase'[n].arrived[i],
           \A q \in Request \ {r} : HasInsertedPurchase(q) => purchasing[q].number \notin Ordered',
           BuyerAt(r)',
           HasInsertedPurchase(r)' => \A q \in Request \ {r} :
             HasInsertedPurchase(q) => purchasing'[r].number # purchasing[q].number
    PROVE  BuyInv'
<1>1. \A n \in PurchaseNumber : purchase'[n] = NoPurchase \/ PurchaseOK(purchase'[n])
  BY DEF BuyInv
<1>2. Ordered \subseteq Ordered'
  BY DEF BuyInv, Ordered, PurchaseOK, PurchaseStatus, NoPurchase
<1>3. ASSUME NEW q \in Request \ {r} PROVE BuyerAt(q)'
  <2>1. BuyerAt(q) /\ pc'[q] = pc[q] /\ purchasing'[q] = purchasing[q]
    BY DEF BuyInv, OneSlot
  <2>2. ASSUME pc[q] \in ReceiveLabel
        PROVE  Receives(q)'
    <3>1. PICK b : b = purchasing[q]
      OBVIOUS
    <3>2. Receives(q) /\ b.number \in Ordered /\ purchasing'[q] = b /\ purchasing[q] = b
      BY <2>1, <2>2, <3>1 DEF BuyerAt
    <3>3. PICK w, x : w = purchase[b.number] /\ x = purchase'[b.number]
      OBVIOUS
    <3>4. PurchaseOK(w) /\ x.supply = w.supply /\ PurchaseOK(x)
      BY <1>1, <1>2, <3>2, <3>3 DEF BuyInv, Ordered, NoPurchase
    <3>5. \A i \in DOMAIN w.arrived : w.arrived[i] <= x.arrived[i] /\ w.arrived[i] \in Int
                                       /\ x.arrived[i] \in Int
      BY <3>2, <3>3, <3>4 DEF PurchaseOK
    <3>6. DOMAIN w.arrived = DOMAIN b.supply.items
      BY <3>2, <3>3, <3>4 DEF PurchaseOK, Receives, ReceiverOK
    <3>7. ReceiverOK(b, w)
      BY <3>2, <3>3 DEF Receives
    <3>8. \A i \in DOMAIN b.supply.items : b.base[i] \in Nat /\ b.base[i] <= x.arrived[i]
      BY <3>5, <3>6, <3>7 DEF ReceiverOK
    <3>9. ReceiverOK(b, x)
      BY <3>4, <3>7, <3>8 DEF ReceiverOK
    <3>10. QED
      BY <2>1, <3>2, <3>3, <3>9 DEF Receives
  <2>3. HasInsertedPurchase(q)' = HasInsertedPurchase(q)
    BY <2>1 DEF HasInsertedPurchase
  <2>4. QED
    BY <1>2, <2>1, <2>2, <2>3 DEF BuyerAt
<1>4. BuyersApart'
  <2> SUFFICES ASSUME NEW q \in Request, NEW s \in Request,
                      HasInsertedPurchase(q)', HasInsertedPurchase(s)', q # s
               PROVE  purchasing'[q].number # purchasing'[s].number
    BY DEF BuyersApart
  <2>1. \A x \in Request \ {r} : HasInsertedPurchase(x)' => HasInsertedPurchase(x)
    BY DEF OneSlot, HasInsertedPurchase
  <2>2. QED
    BY <2>1 DEF BuyInv, BuyersApart
<1>5. QED
  BY <1>1, <1>3, <1>4 DEF BuyInv

\* What a step of a purchase leaves to the others.
BuyKept(r) ==
    /\ BuyInv' /\ RowsTypeOK' /\ CashBookTypeOK' /\ StockNeverNegative'
    /\ OneSlot(r, PurchaseLabel)
    /\ \A q \in Request \ {r} : till'[q] = till[q]

BuyBefore == TypeInv /\ StockNeverNegative /\ BuyInv

LEMMA BuyFacts ==
    ASSUME BuyBefore
    PROVE  /\ DOMAIN pc = Request /\ DOMAIN purchasing = Request /\ DOMAIN purchase = PurchaseNumber
           /\ \A n \in Ordered : PurchaseOK(purchase[n]) /\ n \in PurchaseNumber
           /\ \A r \in Request : BuyerAt(r)
           /\ "idle" \notin PurchaseLabel
  BY DEF BuyBefore, BuyInv, TypeInv, TypeOK, Ordered, NoPurchase, PurchaseLabel

\* A handler that goes on: of the tables only its own local variables change,
\* and what PayPurchase and StoreItem write besides.
LEMMA BuyerGoesOn ==
    ASSUME BuyBefore, NEW r \in Request, NEW from \in PurchaseLabel \cup {"idle"},
           NEW to \in PurchaseLabel \cup {"idle"}, Step(r, from, to), UNCHANGED purchase,
           DOMAIN purchasing' = Request, \A q \in Request \ {r} : purchasing'[q] = purchasing[q],
           \/ to \notin {"payPurchase", "commitPurchase"}
           \/ from = "payPurchase" /\ purchasing'[r] = purchasing[r],
           BuyerAt(r)'
    PROVE  BuyInv' /\ OneSlot(r, PurchaseLabel)
<1>0. /\ DOMAIN pc = Request /\ DOMAIN purchasing = Request /\ DOMAIN purchase = PurchaseNumber
      /\ BuyInv /\ BuyersApart /\ \A q \in Request : BuyerAt(q)
  BY BuyFacts DEF BuyBefore, BuyInv
<1>1. OneSlot(r, PurchaseLabel) /\ pc[r] = from /\ pc'[r] = to
  BY <1>0 DEF Step, OneSlot
<1>2. Ordered' = Ordered
  BY DEF Ordered
<1>3. \A n \in Ordered : \A i \in DOMAIN purchase[n].arrived :
        purchase[n].arrived[i] <= purchase[n].arrived[i]
  BY BuyFacts DEF PurchaseOK
<1>4. HasInsertedPurchase(r)' => \A q \in Request \ {r} :
        HasInsertedPurchase(q) => purchasing'[r].number # purchasing[q].number
  BY <1>0, <1>1 DEF HasInsertedPurchase, BuyersApart
<1>5. \A q \in Request : HasInsertedPurchase(q) => purchasing[q].number \notin Ordered
  BY <1>0 DEF BuyerAt
<1>6. BuyInv'
  BY <1>0, <1>1, <1>2, <1>3, <1>4, <1>5, BuyerMoves
<1>7. QED
  BY <1>1, <1>6

\* Local variables as a handler finds them when it begins.
LEMMA LocalsFacts ==
    ASSUME NEW n, NEW s \in Supply, NEW base, NEW due, NEW payment,
           NEW b, b = Locals(n, s, base, due, payment)
    PROVE  /\ DOMAIN b = LocalFields /\ b.supply = s /\ b.number = n /\ b.status = "PENDING"
           /\ b.base = base /\ b.due = due /\ b.at = 1 /\ b.seen = 0
           /\ b.status \in PurchaseStatus
  BY DEF Locals, LocalFields, PurchaseStatus

LEMMA StartKeeps ==
    ASSUME BuyBefore, NEW r \in Request, NEW n, NEW s \in Supply, NEW payment,
           NEW to \in {"countPurchases", "writeCancelled", "writePayment"},
           Step(r, "idle", to), UNCHANGED <<rowVars, cashVars, purchase>>,
           purchasing' = [purchasing EXCEPT ![r] = Locals(n, s, <<>>, <<>>, payment)],
           to # "countPurchases" => n \in Ordered
    PROVE  BuyKept(r)
<1>0. DOMAIN pc = Request /\ DOMAIN purchasing = Request
  BY BuyFacts
<1>1. PICK b : b = Locals(n, s, <<>>, <<>>, payment)
  OBVIOUS
<1>2. /\ DOMAIN b = LocalFields /\ b.supply = s /\ b.number = n
      /\ b.status \in PurchaseStatus
  BY <1>1, LocalsFacts
<1>3. purchasing' = [purchasing EXCEPT ![r] = b] /\ purchase' = purchase
  BY <1>1
<1>4. /\ purchasing'[r] = b /\ pc'[r] = to /\ DOMAIN purchasing' = Request
      /\ \A q \in Request \ {r} : purchasing'[q] = purchasing[q]
  BY <1>0, <1>3 DEF Step
<1>5. BuyerAt(r)'
  <2>1. Ordered' = Ordered
    BY DEF Ordered
  <2>2. to \notin ReceiveLabel \cup {"insertPurchase", "payPurchase", "commitPurchase"}
    BY DEF ReceiveLabel
  <2>3. QED
    BY <1>2, <1>4, <2>1, <2>2 DEF BuyerAt, HasInsertedPurchase
<1>6. BuyInv' /\ OneSlot(r, PurchaseLabel)
  <2>1. to \in PurchaseLabel \cup {"idle"} /\ to \notin {"payPurchase", "commitPurchase"}
    BY DEF PurchaseLabel
  <2>2. Step(r, "idle", to)
    OBVIOUS
  <2>3. QED
    BY <1>3, <1>4, <1>5, <2>1, <2>2, BuyerGoesOn
<1>7. RowsTypeOK' /\ StockNeverNegative'
  BY RowsKept DEF BuyBefore
<1>8. CashBookTypeOK' /\ \A q \in Request \ {r} : till'[q] = till[q]
  BY CashKept DEF BuyBefore
<1>9. QED
  BY <1>6, <1>7, <1>8 DEF BuyKept

LEMMA StartsKeep ==
    ASSUME BuyBefore, NEW r \in Request,
           \/ \E s \in Supply : StartPurchase(r, s)
           \/ \E n \in Ordered : \/ StartCancelPurchase(r, n)
                                 \/ \E p \in {"PENDING", "PAID"} : StartUpdatePurchase(r, n, p)
    PROVE  BuyKept(r)
<1>1. ASSUME NEW s \in Supply, StartPurchase(r, s)
      PROVE  BuyKept(r)
  <2>1. /\ Step(r, "idle", "countPurchases") /\ UNCHANGED <<rowVars, cashVars, purchase>>
        /\ purchasing' = [purchasing EXCEPT ![r] = Locals(0, s, <<>>, <<>>, s.payment)]
    BY <1>1 DEF StartPurchase
  <2>2. QED
    BY <2>1, StartKeeps
<1>2. ASSUME NEW n \in Ordered
      PROVE  purchase[n].supply \in Supply
  BY BuyFacts DEF PurchaseOK
<1>3. ASSUME NEW n \in Ordered, StartCancelPurchase(r, n)
      PROVE  BuyKept(r)
  <2>1. /\ Step(r, "idle", "writeCancelled") /\ UNCHANGED <<rowVars, cashVars, purchase>>
        /\ purchasing' = [purchasing EXCEPT ![r] =
             Locals(n, purchase[n].supply, <<>>, <<>>, purchase[n].payment)]
    BY <1>3 DEF StartCancelPurchase
  <2>2. QED
    BY <1>2, <2>1, StartKeeps
<1>4. ASSUME NEW n \in Ordered, NEW p, StartUpdatePurchase(r, n, p)
      PROVE  BuyKept(r)
  <2>1. /\ Step(r, "idle", "writePayment") /\ UNCHANGED <<rowVars, cashVars, purchase>>
        /\ purchasing' = [purchasing EXCEPT ![r] = Locals(n, purchase[n].supply, <<>>, <<>>, p)]
    BY <1>4 DEF StartUpdatePurchase
  <2>2. QED
    BY <1>2, <2>1, StartKeeps
<1>5. QED
  BY <1>1, <1>3, <1>4

\* create, up to its commit
LEMMA CreateKeeps ==
    ASSUME BuyBefore, NEW r \in Request, CountPurchases(r) \/ InsertPurchase(r) \/ PayPurchase(r)
    PROVE  BuyKept(r)
<1>0. /\ DOMAIN pc = Request /\ DOMAIN purchasing = Request /\ BuyerAt(r)
      /\ Ordered' = Ordered /\ purchase' = purchase
  BY BuyFacts DEF Ordered, CountPurchases, InsertPurchase, PayPurchase, purchaseVars
<1>1. CASE CountPurchases(r)
  <2>1. /\ Step(r, "countPurchases", "insertPurchase") /\ UNCHANGED <<rowVars, cashVars>>
    BY <1>1 DEF CountPurchases
  <2>2. PICK k : k = Cardinality(Ordered) + 1
    OBVIOUS
  <2>3. k \in PurchaseNumber
    <3>1. PICK c : c = Cardinality(Ordered)
      OBVIOUS
    <3>2. c \in Nat /\ c < MaxPurchases /\ MaxPurchases \in Nat /\ k = c + 1
      BY <1>1, <2>2, <3>1, OrderedFinite, SupplyAssumption DEF CountPurchases
    <3>3. QED
      BY <3>2 DEF PurchaseNumber
  <2>4. PICK b : b = [purchasing[r] EXCEPT !.number = k]
    OBVIOUS
  <2>5. purchasing' = [purchasing EXCEPT ![r] = b]
    <3>1. purchasing' = [purchasing EXCEPT ![r].number = k]
      BY <1>1, <2>2 DEF CountPurchases
    <3>2. QED
      BY <2>4, <3>1
  <2>6. /\ DOMAIN purchasing[r] = LocalFields /\ purchasing[r].supply \in Supply
        /\ purchasing[r].status \in PurchaseStatus
    BY <1>0, <2>1 DEF BuyerAt, PurchaseLabel, Step
  <2>7. DOMAIN b = LocalFields /\ b.supply \in Supply /\ b.status \in PurchaseStatus /\ b.number = k
    BY <2>4, <2>6 DEF LocalFields
  <2>8. /\ purchasing'[r] = b /\ pc'[r] = "insertPurchase" /\ DOMAIN purchasing' = Request
        /\ \A q \in Request \ {r} : purchasing'[q] = purchasing[q]
    BY <1>0, <2>1, <2>5 DEF Step
  <2>9. BuyerAt(r)'
    BY <2>3, <2>7, <2>8 DEF BuyerAt, ReceiveLabel, HasInsertedPurchase
  <2>10. BuyInv' /\ OneSlot(r, PurchaseLabel)
    <3>1. "countPurchases" \in PurchaseLabel /\ "insertPurchase" \in PurchaseLabel
      BY DEF PurchaseLabel
    <3>2. QED
      BY <1>0, <2>1, <2>8, <2>9, <3>1, BuyerGoesOn
  <2>11. QED
    BY <2>1, <2>10, RowsKept, CashKept DEF BuyKept, BuyBefore
<1>2. CASE InsertPurchase(r)
  <2>1. PICK to \in {"payPurchase", "commitPurchase"} : Step(r, "insertPurchase", to)
    BY <1>2 DEF InsertPurchase
  <2>2. /\ purchasing' = purchasing /\ UNCHANGED <<rowVars, cashVars>>
        /\ purchasing[r].number \notin Ordered
        /\ \A q \in Request : HasInsertedPurchase(q) => purchasing[r].number # purchasing[q].number
    BY <1>2 DEF InsertPurchase, purchaseVars, Purchasing
  <2>3. OneSlot(r, PurchaseLabel) /\ pc'[r] = to /\ pc[r] = "insertPurchase"
    BY <1>0, <2>1 DEF OneSlot, Step, PurchaseLabel
  <2>4. BuyerAt(r)'
    BY <1>0, <2>1, <2>2, <2>3 DEF BuyerAt, ReceiveLabel, HasInsertedPurchase, PurchaseLabel
  <2>5. \A n \in Ordered : \A i \in DOMAIN purchase[n].arrived :
          purchase[n].arrived[i] <= purchase[n].arrived[i]
    BY BuyFacts DEF PurchaseOK
  <2>6. /\ BuyInv /\ DOMAIN purchase = PurchaseNumber
        /\ \A q \in Request : HasInsertedPurchase(q) => purchasing[q].number \notin Ordered
    BY BuyFacts DEF BuyBefore, BuyerAt
  <2>7. BuyInv'
    BY <1>0, <2>2, <2>3, <2>4, <2>5, <2>6, BuyerMoves
  <2>8. QED
    BY <2>2, <2>3, <2>7, RowsKept, CashKept DEF BuyKept, BuyBefore
<1>3. CASE PayPurchase(r)
  <2>1. /\ Step(r, "payPurchase", "commitPurchase") /\ UNCHANGED rowVars
        /\ purchasing' = purchasing /\ session' = session /\ takings' = takings
    BY <1>3 DEF PayPurchase, purchaseVars
  <2>2. PICK x \in Session : till' = [till EXCEPT ![r] = x]
    BY <1>3 DEF PayPurchase, OpenSessionsOf
  <2>3. PICK s : s = purchasing[r].supply
    OBVIOUS
  <2>4. s \in Supply
    BY <1>0, <2>1, <2>3 DEF BuyerAt, Step, PurchaseLabel
  <2>5. s.method \in Method /\ s.total \in Int
    BY <2>4, SupplyFacts
  <2>6. posting' = [posting EXCEPT ![r] = PostOne("EXPENSE", s.method, s.total)]
    BY <1>3, <2>3 DEF PayPurchase, Purchasing
  <2>7. PostOne("EXPENSE", s.method, s.total) \in Book
    BY <2>5, PostOneType DEF MoveType
  <2>8. CashBookTypeOK
    BY DEF BuyBefore, TypeInv, TypeOK
  <2>9. CashBookTypeOK'
    BY <2>1, <2>2, <2>6, <2>7, <2>8 DEF CashBookTypeOK
  <2>10. \A q \in Request \ {r} : till'[q] = till[q]
    BY <2>2, <2>8 DEF CashBookTypeOK
  <2>11. pc[r] = "payPurchase" /\ pc'[r] = "commitPurchase"
    BY <1>0, <2>1 DEF Step
  <2>12. BuyerAt(r)'
    BY <1>0, <2>1, <2>11 DEF BuyerAt, ReceiveLabel, HasInsertedPurchase, PurchaseLabel
  <2>13. BuyInv' /\ OneSlot(r, PurchaseLabel)
    <3>1. "payPurchase" \in PurchaseLabel /\ "commitPurchase" \in PurchaseLabel
      BY DEF PurchaseLabel
    <3>2. QED
      BY <1>0, <2>1, <2>12, <3>1, BuyerGoesOn
  <2>14. QED
    BY <2>1, <2>9, <2>10, <2>13, RowsKept DEF BuyKept, BuyBefore
<1>4. QED
  BY <1>1, <1>2, <1>3

\* The last step of a handler: one row is written, or none.
LEMMA BuyerAnswers ==
    ASSUME BuyBefore, NEW r \in Request, pc[r] \in PurchaseLabel,
           pc' = [pc EXCEPT ![r] = "idle"],
           purchasing' = [purchasing EXCEPT ![r] = None],
           NEW n \in PurchaseNumber, NEW w,
           purchase' = [purchase EXCEPT ![n] = w],
           w = purchase[n] \/ PurchaseOK(w),
           n \in Ordered =>
             /\ w.supply = purchase[n].supply
             /\ \A i \in DOMAIN purchase[n].arrived : purchase[n].arrived[i] <= w.arrived[i],
           n \notin Ordered => \A q \in Request \ {r} :
             HasInsertedPurchase(q) => purchasing[q].number # n
    PROVE  BuyInv' /\ OneSlot(r, PurchaseLabel)
<1>0. /\ DOMAIN pc = Request /\ DOMAIN purchasing = Request /\ DOMAIN purchase = PurchaseNumber
      /\ BuyInv /\ \A q \in Request : BuyerAt(q)
      /\ \A m \in Ordered : PurchaseOK(purchase[m])
  BY BuyFacts DEF BuyBefore
<1>1. OneSlot(r, PurchaseLabel) /\ pc'[r] = "idle"
  BY <1>0 DEF OneSlot
<1>2. /\ DOMAIN purchase' = PurchaseNumber
      /\ \A m \in PurchaseNumber : purchase'[m] = IF m = n THEN w ELSE purchase[m]
  BY <1>0
<1>3. /\ \A m \in PurchaseNumber : purchase'[m] = purchase[m] \/ PurchaseOK(purchase'[m])
      /\ Ordered' \subseteq Ordered \cup {n}
  BY <1>2 DEF Ordered
<1>4. ASSUME NEW m \in Ordered
      PROVE  /\ purchase'[m].supply = purchase[m].supply
             /\ \A i \in DOMAIN purchase[m].arrived : purchase[m].arrived[i] <= purchase'[m].arrived[i]
  <2>1. CASE m = n
    BY <1>2, <2>1
  <2>2. CASE m # n
    <3>1. purchase'[m] = purchase[m] /\ PurchaseOK(purchase[m])
      BY <1>0, <1>2, <2>2 DEF Ordered
    <3>2. \A i \in DOMAIN purchase[m].arrived : purchase[m].arrived[i] \in Nat
      BY <3>1 DEF PurchaseOK
    <3>3. QED
      BY <3>1, <3>2
  <2>3. QED
    BY <2>1, <2>2
<1>5. \A q \in Request \ {r} : HasInsertedPurchase(q) => purchasing[q].number \notin Ordered'
  BY <1>0, <1>3 DEF BuyerAt
<1>6. BuyerAt(r)' /\ ~HasInsertedPurchase(r)'
  BY <1>1 DEF BuyerAt, HasInsertedPurchase, ReceiveLabel, PurchaseLabel
<1>7. DOMAIN purchasing' = Request /\ \A q \in Request \ {r} : purchasing'[q] = purchasing[q]
  BY <1>0
<1>8. BuyInv'
  BY <1>0, <1>1, <1>2, <1>3, <1>4, <1>5, <1>6, <1>7, BuyerMoves
<1>9. QED
  BY <1>1, <1>8

\* create, its commit
LEMMA CommitPurchaseKeeps ==
    ASSUME BuyBefore, NEW r \in Request, CommitPurchase(r)
    PROVE  BuyKept(r)
<1>0. /\ DOMAIN pc = Request /\ DOMAIN purchasing = Request /\ BuyerAt(r) /\ BuyInv
  BY BuyFacts DEF BuyBefore
<1>1. /\ pc[r] = "commitPurchase" /\ pc' = [pc EXCEPT ![r] = "idle"]
      /\ UNCHANGED <<rowVars, session>> /\ CommitPostings(r)
      /\ purchasing' = [purchasing EXCEPT ![r] = None]
  BY DEF CommitPurchase, Step
<1>2. PICK n, s, w : n = purchasing[r].number /\ s = purchasing[r].supply /\ w = NewPurchase(s)
  OBVIOUS
<1>3. n \in PurchaseNumber \ Ordered /\ s \in Supply
  BY <1>0, <1>1, <1>2 DEF BuyerAt, HasInsertedPurchase, PurchaseLabel
<1>4. purchase' = [purchase EXCEPT ![n] = w]
  BY <1>2 DEF CommitPurchase, Purchasing
<1>5. PurchaseOK(w)
  <2>1. PICK none : none = [i \in DOMAIN s.items |-> 0]
    OBVIOUS
  <2>2. w = [status |-> "PENDING", supply |-> s, payment |-> s.payment,
             received |-> none, arrived |-> none]
    BY <1>2, <2>1 DEF NewPurchase
  <2>3. \A i \in DOMAIN s.items : s.items[i].quantity \in Nat \ {0}
    BY <1>3, SupplyFacts
  <2>4. QED
    BY <1>3, <2>1, <2>2, <2>3 DEF PurchaseOK, PurchaseStatus
<1>6. \A q \in Request \ {r} : HasInsertedPurchase(q) => purchasing[q].number # n
  BY <1>0, <1>1, <1>2 DEF BuyInv, BuyersApart, HasInsertedPurchase
<1>7. BuyInv' /\ OneSlot(r, PurchaseLabel)
  BY <1>1, <1>3, <1>4, <1>5, <1>6, BuyerAnswers DEF PurchaseLabel
<1>8. QED
  BY <1>1, <1>7, RowsKept, CashKept DEF BuyKept, BuyBefore

\* cancel and update, their one statement
LEMMA EditKeeps ==
    ASSUME BuyBefore, NEW r \in Request, WriteCancelled(r) \/ WritePayment(r)
    PROVE  BuyKept(r)
<1>0. /\ DOMAIN pc = Request /\ DOMAIN purchasing = Request /\ BuyerAt(r)
      /\ DOMAIN purchase = PurchaseNumber
  BY BuyFacts
<1>1. /\ pc[r] \in {"writeCancelled", "writePayment"} /\ pc' = [pc EXCEPT ![r] = "idle"]
      /\ UNCHANGED <<rowVars, cashVars>>
      /\ purchasing' = [purchasing EXCEPT ![r] = None]
  BY DEF WriteCancelled, WritePayment, Step
<1>2. PICK n, v : n = purchasing[r].number /\ v = purchase[n]
  OBVIOUS
<1>3. n \in Ordered /\ n \in PurchaseNumber /\ PurchaseOK(v)
  BY <1>0, <1>1, <1>2, BuyFacts DEF BuyerAt
<1>4. PICK w : /\ w \in {[v EXCEPT !.status = "CANCELLED"], [v EXCEPT !.payment = purchasing[r].payment]}
               /\ purchase' = [purchase EXCEPT ![n] = w]
  <2>1. CASE WriteCancelled(r)
    BY <1>0, <1>2, <1>3, <2>1 DEF WriteCancelled, Purchasing
  <2>2. CASE WritePayment(r)
    BY <1>0, <1>2, <1>3, <2>2 DEF WritePayment, Purchasing
  <2>3. QED
    BY <2>1, <2>2
<1>5. /\ DOMAIN w = DOMAIN v /\ w.supply = v.supply /\ w.received = v.received /\ w.arrived = v.arrived
      /\ w.status \in {v.status, "CANCELLED"}
  BY <1>3, <1>4 DEF PurchaseOK
<1>6. PurchaseOK(w)
  BY <1>3, <1>5 DEF PurchaseOK, PurchaseStatus
<1>7. \A i \in DOMAIN v.arrived : v.arrived[i] <= w.arrived[i]
  BY <1>3, <1>5 DEF PurchaseOK
<1>8. BuyInv' /\ OneSlot(r, PurchaseLabel)
  BY <1>1, <1>2, <1>3, <1>4, <1>5, <1>6, <1>7, BuyerAnswers DEF PurchaseLabel
<1>9. QED
  BY <1>1, <1>8, RowsKept, CashKept DEF BuyKept, BuyBefore

LEMMA RollbackPurchaseKeeps ==
    ASSUME BuyBefore, NEW r \in Request, RollbackPurchase(r)
    PROVE  BuyKept(r)
<1>0. DOMAIN pc = Request /\ DOMAIN purchasing = Request /\ DOMAIN purchase = PurchaseNumber
  BY BuyFacts
<1>1. /\ pc[r] \in PurchaseLabel /\ pc' = [pc EXCEPT ![r] = "idle"]
      /\ RollbackRows(r) /\ DropPostings(r) /\ UNCHANGED <<session, purchase>>
      /\ purchasing' = [purchasing EXCEPT ![r] = None]
  BY DEF RollbackPurchase
<1>2. OneSlot(r, PurchaseLabel) /\ pc'[r] = "idle"
  BY <1>0, <1>1 DEF OneSlot
<1>3. Ordered' = Ordered /\ purchase' = purchase
  BY <1>1 DEF Ordered
<1>4. \A n \in Ordered : \A i \in DOMAIN purchase[n].arrived :
        purchase[n].arrived[i] <= purchase[n].arrived[i]
  BY BuyFacts DEF PurchaseOK
<1>5. \A q \in Request : HasInsertedPurchase(q) => purchasing[q].number \notin Ordered
  BY BuyFacts DEF BuyerAt
<1>6. BuyerAt(r)' /\ ~HasInsertedPurchase(r)'
  BY <1>2 DEF BuyerAt, HasInsertedPurchase, ReceiveLabel, PurchaseLabel
<1>7. BuyInv'
  BY <1>0, <1>1, <1>2, <1>3, <1>4, <1>5, <1>6, BuyerMoves DEF BuyBefore
<1>8. QED
  BY <1>1, <1>2, <1>7, RowsKept, CashKept DEF BuyKept, BuyBefore

\* receive, between its statements: only its local variables change, and the
\* rows that StoreItem writes besides.
LEMMA ReceiverGoesOn ==
    ASSUME BuyBefore, NEW r \in Request,
           NEW from \in ReceiveLabel \cup {"idle"}, NEW to \in ReceiveLabel, Step(r, from, to),
           UNCHANGED <<cashVars, purchase>>, RowsTypeOK', StockNeverNegative',
           NEW b, purchasing' = [purchasing EXCEPT ![r] = b],
           DOMAIN b = LocalFields, b.supply \in Supply, b.status \in PurchaseStatus,
           b.number \in Ordered, ReceiverOK(b, purchase[b.number]),
           to = "storeItem" => StoringOK(b)
    PROVE  BuyKept(r)
<1>0. DOMAIN pc = Request /\ DOMAIN purchasing = Request
  BY BuyFacts
<1>1. /\ purchasing'[r] = b /\ pc'[r] = to /\ DOMAIN purchasing' = Request
      /\ \A q \in Request \ {r} : purchasing'[q] = purchasing[q]
  BY <1>0 DEF Step
<1>2. BuyerAt(r)'
  <2>1. Ordered' = Ordered /\ purchase' = purchase
    BY DEF Ordered
  <2>2. to \notin {"insertPurchase", "payPurchase", "commitPurchase"}
    BY DEF ReceiveLabel
  <2>3. Receives(r)'
    BY <1>1, <2>1 DEF Receives
  <2>4. QED
    BY <1>1, <2>1, <2>2, <2>3 DEF BuyerAt, HasInsertedPurchase
<1>3. BuyInv' /\ OneSlot(r, PurchaseLabel)
  <2>1. /\ from \in PurchaseLabel \cup {"idle"} /\ to \in PurchaseLabel \cup {"idle"}
        /\ to \notin {"payPurchase", "commitPurchase"}
    BY DEF PurchaseLabel, ReceiveLabel
  <2>2. Step(r, from, to) /\ purchase' = purchase
    OBVIOUS
  <2>3. QED
    BY <1>1, <1>2, <2>1, <2>2, BuyerGoesOn
<1>4. CashBookTypeOK' /\ \A q \in Request \ {r} : till'[q] = till[q]
  BY CashKept DEF BuyBefore
<1>5. QED
  BY <1>3, <1>4 DEF BuyKept

\* What a reception can name can be received.
LEMMA NamedFacts ==
    ASSUME BuyInv, NEW n \in Ordered, NEW due \in Named(n)
    PROVE  /\ DOMAIN due = DOMAIN purchase[n].supply.items
           /\ \A i \in DOMAIN due : due[i] \in Nat
<1>1. PICK w : w = purchase[n]
  OBVIOUS
<1>2. PurchaseOK(w)
  BY <1>1 DEF BuyInv, Ordered, NoPurchase
<1>3. PICK pending : pending = Pending(n)
  OBVIOUS
<1>4. pending = [i \in DOMAIN w.received |-> w.supply.items[i].quantity - w.received[i]]
  BY <1>1, <1>3 DEF Pending
<1>5. \A i \in DOMAIN w.received : w.supply.items[i].quantity \in Nat /\ w.received[i] \in 0..w.supply.items[i].quantity
  BY <1>2, SupplyFacts DEF PurchaseOK
<1>6. DOMAIN pending = DOMAIN w.supply.items /\ \A i \in DOMAIN pending : pending[i] \in Nat
  BY <1>2, <1>4, <1>5 DEF PurchaseOK
<1>7. CASE due = pending
  BY <1>1, <1>6, <1>7
<1>8. CASE \E j \in DOMAIN pending, k \in {1, 2} : due = [i \in DOMAIN pending |-> IF i = j THEN k ELSE 0]
  BY <1>1, <1>6, <1>8
<1>9. QED
  BY <1>3, <1>7, <1>8 DEF Named

LEMMA StartReceiveKeeps ==
    ASSUME BuyBefore, NEW r \in Request, NEW n \in Ordered, NEW due \in Named(n),
           StartReceive(r, n, due)
    PROVE  BuyKept(r)
<1>1. PICK w, b : w = purchase[n] /\ b = Locals(n, w.supply, w.received, due, w.payment)
  OBVIOUS
<1>2. PurchaseOK(w)
  BY <1>1, BuyFacts
<1>3. /\ DOMAIN b = LocalFields /\ b.supply = w.supply /\ b.number = n
      /\ b.status \in PurchaseStatus /\ b.base = w.received /\ b.due = due /\ b.at = 1 /\ b.seen = 0
  BY <1>1, <1>2, LocalsFacts DEF PurchaseOK
<1>4. /\ Step(r, "idle", "readItem") /\ UNCHANGED <<rowVars, cashVars, purchase>>
      /\ purchasing' = [purchasing EXCEPT ![r] = b]
  BY <1>1 DEF StartReceive
<1>5. ReceiverOK(b, w)
  <2>1. DOMAIN due = DOMAIN w.supply.items /\ \A i \in DOMAIN due : due[i] \in Nat
    BY <1>1, NamedFacts DEF BuyBefore
  <2>2. \A i \in DOMAIN w.supply.items :
          /\ w.received[i] \in Nat /\ w.received[i] <= w.arrived[i]
          /\ i \in Nat /\ ~(i < 1)
    BY <1>2, SupplyFacts DEF PurchaseOK
  <2>3. DOMAIN w.received = DOMAIN w.supply.items
    BY <1>2 DEF PurchaseOK
  <2>4. \A i \in DOMAIN w.supply.items : i \notin StoredBy(b)
    BY <1>3, <2>2 DEF StoredBy
  <2>5. QED
    BY <1>3, <2>1, <2>2, <2>3, <2>4 DEF ReceiverOK
<1>6. RowsTypeOK' /\ StockNeverNegative'
  BY <1>4, RowsKept DEF BuyBefore
<1>7. QED
  <2>1. "readItem" \in ReceiveLabel /\ "readItem" # "storeItem" /\ b.supply \in Supply
    BY <1>2, <1>3 DEF ReceiveLabel, PurchaseOK
  <2>2. UNCHANGED <<cashVars, purchase>> /\ ReceiverOK(b, purchase[b.number]) /\ b.number \in Ordered
    BY <1>1, <1>3, <1>4, <1>5
  <2>3. QED
    BY <1>3, <1>4, <1>6, <2>1, <2>2, ReceiverGoesOn

\* The facts about a reception under way.
LEMMA ReceivingFacts ==
    ASSUME BuyBefore, NEW r \in Request, pc[r] \in ReceiveLabel,
           NEW b, b = purchasing[r]
    PROVE  /\ DOMAIN b = LocalFields /\ b.supply \in Supply /\ b.status \in PurchaseStatus
           /\ b.number \in Ordered /\ b.number \in PurchaseNumber
           /\ PurchaseOK(purchase[b.number]) /\ ReceiverOK(b, purchase[b.number])
           /\ pc[r] = "storeItem" => StoringOK(b)
           /\ DOMAIN purchasing = Request /\ DOMAIN purchase = PurchaseNumber
<1>1. BuyerAt(r) /\ pc[r] \in PurchaseLabel
  BY BuyFacts DEF ReceiveLabel, PurchaseLabel
<1>2. QED
  BY <1>1, BuyFacts DEF BuyerAt, Receives

LEMMA SkipItemKeeps ==
    ASSUME BuyBefore, NEW r \in Request, SkipItem(r)
    PROVE  BuyKept(r)
<1>1. PICK b : b = purchasing[r]
  OBVIOUS
<1>2. /\ Step(r, "readItem", "readItem") /\ UNCHANGED <<rowVars, cashVars, purchase>>
      /\ b.at <= Len(b.supply.items) /\ b.due[b.at] = 0
  BY <1>1 DEF SkipItem, Purchasing
<1>3. pc[r] = "readItem" /\ "readItem" \in ReceiveLabel /\ "readItem" # "storeItem"
  BY <1>2 DEF Step, ReceiveLabel
<1>4. /\ DOMAIN b = LocalFields /\ b.supply \in Supply /\ b.status \in PurchaseStatus
      /\ b.number \in Ordered /\ ReceiverOK(b, purchase[b.number]) /\ DOMAIN purchasing = Request
  BY <1>1, <1>3, ReceivingFacts
<1>5. PICK k : k = b.at + 1
  OBVIOUS
<1>6. PICK c : c = [b EXCEPT !.at = k]
  OBVIOUS
<1>7. purchasing' = [purchasing EXCEPT ![r] = c]
  <2>1. purchasing' = [purchasing EXCEPT ![r].at = k]
    BY <1>1, <1>4, <1>5 DEF SkipItem
  <2>2. QED
    BY <1>1, <1>6, <2>1
<1>8. /\ DOMAIN c = LocalFields /\ c.supply = b.supply /\ c.status = b.status /\ c.number = b.number
      /\ c.base = b.base /\ c.due = b.due /\ c.seen = b.seen /\ c.at = k
  BY <1>4, <1>6 DEF LocalFields
<1>9. ReceiverOK(c, purchase[b.number])
  <2>1. k \in Nat \ {0} /\ b.at \in Nat
    BY <1>4, <1>5 DEF ReceiverOK
  <2>2. StoredBy(c) \subseteq StoredBy(b)
    <3>1. ASSUME NEW i \in DOMAIN b.due, i < k, b.due[i] > 0
          PROVE  i < b.at
      <4>1. i \in Nat
        BY <1>4, SupplyFacts DEF ReceiverOK
      <4>2. i # b.at
        BY <1>2, <3>1
      <4>3. QED
        BY <1>5, <2>1, <3>1, <4>1, <4>2
    <3>2. QED
      BY <1>8, <3>1 DEF StoredBy
  <2>3. QED
    BY <1>4, <1>8, <2>1, <2>2 DEF ReceiverOK
<1>10. RowsTypeOK' /\ StockNeverNegative'
  BY <1>2, RowsKept DEF BuyBefore
<1>11. QED
  <2>1. UNCHANGED <<cashVars, purchase>>
    BY <1>2
  <2>2. QED
    BY <1>2, <1>3, <1>4, <1>7, <1>8, <1>9, <1>10, <2>1, ReceiverGoesOn

LEMMA ReadItemKeeps ==
    ASSUME BuyBefore, NEW r \in Request, ReadItem(r)
    PROVE  BuyKept(r)
<1>1. PICK b : b = purchasing[r]
  OBVIOUS
<1>2. /\ Step(r, "readItem", "storeItem") /\ UNCHANGED <<rowVars, cashVars, purchase>>
      /\ b.at <= Len(b.supply.items) /\ b.due[b.at] > 0
      /\ b.base[b.at] + b.due[b.at] <= b.supply.items[b.at].quantity
  BY <1>1 DEF ReadItem, Purchasing
<1>3. pc[r] = "readItem" /\ "readItem" \in ReceiveLabel /\ "storeItem" \in ReceiveLabel
  BY <1>2 DEF Step, ReceiveLabel
<1>4. /\ DOMAIN b = LocalFields /\ b.supply \in Supply /\ b.status \in PurchaseStatus
      /\ b.number \in Ordered /\ ReceiverOK(b, purchase[b.number]) /\ DOMAIN purchasing = Request
  BY <1>1, <1>3, ReceivingFacts
<1>5. PICK k : k = Visible(r, b.supply.items[b.at].product)
  OBVIOUS
<1>6. PICK c : c = [b EXCEPT !.seen = k]
  OBVIOUS
<1>7. purchasing' = [purchasing EXCEPT ![r] = c]
  <2>1. purchasing' = [purchasing EXCEPT ![r].seen = k]
    BY <1>1, <1>5 DEF ReadItem, Purchasing
  <2>2. QED
    BY <1>1, <1>6, <2>1
<1>8. /\ DOMAIN c = LocalFields /\ c.supply = b.supply /\ c.status = b.status /\ c.number = b.number
      /\ c.base = b.base /\ c.due = b.due /\ c.seen = k /\ c.at = b.at
  BY <1>4, <1>6 DEF LocalFields
<1>9. b.at \in DOMAIN b.supply.items
  BY <1>2, <1>4, SupplyFacts DEF ReceiverOK
<1>10. k \in Nat
  <2>1. b.supply.items[b.at].product \in Product
    BY <1>4, <1>9, SupplyFacts
  <2>2. QED
    BY <1>5, <2>1, VisibleNotNegative DEF BuyBefore
<1>11. ReceiverOK(c, purchase[b.number]) /\ StoringOK(c)
  <2>1. StoredBy(c) = StoredBy(b)
    BY <1>8 DEF StoredBy
  <2>2. QED
    BY <1>2, <1>4, <1>8, <1>9, <1>10, <2>1 DEF ReceiverOK, StoringOK
<1>12. RowsTypeOK' /\ StockNeverNegative'
  BY <1>2, RowsKept DEF BuyBefore
<1>13. QED
  <2>1. UNCHANGED <<cashVars, purchase>>
    BY <1>2
  <2>2. QED
    BY <1>2, <1>3, <1>4, <1>7, <1>8, <1>11, <1>12, <2>1, ReceiverGoesOn

LEMMA StoreItemKeeps ==
    ASSUME BuyBefore, NEW r \in Request, StoreItem(r)
    PROVE  BuyKept(r)
<1>1. PICK b : b = purchasing[r]
  OBVIOUS
<1>2. /\ Step(r, "storeItem", "readItem") /\ UNCHANGED <<cashVars, purchase>>
      /\ WriteStock(r, b.supply.items[b.at].product, b.seen + b.due[b.at], b.due[b.at])
  BY <1>1 DEF StoreItem, Purchasing
<1>3. pc[r] = "storeItem" /\ "readItem" \in ReceiveLabel /\ "storeItem" \in ReceiveLabel
  BY <1>2 DEF Step, ReceiveLabel
<1>4. /\ DOMAIN b = LocalFields /\ b.supply \in Supply /\ b.status \in PurchaseStatus
      /\ b.number \in Ordered /\ ReceiverOK(b, purchase[b.number]) /\ StoringOK(b)
      /\ DOMAIN purchasing = Request
  BY <1>1, <1>3, ReceivingFacts
<1>5. PICK k : k = b.at + 1
  OBVIOUS
<1>6. PICK c : c = [b EXCEPT !.at = k]
  OBVIOUS
<1>7. purchasing' = [purchasing EXCEPT ![r] = c]
  <2>1. purchasing' = [purchasing EXCEPT ![r].at = k]
    BY <1>1, <1>4, <1>5 DEF StoreItem
  <2>2. QED
    BY <1>1, <1>6, <2>1
<1>8. /\ DOMAIN c = LocalFields /\ c.supply = b.supply /\ c.status = b.status /\ c.number = b.number
      /\ c.base = b.base /\ c.due = b.due /\ c.seen = b.seen /\ c.at = k
  BY <1>4, <1>6 DEF LocalFields
<1>9. ReceiverOK(c, purchase[b.number])
  <2>1. k \in Nat \ {0} /\ b.at \in Nat
    BY <1>4, <1>5 DEF ReceiverOK
  <2>2. StoredBy(c) \subseteq StoredBy(b) \cup {b.at}
    <3>1. ASSUME NEW i \in DOMAIN b.due, i < k
          PROVE  i < b.at \/ i = b.at
      <4>1. i \in Nat
        BY <1>4, SupplyFacts DEF ReceiverOK
      <4>2. QED
        BY <1>5, <2>1, <3>1, <4>1
    <3>2. QED
      BY <1>8, <3>1 DEF StoredBy
  <2>3. \A i \in StoredBy(c) : b.base[i] + b.due[i] <= b.supply.items[i].quantity
    <3>1. \A i \in StoredBy(b) : b.base[i] + b.due[i] <= b.supply.items[i].quantity
      BY <1>4 DEF ReceiverOK, StoredBy
    <3>2. QED
      BY <1>4, <2>2, <3>1 DEF StoringOK
  <2>4. QED
    BY <1>4, <1>8, <2>1, <2>3 DEF ReceiverOK
<1>10. RowsTypeOK' /\ StockNeverNegative'
  <2>1. PICK p, v, d : p = b.supply.items[b.at].product /\ v = b.seen + b.due[b.at] /\ d = b.due[b.at]
    OBVIOUS
  <2>2. p \in Product /\ v \in Nat /\ d \in Int
    <3>1. b.at \in DOMAIN b.supply.items /\ b.seen \in Nat /\ b.due[b.at] \in Nat
      BY <1>4 DEF ReceiverOK, StoringOK
    <3>2. p \in Product
      BY <1>4, <2>1, <3>1, SupplyFacts
    <3>3. QED
      BY <2>1, <3>1, <3>2
  <2>3. WriteStock(r, p, v, d)
    BY <1>2, <2>1
  <2>4. QED
    BY <2>2, <2>3, RowWritten DEF BuyBefore
<1>11. QED
  <2>1. UNCHANGED <<cashVars, purchase>> /\ "readItem" # "storeItem"
    BY <1>2
  <2>2. QED
    BY <1>2, <1>3, <1>4, <1>7, <1>8, <1>9, <1>10, <2>1, ReceiverGoesOn

LEMMA RefreshItemsKeeps ==
    ASSUME BuyBefore, NEW r \in Request, RefreshItems(r)
    PROVE  BuyKept(r)
<1>1. PICK b : b = purchasing[r]
  OBVIOUS
<1>2. /\ Step(r, "readItem", "writeStatus") /\ UNCHANGED <<rowVars, cashVars, purchase>>
  BY <1>1 DEF RefreshItems
<1>3. pc[r] = "readItem" /\ "readItem" \in ReceiveLabel /\ "writeStatus" \in ReceiveLabel
  BY <1>2 DEF Step, ReceiveLabel
<1>4. /\ DOMAIN b = LocalFields /\ b.supply \in Supply
      /\ b.number \in Ordered /\ ReceiverOK(b, purchase[b.number]) /\ DOMAIN purchasing = Request
  BY <1>1, <1>3, ReceivingFacts
<1>5. PICK k : k = StatusOf(b.supply, Refreshed(r))
  OBVIOUS
<1>6. k \in PurchaseStatus
  BY <1>5 DEF StatusOf, PurchaseStatus
<1>7. PICK c : c = [b EXCEPT !.status = k]
  OBVIOUS
<1>8. purchasing' = [purchasing EXCEPT ![r] = c]
  <2>1. purchasing' = [purchasing EXCEPT ![r].status = k]
    BY <1>1, <1>5 DEF RefreshItems, Purchasing
  <2>2. QED
    BY <1>1, <1>7, <2>1
<1>9. /\ DOMAIN c = LocalFields /\ c.supply = b.supply /\ c.status = k /\ c.number = b.number
      /\ c.base = b.base /\ c.due = b.due /\ c.seen = b.seen /\ c.at = b.at
  BY <1>4, <1>7 DEF LocalFields
<1>10. ReceiverOK(c, purchase[b.number])
  <2>1. StoredBy(c) = StoredBy(b)
    BY <1>9 DEF StoredBy
  <2>2. QED
    BY <1>4, <1>9, <2>1 DEF ReceiverOK
<1>11. RowsTypeOK' /\ StockNeverNegative'
  BY <1>2, RowsKept DEF BuyBefore
<1>12. QED
  <2>1. UNCHANGED <<cashVars, purchase>> /\ "writeStatus" # "storeItem"
    BY <1>2
  <2>2. QED
    BY <1>2, <1>3, <1>4, <1>6, <1>8, <1>9, <1>10, <1>11, <2>1, ReceiverGoesOn

LEMMA WriteReceivedKeeps ==
    ASSUME BuyBefore, NEW r \in Request, WriteReceived(r)
    PROVE  BuyKept(r)
<1>1. PICK b : b = purchasing[r]
  OBVIOUS
<1>2. /\ Step(r, "writeStatus", "commitReceive") /\ UNCHANGED <<rowVars, cashVars, purchaseVars>>
  BY DEF WriteReceived
<1>3. /\ pc[r] = "writeStatus" /\ "writeStatus" \in ReceiveLabel /\ "commitReceive" \in ReceiveLabel
      /\ pc'[r] = "commitReceive" /\ "commitReceive" # "storeItem"
  BY <1>2, BuyFacts DEF Step, ReceiveLabel
<1>4. BuyerAt(r)'
  <2>1. Ordered' = Ordered /\ purchase' = purchase /\ purchasing' = purchasing
    BY <1>2 DEF Ordered, purchaseVars
  <2>2. /\ DOMAIN b = LocalFields /\ b.supply \in Supply /\ b.status \in PurchaseStatus
        /\ b.number \in Ordered /\ ReceiverOK(b, purchase[b.number])
    BY <1>1, <1>3, ReceivingFacts
  <2>3. Receives(r)'
    BY <1>1, <1>3, <2>1, <2>2 DEF Receives
  <2>4. QED
    BY <1>1, <1>3, <2>1, <2>2, <2>3 DEF BuyerAt, HasInsertedPurchase
<1>5. BuyInv' /\ OneSlot(r, PurchaseLabel)
  <2>1. "writeStatus" \in PurchaseLabel /\ "commitReceive" \in PurchaseLabel
    BY DEF PurchaseLabel
  <2>2. purchase' = purchase /\ purchasing' = purchasing /\ DOMAIN purchasing = Request
    BY <1>2, BuyFacts DEF purchaseVars
  <2>3. QED
    BY <1>2, <1>4, <2>1, <2>2, BuyerGoesOn
<1>6. QED
  BY <1>2, <1>5, RowsKept, CashKept DEF BuyKept, BuyBefore

LEMMA CommitReceiveKeeps ==
    ASSUME BuyBefore, NEW r \in Request, CommitReceive(r)
    PROVE  BuyKept(r)
<1>1. PICK b, n, w : b = purchasing[r] /\ n = b.number /\ w = purchase[n]
  OBVIOUS
<1>2. /\ pc[r] = "commitReceive" /\ pc' = [pc EXCEPT ![r] = "idle"]
      /\ CommitRows(r) /\ UNCHANGED cashVars
      /\ purchasing' = [purchasing EXCEPT ![r] = None]
  BY DEF CommitReceive, Step
<1>3. /\ pc[r] \in ReceiveLabel /\ pc[r] \in PurchaseLabel
  BY <1>2 DEF ReceiveLabel, PurchaseLabel
<1>4. /\ b.supply \in Supply /\ b.status \in PurchaseStatus /\ n \in Ordered /\ n \in PurchaseNumber
      /\ PurchaseOK(w) /\ ReceiverOK(b, w)
  BY <1>1, <1>3, ReceivingFacts
<1>5. PICK S : S = StoredBy(b)
  OBVIOUS
<1>6. Stored(r) = S
  BY <1>1, <1>5 DEF Stored, StoredBy, Purchasing
<1>7. PICK received, arrived :
        /\ received = Refreshed(r)
        /\ arrived = [i \in DOMAIN w.arrived |-> w.arrived[i] + IF i \in S THEN b.due[i] ELSE 0]
  OBVIOUS
<1>8. PICK x : x = [w EXCEPT !.status = b.status, !.received = received, !.arrived = arrived]
  OBVIOUS
<1>9. purchase' = [purchase EXCEPT ![n] = x]
  BY <1>1, <1>6, <1>7, <1>8 DEF CommitReceive, Purchasing
<1>10. /\ DOMAIN x = DOMAIN w /\ x.status = b.status /\ x.supply = w.supply
       /\ x.received = received /\ x.arrived = arrived
  BY <1>4, <1>8 DEF PurchaseOK
<1>11. /\ DOMAIN arrived = DOMAIN w.supply.items /\ DOMAIN received = DOMAIN w.supply.items
       /\ \A i \in DOMAIN w.supply.items :
            /\ arrived[i] = w.arrived[i] + IF i \in S THEN b.due[i] ELSE 0
            /\ received[i] = IF i \in S THEN b.base[i] + b.due[i] ELSE w.received[i]
  <2>1. received = [i \in DOMAIN b.due |-> IF i \in S THEN b.base[i] + b.due[i] ELSE w.received[i]]
    BY <1>1, <1>6, <1>7 DEF Refreshed, Purchasing
  <2>2. DOMAIN b.due = DOMAIN w.supply.items /\ DOMAIN w.arrived = DOMAIN w.supply.items
    BY <1>4 DEF ReceiverOK, PurchaseOK
  <2>3. QED
    BY <1>7, <2>1, <2>2
<1>12. ASSUME NEW i \in DOMAIN w.supply.items
       PROVE  /\ received[i] \in 0..w.supply.items[i].quantity /\ arrived[i] \in Nat
              /\ received[i] <= arrived[i] /\ w.arrived[i] <= arrived[i]
  <2>1. /\ b.base[i] \in Nat /\ b.due[i] \in Nat /\ b.base[i] <= w.arrived[i]
        /\ i \in S => b.base[i] + b.due[i] <= w.supply.items[i].quantity
    BY <1>4, <1>5 DEF ReceiverOK
  <2>2. /\ w.received[i] \in 0..w.supply.items[i].quantity /\ w.arrived[i] \in Nat
        /\ w.received[i] <= w.arrived[i]
    BY <1>4 DEF PurchaseOK
  <2>3. w.supply.items[i].quantity \in Nat
    BY <1>4, SupplyFacts DEF PurchaseOK
  <2>4. CASE i \in S
    BY <1>11, <2>1, <2>2, <2>3, <2>4
  <2>5. CASE i \notin S
    BY <1>11, <2>1, <2>2, <2>3, <2>5
  <2>6. QED
    BY <2>4, <2>5
<1>13. PurchaseOK(x)
  BY <1>4, <1>10, <1>11, <1>12 DEF PurchaseOK
<1>14. \A i \in DOMAIN purchase[n].arrived : purchase[n].arrived[i] <= x.arrived[i]
  BY <1>1, <1>4, <1>10, <1>12 DEF PurchaseOK
<1>15. BuyInv' /\ OneSlot(r, PurchaseLabel)
  BY <1>1, <1>2, <1>3, <1>4, <1>9, <1>10, <1>13, <1>14, BuyerAnswers
<1>16. QED
  BY <1>2, <1>15, RowsKept, CashKept DEF BuyKept, BuyBefore

\* A step of the purchases leaves an order as it should be, and the others alone.
LEMMA BuyKeeps ==
    ASSUME BuyBefore, PurchasesNext
    PROVE  \E r \in Request : BuyKept(r)
<1>1. PICK r \in Request :
        \/ \E s \in Supply : StartPurchase(r, s)
        \/ \E n \in Ordered : \/ \E due \in Named(n) : StartReceive(r, n, due)
                              \/ StartCancelPurchase(r, n)
                              \/ \E p \in {"PENDING", "PAID"} : StartUpdatePurchase(r, n, p)
        \/ PurchaseStep(r)
        \/ RollbackPurchase(r)
  BY DEF PurchasesNext
<1>2. CASE \/ \E s \in Supply : StartPurchase(r, s)
           \/ \E n \in Ordered : \/ StartCancelPurchase(r, n)
                                 \/ \E p \in {"PENDING", "PAID"} : StartUpdatePurchase(r, n, p)
  BY <1>2, StartsKeep
<1>3. CASE \E n \in Ordered : \E due \in Named(n) : StartReceive(r, n, due)
  BY <1>3, StartReceiveKeeps
<1>4. CASE PurchaseStep(r)
  BY <1>4, CreateKeeps, CommitPurchaseKeeps, SkipItemKeeps, ReadItemKeeps, StoreItemKeeps,
     RefreshItemsKeeps, WriteReceivedKeeps, CommitReceiveKeeps, EditKeeps DEF PurchaseStep
<1>5. CASE RollbackPurchase(r)
  BY <1>5, RollbackPurchaseKeeps
<1>6. QED
  BY <1>1, <1>2, <1>3, <1>4, <1>5

-----------------------------------------------------------------------------
(* Service orders *)

WorkBefore == TypeInv /\ StockNeverNegative /\ RepairInv

LEMMA RepairFacts ==
    ASSUME WorkBefore
    PROVE  /\ DOMAIN pc = Request /\ DOMAIN repairing = Request /\ DOMAIN workOrder = WorkNumber
           /\ \A n \in WorkNumber : RepairOK(workOrder[n])
           /\ \A n \in WorkReceived : n \in WorkNumber
           /\ \A r \in Request : RepairerAt(r)
           /\ "idle" \notin WorkLabel
  BY DEF WorkBefore, TypeInv, TypeOK, RepairInv, WorkReceived, WorkLabel

\* The handler of r moves on.  No order loses an item, and none that another
\* handler has inserted is taken.
LEMMA RepairerMoves ==
    ASSUME RepairInv, NEW r \in Request, OneSlot(r, WorkLabel),
           DOMAIN repairing' = Request, \A q \in Request \ {r} : repairing'[q] = repairing[q],
           DOMAIN workOrder' = WorkNumber,
           \A n \in WorkNumber : workOrder'[n] = workOrder[n] \/ RepairOK(workOrder'[n]),
           \A n \in WorkReceived :
             /\ workOrder'[n].status # "NONE"
             /\ Len(workOrder[n].contents.items) <= Len(workOrder'[n].contents.items),
           \A q \in Request \ {r} :
             pc[q] = "commitWorkOrder" => repairing[q].number \notin WorkReceived',
           RepairerAt(r)',
           pc'[r] = "commitWorkOrder" => \A q \in Request \ {r} :
             pc[q] = "commitWorkOrder" => repairing'[r].number # repairing[q].number
    PROVE  RepairInv'
<1>1. \A n \in WorkNumber : RepairOK(workOrder'[n])
  BY DEF RepairInv
<1>2. WorkReceived \subseteq WorkReceived'
  BY DEF WorkReceived
<1>3. ASSUME NEW q \in Request \ {r} PROVE RepairerAt(q)'
  <2>1. PICK b : b = repairing[q]
    OBVIOUS
  <2>2. RepairerAt(q) /\ pc'[q] = pc[q] /\ repairing'[q] = b /\ repairing[q] = b
    BY <2>1 DEF RepairInv, OneSlot
  <2>3. ASSUME pc[q] \in {"deleteItem", "writeRemoved"}
        PROVE  b.what \in 1..Len(workOrder'[b.number].contents.items)
    <3>1. /\ b.number \in WorkReceived /\ b.number \in WorkNumber
          /\ b.what \in 1..Len(workOrder[b.number].contents.items)
      BY <2>2, <2>3 DEF RepairerAt, TakenLabel, EditLabel, WorkReceived
    <3>2. PICK k, l : /\ k = Len(workOrder[b.number].contents.items)
                      /\ l = Len(workOrder'[b.number].contents.items)
      OBVIOUS
    <3>3. RepairOK(workOrder[b.number]) /\ RepairOK(workOrder'[b.number])
      BY <1>1, <3>1 DEF RepairInv
    <3>4. k \in Nat /\ l \in Nat
      BY <3>2, <3>3 DEF RepairOK
    <3>5. k <= l
      BY <3>1, <3>2
    <3>6. QED
      BY <3>1, <3>2, <3>4, <3>5
  <2>4. pc[q] = "commitWorkOrder" => b.number \notin WorkReceived'
    BY <2>1
  <2>5. pc[q] \in TakenLabel => b.number \in WorkReceived'
    BY <1>2, <2>2 DEF RepairerAt
  <2>6. QED
    BY <2>2, <2>3, <2>4, <2>5 DEF RepairerAt
<1>4. \A q, s \in Request : q # s => InsertApart(q, s)'
  <2> SUFFICES ASSUME NEW q \in Request, NEW s \in Request, q # s,
                      pc'[q] = "commitWorkOrder", pc'[s] = "commitWorkOrder"
               PROVE  repairing'[q].number # repairing'[s].number
    BY DEF InsertApart
  <2>1. \A x \in Request \ {r} : pc'[x] = pc[x]
    BY DEF OneSlot
  <2>2. QED
    BY <2>1 DEF RepairInv, InsertApart
<1>5. QED
  BY <1>1, <1>3, <1>4 DEF RepairInv

\* What a step of a service order leaves to the others.
WorkKept(r) ==
    /\ RepairInv' /\ RowsTypeOK' /\ StockNeverNegative' /\ OneSlot(r, WorkLabel)
    /\ \A q \in Request \ {r} : repairing'[q] = repairing[q]
    /\ CommitPart(r) \/ \A p \in Product : Fitted(p)' = Fitted(p)

\* Nothing is fitted.
LEMMA FittedStays ==
    ASSUME WorkReceived' = WorkReceived,
           \A n \in WorkReceived, p \in Product : FittedOn(n, p)' = FittedOn(n, p)
    PROVE  \A p \in Product : Fitted(p)' = Fitted(p)
<1> SUFFICES ASSUME NEW p \in Product PROVE Fitted(p)' = Fitted(p)
  OBVIOUS
<1>1. [n \in WorkReceived |-> FittedOn(n, p)]' = [n \in WorkReceived |-> FittedOn(n, p)]
  OBVIOUS
<1>2. QED
  BY <1>1 DEF Fitted

\* A handler that goes on, or answers, without writing its order.
LEMMA RepairerGoesOn ==
    ASSUME WorkBefore, NEW r \in Request, NEW to \in WorkLabel \cup {"idle"},
           pc[r] \in WorkLabel \cup {"idle"}, pc' = [pc EXCEPT ![r] = to],
           UNCHANGED workOrder, DOMAIN repairing' = Request,
           \A q \in Request \ {r} : repairing'[q] = repairing[q],
           RepairerAt(r)', RowsTypeOK', StockNeverNegative',
           to = "commitWorkOrder" => \A q \in Request \ {r} :
             pc[q] = "commitWorkOrder" => repairing'[r].number # repairing[q].number
    PROVE  WorkKept(r)
<1>1. /\ DOMAIN pc = Request /\ RepairInv /\ DOMAIN workOrder = WorkNumber
      /\ \A q \in Request : RepairerAt(q)
  BY RepairFacts DEF WorkBefore
<1>2. OneSlot(r, WorkLabel) /\ pc'[r] = to
  BY <1>1 DEF OneSlot
<1>3. WorkReceived' = WorkReceived /\ workOrder' = workOrder
  BY DEF WorkReceived
<1>4. \A n \in WorkReceived :
        /\ workOrder[n].status # "NONE"
        /\ Len(workOrder[n].contents.items) <= Len(workOrder[n].contents.items)
  <2>1. ASSUME NEW n \in WorkReceived
        PROVE  Len(workOrder[n].contents.items) \in Nat
    BY RepairFacts DEF RepairOK
  <2>2. QED
    BY <2>1 DEF WorkReceived
<1>5. \A q \in Request \ {r} :
        pc[q] = "commitWorkOrder" => repairing[q].number \notin WorkReceived
  BY <1>1 DEF RepairerAt
<1>6. RepairInv'
  BY <1>1, <1>2, <1>3, <1>4, <1>5, RepairerMoves
<1>7. \A p \in Product : Fitted(p)' = Fitted(p)
  <2>1. \A n \in WorkReceived, p \in Product : FittedOn(n, p)' = FittedOn(n, p)
    BY <1>3 DEF FittedOn
  <2>2. QED
    BY <1>3, <2>1, FittedStays
<1>8. QED
  BY <1>2, <1>6, <1>7 DEF WorkKept

\* A handler that writes an order: a new one, or one that loses no item.
LEMMA RepairerWrites ==
    ASSUME WorkBefore, NEW r \in Request, NEW to \in WorkLabel \cup {"idle"},
           to # "commitWorkOrder",
           pc[r] \in WorkLabel, pc' = [pc EXCEPT ![r] = to],
           DOMAIN repairing' = Request, \A q \in Request \ {r} : repairing'[q] = repairing[q],
           NEW n \in WorkNumber, NEW w,
           workOrder' = [workOrder EXCEPT ![n] = w], RepairOK(w),
           n \in WorkReceived =>
             /\ w.status # "NONE"
             /\ Len(workOrder[n].contents.items) <= Len(w.contents.items),
           n \notin WorkReceived => \A q \in Request \ {r} :
             pc[q] = "commitWorkOrder" => repairing[q].number # n,
           RepairerAt(r)', RowsTypeOK', StockNeverNegative',
           \/ CommitPart(r)
           \/ \A p \in Product : UnitsFitted(w.contents.items, p) =
                IF n \in WorkReceived THEN UnitsFitted(workOrder[n].contents.items, p) ELSE 0
    PROVE  WorkKept(r)
<1>1. /\ DOMAIN pc = Request /\ RepairInv /\ DOMAIN workOrder = WorkNumber
      /\ \A q \in Request : RepairerAt(q)
  BY RepairFacts DEF WorkBefore
<1>2. OneSlot(r, WorkLabel) /\ pc'[r] = to
  BY <1>1 DEF OneSlot
<1>3. /\ DOMAIN workOrder' = WorkNumber /\ workOrder'[n] = w
      /\ \A m \in WorkNumber \ {n} : workOrder'[m] = workOrder[m]
  BY <1>1
<1>4. \A m \in WorkReceived :
        /\ workOrder'[m].status # "NONE"
        /\ Len(workOrder[m].contents.items) <= Len(workOrder'[m].contents.items)
  <2>1. ASSUME NEW m \in WorkReceived
        PROVE  m \in WorkNumber /\ Len(workOrder[m].contents.items) \in Nat /\ workOrder[m].status # "NONE"
    BY RepairFacts DEF RepairOK, WorkReceived
  <2>2. QED
    BY <1>3, <2>1
<1>5. WorkReceived' \subseteq WorkReceived \cup {n}
  BY <1>3 DEF WorkReceived
<1>6. \A q \in Request \ {r} :
        pc[q] = "commitWorkOrder" => repairing[q].number \notin WorkReceived'
  BY <1>1, <1>5 DEF RepairerAt
<1>7. RepairInv'
  <2>1. \A m \in WorkNumber : workOrder'[m] = workOrder[m] \/ RepairOK(workOrder'[m])
    BY <1>3
  <2>2. QED
    BY <1>1, <1>2, <1>3, <1>4, <1>6, <2>1, RepairerMoves
<1>8. ASSUME ~CommitPart(r), NEW p \in Product
      PROVE  Fitted(p)' = Fitted(p)
  <2>1. CASE w.status = "NONE"
    <3>1. n \notin WorkReceived
      BY <2>1
    <3>2. WorkReceived' = WorkReceived
      BY <1>3, <2>1, <3>1 DEF WorkReceived
    <3>3. \A m \in WorkReceived, d \in Product : FittedOn(m, d)' = FittedOn(m, d)
      <4>1. \A m \in WorkReceived : workOrder'[m] = workOrder[m]
        BY <1>3, <3>1 DEF WorkReceived
      <4>2. QED
        BY <4>1 DEF FittedOn
    <3>4. QED
      BY <3>2, <3>3, FittedStays
  <2>2. CASE w.status # "NONE"
    <3>1. WorkReceived' = WorkReceived \cup {n}
      BY <1>3, <2>2 DEF WorkReceived
    <3>2. \A m \in WorkReceived \ {n} : FittedOn(m, p)' = FittedOn(m, p)
      BY <1>3 DEF FittedOn, WorkReceived
    <3>3. UnitsFitted(w.contents.items, p) =
            IF n \in WorkReceived THEN UnitsFitted(workOrder[n].contents.items, p) ELSE 0
      BY <1>8
    <3>4. FittedOn(n, p)' = UnitsFitted(w.contents.items, p)
      BY <1>3 DEF FittedOn
    <3>5. n \in WorkReceived => FittedOn(n, p) \in Int
      BY <1>1, FittedFacts DEF FittedOn, RepairInv, RepairOK
    <3>6. n \in WorkReceived => FittedOn(n, p)' = FittedOn(n, p) + 0
      BY <3>3, <3>4, <3>5 DEF FittedOn
    <3>7. n \notin WorkReceived => FittedOn(n, p)' = 0
      BY <3>3, <3>4
    <3>8. Fitted(p)' = Fitted(p) + 0
      BY <1>1, <3>1, <3>2, <3>6, <3>7, FittedMoves
    <3>9. Fitted(p) \in Int
      BY <1>1, FittedIsInt
    <3>10. QED
      BY <3>8, <3>9
  <2>3. QED
    BY <2>1, <2>2
<1>9. QED
  BY <1>2, <1>7, <1>8 DEF WorkKept

\* A handler begins.
LEMMA RepairerStarts ==
    ASSUME WorkBefore, NEW r \in Request, NEW n \in WorkReceived, NEW what,
           NEW to \in {"writeOrder", "writeStage", "readPart", "writePart", "deleteItem",
                       "countPhotos", "deletePhoto"},
           Step(r, "idle", to), Begin(r, n, what), UNCHANGED <<rowVars, workOrder>>,
           to = "writeStage" => what.status \in WorkStatus,
           to \in {"readPart", "writePart"} => what \in Part,
           to = "readPart" => what.product \in Product,
           to = "deleteItem" => what \in 1..Len(workOrder[n].contents.items)
    PROVE  WorkKept(r)
<1>0. DOMAIN pc = Request /\ DOMAIN repairing = Request /\ n \in WorkNumber
  BY RepairFacts
<1>1. PICK b : b = [number |-> n, what |-> what, seen |-> 0, labor |-> workOrder[n].contents.labor,
                    parts |-> workOrder[n].contents.parts, discount |-> workOrder[n].contents.discount]
  OBVIOUS
<1>2. DOMAIN b = HandlerFields /\ b.number = n /\ b.what = what
  BY <1>1 DEF HandlerFields
<1>3. repairing' = [repairing EXCEPT ![r] = b]
  BY <1>1 DEF Begin
<1>4. /\ repairing'[r] = b /\ DOMAIN repairing' = Request
      /\ \A q \in Request \ {r} : repairing'[q] = repairing[q]
  BY <1>0, <1>3
<1>5. pc[r] = "idle" /\ pc' = [pc EXCEPT ![r] = to] /\ pc'[r] = to /\ workOrder' = workOrder
  BY <1>0 DEF Step
<1>6. WorkReceived' = WorkReceived
  BY DEF WorkReceived
<1>7. RepairerAt(r)'
  BY <1>0, <1>2, <1>4, <1>5, <1>6 DEF RepairerAt
<1>8. RowsTypeOK' /\ StockNeverNegative'
  BY RowsKept DEF WorkBefore
<1>9. QED
  <2>1. to \in WorkLabel /\ to # "commitWorkOrder"
    BY DEF WorkLabel
  <2>2. QED
    BY <1>4, <1>5, <1>7, <1>8, <2>1, RepairerGoesOn

LEMMA StartWorkKeeps ==
    ASSUME WorkBefore, NEW r \in Request, NEW n \in WorkReceived, StartWork(r, n)
    PROVE  WorkKept(r)
<1>1. ASSUME NEW labor, NEW discount, StartUpdateOrder(r, n, labor, discount)
      PROVE  WorkKept(r)
  <2>1. PICK what : /\ Step(r, "idle", "writeOrder") /\ Begin(r, n, what)
                    /\ UNCHANGED <<rowVars, workOrder>>
    BY <1>1 DEF StartUpdateOrder
  <2>2. QED
    BY <2>1, RepairerStarts
<1>2. ASSUME NEW status \in WorkStatus, NEW deliver \in BOOLEAN, StartStage(r, n, status, deliver)
      PROVE  WorkKept(r)
  <2>1. PICK what : what = [status |-> status, deliver |-> deliver]
    OBVIOUS
  <2>2. /\ Step(r, "idle", "writeStage") /\ Begin(r, n, what)
        /\ UNCHANGED <<rowVars, workOrder>>
    BY <1>2, <2>1 DEF StartStage
  <2>3. what.status \in WorkStatus
    BY <2>1
  <2>4. QED
    BY <2>2, <2>3, RepairerStarts
<1>3. ASSUME NEW part \in Part, StartPart(r, n, part)
      PROVE  WorkKept(r)
  <2>1. PICK to : to = IF part.product = None THEN "writePart" ELSE "readPart"
    OBVIOUS
  <2>2. /\ Step(r, "idle", to) /\ Begin(r, n, part) /\ UNCHANGED <<rowVars, workOrder>>
    BY <1>3, <2>1 DEF StartPart
  <2>3. to \in {"writePart", "readPart"} /\ (to = "readPart" => part.product \in Product)
    BY <2>1, ServiceOrderAssumption
  <2>4. QED
    BY <2>2, <2>3, RepairerStarts
<1>4. ASSUME NEW i \in DOMAIN workOrder[n].contents.items, StartRemoveItem(r, n, i)
      PROVE  WorkKept(r)
  <2>1. /\ Step(r, "idle", "deleteItem") /\ Begin(r, n, i) /\ UNCHANGED <<rowVars, workOrder>>
    BY <1>4 DEF StartRemoveItem
  <2>2. workOrder[n].contents.items \in Seq(ItemRow)
    BY RepairFacts DEF RepairOK
  <2>3. i \in 1..Len(workOrder[n].contents.items)
    BY <2>2
  <2>4. QED
    BY <2>1, <2>3, RepairerStarts
<1>5. ASSUME NEW photos, StartPhotos(r, n, photos)
      PROVE  WorkKept(r)
  <2>1. /\ Step(r, "idle", "countPhotos") /\ Begin(r, n, photos) /\ UNCHANGED <<rowVars, workOrder>>
    BY <1>5 DEF StartPhotos
  <2>2. QED
    BY <2>1, RepairerStarts
<1>6. ASSUME StartDeletePhoto(r, n)
      PROVE  WorkKept(r)
  <2>1. /\ Step(r, "idle", "deletePhoto") /\ Begin(r, n, 1) /\ UNCHANGED <<rowVars, workOrder>>
    BY <1>6 DEF StartDeletePhoto
  <2>2. QED
    BY <2>1, RepairerStarts
<1>7. QED
  BY <1>1, <1>2, <1>3, <1>4, <1>5, <1>6 DEF StartWork

LEMMA WorkCount == Cardinality(WorkReceived) \in Nat
<1>1. MaxOrders \in Nat
  BY ServiceOrderAssumption
<1>2. IsFiniteSet(WorkNumber) /\ WorkReceived \subseteq WorkNumber
  BY <1>1, FS_Interval DEF WorkNumber, WorkReceived
<1>3. QED
  BY <1>2, FS_Subset, FS_CardinalityType

\* create, up to its commit
LEMMA StartOrderKeeps ==
    ASSUME WorkBefore, NEW r \in Request, NEW photos, StartWorkOrder(r, photos)
    PROVE  WorkKept(r)
<1>0. DOMAIN pc = Request /\ DOMAIN repairing = Request
  BY RepairFacts
<1>1. PICK c : c = Cardinality(WorkReceived)
  OBVIOUS
<1>2. c + 1 \in WorkNumber
  BY <1>1, WorkCount, ServiceOrderAssumption DEF StartWorkOrder, WorkNumber
<1>3. PICK b : b = [number |-> c + 1, what |-> photos, seen |-> 0, labor |-> 0, parts |-> 0,
                    discount |-> 0]
  OBVIOUS
<1>4. DOMAIN b = HandlerFields /\ b.number = c + 1
  BY <1>3 DEF HandlerFields
<1>5. repairing' = [repairing EXCEPT ![r] = b]
  BY <1>1, <1>3 DEF StartWorkOrder
<1>6. /\ repairing'[r] = b /\ DOMAIN repairing' = Request
      /\ \A q \in Request \ {r} : repairing'[q] = repairing[q]
  BY <1>0, <1>5
<1>7. /\ pc[r] = "idle" /\ pc' = [pc EXCEPT ![r] = "insertWorkOrder"] /\ workOrder' = workOrder
      /\ pc'[r] = "insertWorkOrder" /\ UNCHANGED rowVars
  BY <1>0 DEF Step, StartWorkOrder
<1>8. RepairerAt(r)'
  BY <1>2, <1>4, <1>6, <1>7 DEF RepairerAt, TakenLabel, EditLabel
<1>9. RowsTypeOK' /\ StockNeverNegative'
  BY <1>7, RowsKept DEF WorkBefore
<1>10. QED
  <2>1. "insertWorkOrder" \in WorkLabel
    BY DEF WorkLabel
  <2>2. QED
    BY <1>6, <1>7, <1>8, <1>9, <2>1, RepairerGoesOn

\* What a handler at work remembers.
LEMMA WorkingFacts ==
    ASSUME WorkBefore, NEW r \in Request, pc[r] \in WorkLabel,
           NEW b, b = repairing[r]
    PROVE  /\ DOMAIN b = HandlerFields /\ b.number \in WorkNumber
           /\ pc[r] \in TakenLabel => b.number \in WorkReceived
           /\ RepairOK(workOrder[b.number])
           /\ DOMAIN workOrder = WorkNumber /\ DOMAIN repairing = Request /\ DOMAIN pc = Request
  BY RepairFacts DEF RepairerAt

\* Statements that leave the order and what the handler knows alone.
LEMMA StatementsKeep ==
    ASSUME WorkBefore, NEW r \in Request,
           InsertWorkOrder(r) \/ WriteStage(r) \/ WritePart(r) \/ CountPhotos(r)
    PROVE  WorkKept(r)
<1>1. PICK from, to : /\ Step(r, from, to) /\ UNCHANGED <<rowVars, workVars>>
                      /\ <<from, to>> \in {<<"insertWorkOrder", "commitWorkOrder">>,
                                          <<"writeStage", "commitStage">>,
                                          <<"writePart", "commitPart">>,
                                          <<"countPhotos", "commitPhotos">>}
  BY DEF InsertWorkOrder, WriteStage, WritePart, CountPhotos
<1>2. PICK b : b = repairing[r]
  OBVIOUS
<1>3. /\ pc[r] = from /\ pc' = [pc EXCEPT ![r] = to] /\ workOrder' = workOrder
      /\ repairing' = repairing /\ from \in WorkLabel /\ to \in WorkLabel
  BY <1>1 DEF Step, workVars, WorkLabel
<1>4. /\ DOMAIN b = HandlerFields /\ b.number \in WorkNumber
      /\ pc[r] \in TakenLabel => b.number \in WorkReceived
      /\ DOMAIN repairing = Request /\ DOMAIN pc = Request
  BY <1>2, <1>3, WorkingFacts
<1>5. pc'[r] = to /\ WorkReceived' = WorkReceived
  BY <1>3, <1>4 DEF WorkReceived
<1>6. /\ to = "commitStage" => b.what.status \in WorkStatus
      /\ to = "commitPart" => b.what \in Part
      /\ to \in TakenLabel => pc[r] \in TakenLabel
  <2>1. RepairerAt(r)
    BY RepairFacts
  <2>2. QED
    BY <1>1, <1>2, <1>3, <2>1 DEF RepairerAt, TakenLabel, EditLabel
<1>7. to = "commitWorkOrder" =>
        /\ b.number \notin WorkReceived
        /\ \A q \in Request \ {r} :
             pc[q] = "commitWorkOrder" => b.number # repairing[q].number
  <2>1. to = "commitWorkOrder" => InsertWorkOrder(r)
    BY <1>1, <1>3, <1>4, <1>5 DEF InsertWorkOrder, WriteStage, WritePart, CountPhotos, Step
  <2>2. QED
    BY <1>2, <2>1 DEF InsertWorkOrder
<1>8. RepairerAt(r)'
  BY <1>1, <1>2, <1>3, <1>4, <1>5, <1>6, <1>7 DEF RepairerAt
<1>9. RowsTypeOK' /\ StockNeverNegative'
  BY <1>1, RowsKept DEF WorkBefore
<1>10. QED
  BY <1>2, <1>3, <1>4, <1>7, <1>8, <1>9, RepairerGoesOn

\* A handler that has answered keeps nothing.
LEMMA Answered ==
    ASSUME WorkBefore, NEW r \in Request, pc' = [pc EXCEPT ![r] = "idle"], Finish(r)
    PROVE  /\ RepairerAt(r)' /\ DOMAIN repairing' = Request
           /\ \A q \in Request \ {r} : repairing'[q] = repairing[q]
<1>1. DOMAIN pc = Request /\ DOMAIN repairing = Request
  BY RepairFacts
<1>2. pc'[r] = "idle"
  BY <1>1
<1>3. RepairerAt(r)'
  BY <1>2 DEF RepairerAt, TakenLabel, EditLabel, WorkLabel
<1>4. QED
  BY <1>1, <1>3 DEF Finish

LEMMA RollbackWorkKeeps ==
    ASSUME WorkBefore, NEW r \in Request, RollbackWork(r)
    PROVE  WorkKept(r)
<1>1. /\ pc[r] \in WorkLabel /\ pc' = [pc EXCEPT ![r] = "idle"] /\ Finish(r)
      /\ RollbackRows(r) /\ workOrder' = workOrder
  BY DEF RollbackWork
<1>2. RowsTypeOK' /\ StockNeverNegative'
  BY <1>1, RowsKept DEF WorkBefore
<1>3. QED
  BY <1>1, <1>2, Answered, RepairerGoesOn

\* create, its commit
LEMMA CommitOrderKeeps ==
    ASSUME WorkBefore, NEW r \in Request, CommitWorkOrder(r)
    PROVE  WorkKept(r)
<1>1. PICK n, photos : n = repairing[r].number /\ photos = repairing[r].what
  OBVIOUS
<1>2. PICK c : c = [NoContents EXCEPT !.photos = photos]
  OBVIOUS
<1>3. PICK w : w = [status |-> "RECEIVED", delivered |-> FALSE, contents |-> c]
  OBVIOUS
<1>4. /\ pc[r] = "commitWorkOrder" /\ pc' = [pc EXCEPT ![r] = "idle"] /\ Finish(r)
      /\ UNCHANGED rowVars /\ pc[r] \in WorkLabel
  BY DEF CommitWorkOrder, Step, WorkLabel
<1>5. workOrder' = [workOrder EXCEPT ![n] = w]
  BY <1>1, <1>2, <1>3, Zenon DEF CommitWorkOrder
<1>6. n \in WorkNumber /\ n \notin WorkReceived
  BY <1>1, <1>4, RepairFacts DEF RepairerAt
<1>7. \A q \in Request \ {r} : pc[q] = "commitWorkOrder" => repairing[q].number # n
  BY <1>1, <1>4 DEF WorkBefore, RepairInv, InsertApart
<1>8. DOMAIN c = {"labor", "parts", "discount", "total", "items", "photos"} /\ c.items = <<>>
  BY <1>2 DEF NoContents
<1>9. DOMAIN w = {"status", "delivered", "contents"} /\ w.status = "RECEIVED" /\ w.contents = c
  BY <1>3
<1>10. RepairOK(w)
  <2>1. <<>> \in Seq(ItemRow)
    OBVIOUS
  <2>2. QED
    BY <1>8, <1>9, <2>1 DEF RepairOK, WorkStatus
<1>11. RowsTypeOK' /\ StockNeverNegative'
  BY <1>4, RowsKept DEF WorkBefore
<1>12. \A p \in Product : UnitsFitted(w.contents.items, p) = 0
  BY <1>8, <1>9, FittedNothing
<1>13. QED
  BY <1>4, <1>5, <1>6, <1>7, <1>10, <1>11, <1>12, Answered, RepairerWrites

ContentFields == {"labor", "parts", "discount", "total", "items", "photos"}

\* Other costs or photos of one order; its items stay.
LEMMA CostsKeep ==
    ASSUME WorkBefore, NEW r \in Request, pc[r] \in EditLabel,
           pc' = [pc EXCEPT ![r] = "idle"], Finish(r), UNCHANGED rowVars,
           NEW n, n = repairing[r].number, NEW c,
           workOrder' = [workOrder EXCEPT ![n] = [workOrder[n] EXCEPT !.contents = c]],
           DOMAIN c = ContentFields, c.items = workOrder[n].contents.items
    PROVE  WorkKept(r)
<1>1. pc[r] \in WorkLabel /\ pc[r] \in TakenLabel
  BY DEF EditLabel, WorkLabel, TakenLabel
<1>2. n \in WorkReceived /\ n \in WorkNumber /\ RepairOK(workOrder[n])
  BY <1>1, WorkingFacts
<1>3. PICK v, w : v = workOrder[n] /\ w = [v EXCEPT !.contents = c]
  OBVIOUS
<1>4. /\ workOrder' = [workOrder EXCEPT ![n] = w] /\ DOMAIN w = DOMAIN v /\ w.status = v.status
      /\ w.contents = c
  BY <1>2, <1>3 DEF RepairOK
<1>5. RepairOK(w) /\ w.status # "NONE"
  BY <1>2, <1>3, <1>4 DEF RepairOK, ContentFields, WorkReceived
<1>6. Len(workOrder[n].contents.items) <= Len(w.contents.items)
  <2>1. PICK k : k = Len(c.items)
    OBVIOUS
  <2>2. k \in Nat
    BY <1>4, <1>5, <2>1 DEF RepairOK
  <2>3. QED
    BY <1>4, <2>1, <2>2
<1>7. \A p \in Product : UnitsFitted(w.contents.items, p) = UnitsFitted(workOrder[n].contents.items, p)
  BY <1>4
<1>8. RowsTypeOK' /\ StockNeverNegative'
  BY RowsKept DEF WorkBefore
<1>9. QED
  BY <1>1, <1>2, <1>4, <1>5, <1>6, <1>7, <1>8, Answered, RepairerWrites

\* update, removeItem after the item, addPhotos and deletePhoto
LEMMA ContentsKeep ==
    ASSUME WorkBefore, NEW r \in Request,
           WriteOrder(r) \/ WriteRemoved(r) \/ CommitPhotos(r) \/ DeletePhoto(r)
    PROVE  WorkKept(r)
<1>1. PICK n, c : n = repairing[r].number /\ c = workOrder[n].contents
  OBVIOUS
<1>2. /\ pc[r] \in EditLabel /\ pc[r] \in WorkLabel /\ pc' = [pc EXCEPT ![r] = "idle"]
      /\ Finish(r) /\ UNCHANGED rowVars
  BY DEF WriteOrder, WriteRemoved, CommitPhotos, DeletePhoto, Step, EditLabel, WorkLabel
<1>3. DOMAIN c = ContentFields
  BY <1>1, <1>2, WorkingFacts DEF RepairOK, ContentFields
<1>4. PICK new : /\ workOrder' = [workOrder EXCEPT ![n] = [workOrder[n] EXCEPT !.contents = new]]
                 /\ DOMAIN new = DOMAIN c /\ new.items = c.items
  <2>1. CASE WriteOrder(r)
    <3>1. PICK labor, discount, total :
            workOrder' = [workOrder EXCEPT ![n].contents =
              [c EXCEPT !.labor = labor, !.discount = discount, !.total = total]]
      BY <1>1, <2>1 DEF WriteOrder
    <3>2. PICK new : new = [c EXCEPT !.labor = labor, !.discount = discount, !.total = total]
      OBVIOUS
    <3>3. DOMAIN new = DOMAIN c /\ new.items = c.items
      BY <1>3, <3>2 DEF ContentFields
    <3>4. workOrder' = [workOrder EXCEPT ![n] = [workOrder[n] EXCEPT !.contents = new]]
      BY <3>1, <3>2
    <3>5. QED
      BY <3>3, <3>4
  <2>2. CASE WriteRemoved(r)
    <3>1. PICK parts, total :
            workOrder' = [workOrder EXCEPT ![n].contents = [c EXCEPT !.parts = parts, !.total = total]]
      BY <1>1, <2>2 DEF WriteRemoved
    <3>2. PICK new : new = [c EXCEPT !.parts = parts, !.total = total]
      OBVIOUS
    <3>3. DOMAIN new = DOMAIN c /\ new.items = c.items
      BY <1>3, <3>2 DEF ContentFields
    <3>4. workOrder' = [workOrder EXCEPT ![n] = [workOrder[n] EXCEPT !.contents = new]]
      BY <3>1, <3>2
    <3>5. QED
      BY <3>3, <3>4
  <2>3. CASE CommitPhotos(r) \/ DeletePhoto(r)
    <3>1. PICK photos :
            workOrder' = [workOrder EXCEPT ![n].contents.photos = photos]
      <4>1. CASE CommitPhotos(r)
        BY <1>1, <4>1 DEF CommitPhotos
      <4>2. CASE DeletePhoto(r)
        BY <1>1, <4>2 DEF DeletePhoto
      <4>3. QED
        BY <2>3, <4>1, <4>2
    <3>2. PICK new : new = [c EXCEPT !.photos = photos]
      OBVIOUS
    <3>3. DOMAIN new = DOMAIN c /\ new.items = c.items
      BY <1>3, <3>2 DEF ContentFields
    <3>4. workOrder' = [workOrder EXCEPT ![n] = [workOrder[n] EXCEPT !.contents = new]]
      BY <1>1, <3>1, <3>2
    <3>5. QED
      BY <3>3, <3>4
  <2>4. QED
    BY <2>1, <2>2, <2>3
<1>5. DOMAIN new = ContentFields /\ new.items = workOrder[n].contents.items
  BY <1>1, <1>3, <1>4
<1>6. QED
  BY <1>1, <1>2, <1>4, <1>5, CostsKeep

\* changeStatus and deliver
LEMMA StageKeeps ==
    ASSUME WorkBefore, NEW r \in Request, CommitStage(r) \/ WriteDelivered(r)
    PROVE  WorkKept(r)
<1>1. PICK b, n, v, d : b = repairing[r] /\ n = b.number /\ v = workOrder[n] /\ d = TRUE
  OBVIOUS
<1>2. pc[r] \in {"commitStage", "writeDelivered"} /\ UNCHANGED rowVars
  BY DEF CommitStage, WriteDelivered, Step
<1>3. pc[r] \in WorkLabel /\ pc[r] \in TakenLabel
  BY <1>2 DEF WorkLabel, TakenLabel, EditLabel
<1>4. /\ DOMAIN b = HandlerFields /\ n \in WorkNumber /\ n \in WorkReceived /\ RepairOK(v)
      /\ DOMAIN workOrder = WorkNumber /\ DOMAIN repairing = Request /\ DOMAIN pc = Request
  BY <1>1, <1>3, WorkingFacts
<1>5. PICK w : /\ workOrder' = [workOrder EXCEPT ![n] = w]
               /\ DOMAIN w = DOMAIN v /\ w.contents = v.contents /\ w.status \in WorkStatus
  <2>1. CASE CommitStage(r)
    <3>1. PICK s : s = b.what.status
      OBVIOUS
    <3>2. s \in WorkStatus
      BY <1>1, <2>1, <3>1, RepairFacts DEF RepairerAt, CommitStage
    <3>3. workOrder' = [workOrder EXCEPT ![n].status = s]
      BY <1>1, <2>1, <3>1, Zenon DEF CommitStage
    <3>4. PICK w : w = [v EXCEPT !.status = s]
      OBVIOUS
    <3>5. workOrder' = [workOrder EXCEPT ![n] = w]
      BY <1>1, <3>3, <3>4
    <3>6. DOMAIN w = DOMAIN v /\ w.contents = v.contents /\ w.status = s
      BY <1>4, <3>4 DEF RepairOK
    <3>7. QED
      BY <3>2, <3>5, <3>6
  <2>2. CASE WriteDelivered(r)
    <3>1. workOrder' = [workOrder EXCEPT ![n].delivered = d]
      BY <1>1, <2>2, Zenon DEF WriteDelivered
    <3>2. PICK w : w = [v EXCEPT !.delivered = d]
      OBVIOUS
    <3>3. workOrder' = [workOrder EXCEPT ![n] = w]
      BY <1>1, <3>1, <3>2
    <3>4. DOMAIN w = DOMAIN v /\ w.contents = v.contents /\ w.status = v.status
      BY <1>4, <3>2 DEF RepairOK
    <3>5. v.status \in WorkStatus
      BY <1>1, <1>4 DEF RepairOK, WorkReceived
    <3>6. QED
      BY <3>3, <3>4, <3>5
  <2>3. QED
    BY <2>1, <2>2
<1>6. RepairOK(w) /\ w.status # "NONE"
  BY <1>4, <1>5 DEF RepairOK, WorkStatus
<1>7. Len(workOrder[n].contents.items) <= Len(w.contents.items)
  <2>1. PICK k : k = Len(w.contents.items)
    OBVIOUS
  <2>2. k \in Nat
    BY <1>6, <2>1 DEF RepairOK
  <2>3. QED
    BY <1>1, <1>5, <2>1, <2>2
<1>8. \A p \in Product : UnitsFitted(w.contents.items, p) = UnitsFitted(workOrder[n].contents.items, p)
  BY <1>1, <1>5
<1>9. RowsTypeOK' /\ StockNeverNegative'
  BY <1>2, RowsKept DEF WorkBefore
<1>10. PICK to \in {"idle", "writeDelivered"} :
         /\ pc' = [pc EXCEPT ![r] = to]
         /\ IF to = "idle" THEN Finish(r) ELSE repairing' = repairing
  BY DEF CommitStage, WriteDelivered, Step
<1>11. to \in WorkLabel \cup {"idle"} /\ to # "commitWorkOrder"
  BY DEF WorkLabel
<1>12. /\ RepairerAt(r)' /\ DOMAIN repairing' = Request
       /\ \A q \in Request \ {r} : repairing'[q] = repairing[q]
  <2>1. CASE to = "idle"
    BY <1>10, <2>1, Answered
  <2>2. CASE to = "writeDelivered"
    <3>1. repairing' = repairing /\ pc'[r] = "writeDelivered"
      BY <1>4, <1>10, <2>2
    <3>2. n \in WorkReceived'
      BY <1>4, <1>5, <1>6 DEF WorkReceived
    <3>3. RepairerAt(r)'
      BY <1>1, <1>4, <3>1, <3>2 DEF RepairerAt
    <3>4. QED
      BY <1>4, <3>1, <3>3
  <2>3. QED
    BY <2>1, <2>2
<1>13. QED
  BY <1>3, <1>4, <1>5, <1>6, <1>7, <1>8, <1>9, <1>10, <1>11, <1>12, RepairerWrites

\* addItem, up to its commit
LEMMA PartKeeps ==
    ASSUME WorkBefore, NEW r \in Request, ReadPart(r) \/ StorePart(r)
    PROVE  WorkKept(r)
<1>1. PICK b, p : b = repairing[r] /\ p = b.what.product
  OBVIOUS
<1>2. pc[r] \in {"readPart", "storePart"} /\ workOrder' = workOrder
  BY DEF ReadPart, StorePart, Step, workVars
<1>3. pc[r] \in WorkLabel /\ pc[r] \in TakenLabel
  BY <1>2 DEF WorkLabel, TakenLabel, EditLabel
<1>4. /\ DOMAIN b = HandlerFields /\ b.number \in WorkNumber /\ b.number \in WorkReceived
      /\ DOMAIN repairing = Request /\ DOMAIN pc = Request
  BY <1>1, <1>3, WorkingFacts
<1>5. /\ b.what \in Part /\ p \in Product
      /\ pc[r] = "storePart" => b.seen \in Nat /\ b.seen >= b.what.quantity
  BY <1>1, <1>2, RepairFacts DEF RepairerAt
<1>6. b.what.quantity \in Nat
  BY <1>5, ServiceOrderAssumption
<1>7. WorkReceived' = WorkReceived
  BY <1>2 DEF WorkReceived
<1>8. CASE ReadPart(r)
  <2>1. PICK k : k = Visible(r, p)
    OBVIOUS
  <2>2. k \in Nat /\ k >= b.what.quantity
    BY <1>1, <1>5, <1>8, <2>1, VisibleNotNegative DEF ReadPart, WorkBefore
  <2>3. PICK c : c = [b EXCEPT !.seen = k]
    OBVIOUS
  <2>4. repairing' = [repairing EXCEPT ![r] = c]
    <3>1. repairing' = [repairing EXCEPT ![r].seen = k]
      BY <1>1, <1>8, <2>1 DEF ReadPart
    <3>2. QED
      BY <1>1, <2>3, <3>1
  <2>5. DOMAIN c = HandlerFields /\ c.number = b.number /\ c.what = b.what /\ c.seen = k
    BY <1>4, <2>3 DEF HandlerFields
  <2>6. /\ pc' = [pc EXCEPT ![r] = "storePart"] /\ pc'[r] = "storePart" /\ UNCHANGED rowVars
        /\ repairing'[r] = c /\ DOMAIN repairing' = Request
        /\ \A q \in Request \ {r} : repairing'[q] = repairing[q]
    BY <1>4, <1>8, <2>4 DEF ReadPart, Step
  <2>7. RepairerAt(r)'
    BY <1>1, <1>4, <1>5, <1>7, <2>2, <2>5, <2>6 DEF RepairerAt
  <2>8. RowsTypeOK' /\ StockNeverNegative'
    BY <2>6, RowsKept DEF WorkBefore
  <2>9. "storePart" \in WorkLabel
    BY DEF WorkLabel
  <2>10. QED
    BY <1>2, <1>3, <2>6, <2>7, <2>8, <2>9, RepairerGoesOn
<1>9. CASE StorePart(r)
  <2>1. PICK k, d : k = b.seen - b.what.quantity /\ d = -b.what.quantity
    OBVIOUS
  <2>2. k \in Nat /\ d \in Int
    BY <1>5, <1>6, <1>9, <2>1 DEF StorePart, Step
  <2>3. WriteStock(r, p, k, d)
    BY <1>1, <1>9, <2>1 DEF StorePart
  <2>4. RowsTypeOK' /\ StockNeverNegative'
    BY <1>5, <2>2, <2>3, RowWritten DEF WorkBefore
  <2>5. /\ pc' = [pc EXCEPT ![r] = "writePart"] /\ pc'[r] = "writePart" /\ repairing' = repairing
    BY <1>4, <1>9 DEF StorePart, Step, workVars
  <2>6. RepairerAt(r)'
    BY <1>1, <1>4, <1>5, <1>7, <2>5 DEF RepairerAt
  <2>7. "writePart" \in WorkLabel
    BY DEF WorkLabel
  <2>8. QED
    BY <1>2, <1>3, <1>4, <2>4, <2>5, <2>6, <2>7, RepairerGoesOn
<1>10. QED
  BY <1>8, <1>9

\* addItem, its commit
LEMMA CommitPartKeeps ==
    ASSUME WorkBefore, NEW r \in Request, CommitPart(r)
    PROVE  /\ WorkKept(r)
           /\ \A p \in Product : Fitted(p)' = Fitted(p) +
                IF p = repairing[r].what.product THEN repairing[r].what.quantity ELSE 0
<1>1. PICK b, n, v, c : b = repairing[r] /\ n = b.number /\ v = workOrder[n] /\ c = v.contents
  OBVIOUS
<1>2. /\ pc[r] = "commitPart" /\ pc' = [pc EXCEPT ![r] = "idle"] /\ CommitRows(r) /\ Finish(r)
      /\ pc[r] \in WorkLabel /\ pc[r] \in TakenLabel
  BY DEF CommitPart, Step, WorkLabel, TakenLabel, EditLabel
<1>3. /\ n \in WorkNumber /\ n \in WorkReceived /\ RepairOK(v)
      /\ DOMAIN workOrder = WorkNumber
  BY <1>1, <1>2, WorkingFacts
<1>4. PICK part, e : part = b.what /\ e = [part |-> part, kept |-> TRUE]
  OBVIOUS
<1>5. part \in Part /\ e \in ItemRow /\ e.part = part /\ part.quantity \in Nat
  <2>1. part \in Part
    BY <1>1, <1>2, <1>4, RepairFacts DEF RepairerAt
  <2>2. QED
    BY <1>4, <2>1, ServiceOrderAssumption DEF ItemRow
<1>6. PICK old, items : old = c.items /\ items = Append(old, e)
  OBVIOUS
<1>7. /\ old \in Seq(ItemRow) /\ items \in Seq(ItemRow)
      /\ \A p \in Product : UnitsFitted(items, p) =
           UnitsFitted(old, p) + IF part.product = p THEN part.quantity ELSE 0
  <2>1. old \in Seq(ItemRow)
    BY <1>1, <1>3, <1>6 DEF RepairOK
  <2>2. QED
    BY <1>5, <1>6, <2>1, FittedOneMore
<1>8. PICK parts, total : workOrder' = [workOrder EXCEPT ![n].contents =
        [c EXCEPT !.items = items, !.parts = parts, !.total = total]]
  <2>1. PICK parts, total : /\ parts = b.parts + Subtotal(b.what)
                            /\ total = CalculateTotal(b.labor, parts, b.discount)
    OBVIOUS
  <2>2. workOrder' = [workOrder EXCEPT ![n].contents =
          [c EXCEPT !.items = items, !.parts = parts, !.total = total]]
    BY <1>1, <1>4, <1>6, <2>1, Zenon DEF CommitPart
  <2>3. QED
    BY <2>2
<1>9. PICK new : new = [c EXCEPT !.items = items, !.parts = parts, !.total = total]
  OBVIOUS
<1>10. DOMAIN new = ContentFields /\ new.items = items
  BY <1>1, <1>3, <1>9 DEF RepairOK, ContentFields
<1>11. PICK w : w = [v EXCEPT !.contents = new]
  OBVIOUS
<1>12. /\ workOrder' = [workOrder EXCEPT ![n] = w] /\ DOMAIN w = DOMAIN v /\ w.status = v.status
       /\ w.contents = new
  BY <1>1, <1>3, <1>8, <1>9, <1>11 DEF RepairOK
<1>13. RepairOK(w) /\ w.status # "NONE"
  BY <1>1, <1>3, <1>7, <1>10, <1>12 DEF RepairOK, ContentFields, WorkReceived
<1>14. Len(workOrder[n].contents.items) <= Len(w.contents.items)
  <2>1. PICK k : k = Len(old)
    OBVIOUS
  <2>2. k \in Nat /\ Len(items) = k + 1
    BY <1>5, <1>6, <1>7, <2>1, AppendProperties
  <2>3. QED
    BY <1>1, <1>6, <1>10, <1>12, <2>1, <2>2
<1>15. RowsTypeOK' /\ StockNeverNegative'
  BY <1>2, RowsKept DEF WorkBefore
<1>16. WorkKept(r)
  BY <1>2, <1>3, <1>12, <1>13, <1>14, <1>15, Answered, RepairerWrites
<1>17. ASSUME NEW p \in Product
       PROVE  Fitted(p)' = Fitted(p) + IF p = part.product THEN part.quantity ELSE 0
  <2>1. PICK k : k = IF p = part.product THEN part.quantity ELSE 0
    OBVIOUS
  <2>2. k \in Int
    BY <1>5, <2>1
  <2>3. WorkReceived' = WorkReceived \cup {n}
    BY <1>3, <1>12, <1>13 DEF WorkReceived
  <2>4. \A m \in WorkReceived \ {n} : FittedOn(m, p)' = FittedOn(m, p)
    BY <1>3, <1>12 DEF FittedOn, WorkReceived
  <2>5. FittedOn(n, p)' = UnitsFitted(items, p) /\ FittedOn(n, p) = UnitsFitted(old, p)
    BY <1>1, <1>3, <1>6, <1>10, <1>12 DEF FittedOn
  <2>6. FittedOn(n, p)' = FittedOn(n, p) + k
    BY <1>7, <2>1, <2>5
  <2>7. Fitted(p)' = Fitted(p) + k
    BY <1>3, <2>2, <2>3, <2>4, <2>6, FittedMoves DEF WorkBefore
  <2>8. QED
    BY <2>1, <2>7
<1>18. QED
  BY <1>1, <1>4, <1>16, <1>17

\* removeItem, its first statement
LEMMA DeleteItemKeeps ==
    ASSUME WorkBefore, NEW r \in Request, DeleteItem(r)
    PROVE  WorkKept(r)
<1>1. PICK b, n, v, c, i, kept : /\ b = repairing[r] /\ n = b.number /\ v = workOrder[n]
                                 /\ c = v.contents /\ i = b.what /\ kept = FALSE
  OBVIOUS
<1>2. /\ pc[r] = "deleteItem" /\ pc' = [pc EXCEPT ![r] = "writeRemoved"] /\ repairing' = repairing
      /\ UNCHANGED rowVars /\ pc[r] \in WorkLabel /\ pc[r] \in TakenLabel
  BY DEF DeleteItem, Step, WorkLabel, TakenLabel, EditLabel
<1>3. /\ DOMAIN b = HandlerFields /\ n \in WorkNumber /\ n \in WorkReceived /\ RepairOK(v)
      /\ DOMAIN workOrder = WorkNumber /\ DOMAIN repairing = Request /\ DOMAIN pc = Request
  BY <1>1, <1>2, WorkingFacts
<1>4. PICK old : old = c.items
  OBVIOUS
<1>5. old \in Seq(ItemRow) /\ i \in 1..Len(old)
  <2>1. RepairerAt(r)
    BY RepairFacts
  <2>2. QED
    BY <1>1, <1>2, <1>3, <1>4, <2>1 DEF RepairerAt, RepairOK
<1>6. PICK row : row = [old[i] EXCEPT !.kept = kept]
  OBVIOUS
<1>7. PICK less : less = [old EXCEPT ![i] = row]
  OBVIOUS
<1>8. PICK new : new = [c EXCEPT !.items = less]
  OBVIOUS
<1>9. PICK w : w = [v EXCEPT !.contents = new]
  OBVIOUS
<1>10. workOrder' = [workOrder EXCEPT ![n] = w]
  <2>1. workOrder' = [workOrder EXCEPT ![n].contents.items[i].kept = kept]
    BY <1>1, Zenon DEF DeleteItem
  <2>2. QED
    BY <1>1, <1>4, <1>6, <1>7, <1>8, <1>9, <2>1
<1>11. row \in ItemRow /\ row.part = old[i].part
  <2>1. old[i] \in ItemRow
    BY <1>5, ElementOfSeq
  <2>2. kept \in BOOLEAN
    BY <1>1
  <2>3. QED
    BY <1>6, <2>1, <2>2 DEF ItemRow
<1>12. less \in Seq(ItemRow) /\ Len(less) = Len(old) /\ DOMAIN less = DOMAIN old
  BY <1>5, <1>7, <1>11
<1>13. \A k \in DOMAIN old : less[k].part = old[k].part
  BY <1>5, <1>7, <1>11
<1>14. DOMAIN new = ContentFields /\ new.items = less
  BY <1>1, <1>3, <1>8 DEF RepairOK, ContentFields
<1>15. DOMAIN w = DOMAIN v /\ w.status = v.status /\ w.contents = new
  BY <1>3, <1>9 DEF RepairOK
<1>16. RepairOK(w) /\ w.status # "NONE"
  BY <1>1, <1>3, <1>12, <1>14, <1>15 DEF RepairOK, ContentFields, WorkReceived
<1>17. Len(workOrder[n].contents.items) <= Len(w.contents.items)
  <2>1. PICK k : k = Len(old)
    OBVIOUS
  <2>2. k \in Nat
    BY <1>5, <2>1
  <2>3. QED
    BY <1>1, <1>4, <1>12, <1>14, <1>15, <2>1, <2>2
<1>18. \A p \in Product : UnitsFitted(w.contents.items, p) = UnitsFitted(workOrder[n].contents.items, p)
  <2>1. \A p \in Product : UnitsFitted(less, p) = UnitsFitted(old, p)
    BY <1>12, <1>13, FittedSame
  <2>2. w.contents.items = less /\ workOrder[n].contents.items = old
    BY <1>1, <1>4, <1>14, <1>15
  <2>3. QED
    BY <2>1, <2>2
<1>19. RepairerAt(r)'
  <2>1. /\ pc'[r] = "writeRemoved" /\ repairing'[r] = b /\ n \in WorkReceived'
        /\ workOrder'[n].contents.items = less
    BY <1>1, <1>2, <1>3, <1>10, <1>14, <1>15, <1>16 DEF WorkReceived
  <2>2. i \in 1..Len(less)
    BY <1>5, <1>12
  <2>3. QED
    BY <1>1, <1>3, <2>1, <2>2 DEF RepairerAt
<1>20. RowsTypeOK' /\ StockNeverNegative'
  BY <1>2, RowsKept DEF WorkBefore
<1>21. QED
  <2>1. "writeRemoved" \in WorkLabel
    BY DEF WorkLabel
  <2>2. DOMAIN repairing' = Request /\ \A q \in Request \ {r} : repairing'[q] = repairing[q]
    BY <1>2, <1>3
  <2>3. QED
    BY <1>2, <1>3, <1>10, <1>16, <1>17, <1>18, <1>19, <1>20, <2>1, <2>2, RepairerWrites

\* A step of the service orders leaves an order as it should be.
LEMMA WorkKeeps ==
    ASSUME WorkBefore, WorkNext
    PROVE  \E r \in Request : WorkKept(r)
<1>1. PICK r \in Request :
        \/ \E photos \in Photos \cup {0} : StartWorkOrder(r, photos)
        \/ \E n \in WorkReceived : StartWork(r, n)
        \/ WorkStep(r)
        \/ RollbackWork(r)
  BY DEF WorkNext
<1>2. CASE WorkStep(r)
  BY <1>2, StatementsKeep, CommitOrderKeeps, ContentsKeep, StageKeeps, PartKeeps, CommitPartKeeps,
     DeleteItemKeeps DEF WorkStep
<1>3. QED
  BY <1>1, <1>2, StartOrderKeeps, StartWorkKeeps, RollbackWorkKeeps

-----------------------------------------------------------------------------
(* The shop: every component at once *)

ShopInv == TypeInv /\ CodesInv /\ StockInv /\ QuickInv /\ BuyInv /\ RepairInv

LEMMA InitShop == ShopInit => ShopInv
<1> SUFFICES ASSUME ShopInit PROVE ShopInv
  OBVIOUS
<1>1. Init /\ PurchasesInit /\ WorkInit /\ QuickInit
  BY DEF ShopInit
<1>2. TypeInv /\ CodesInv /\ StockInv
  <2>1. StockInv
    BY <1>1, ProductAssumption DEF Init, RowsInit, StockInv, StockNeverNegative, SeenNotNegative
  <2>2. QED
    BY <1>1, <2>1, InitTypeInv, InitCodesInv
<1>3. \A r \in Request : pc[r] = "idle"
  BY <1>1 DEF Init
<1>4. QuickInv
  BY <1>1, <1>3 DEF QuickInit, QuickInv, ServingAt, QuickLabel
<1>5. BuyInv
  <2>1. \A r \in Request : BuyerAt(r) /\ ~HasInsertedPurchase(r)
    BY <1>3 DEF BuyerAt, HasInsertedPurchase, PurchaseLabel, ReceiveLabel
  <2>2. QED
    BY <1>1, <2>1 DEF PurchasesInit, BuyInv, BuyersApart
<1>6. RepairInv
  <2>1. \A r \in Request : RepairerAt(r)
    BY <1>3 DEF RepairerAt, WorkLabel, TakenLabel, EditLabel
  <2>2. RepairOK(NoWorkOrder)
    <3>1. <<>> \in Seq(ItemRow)
      OBVIOUS
    <3>2. QED
      BY <3>1 DEF RepairOK, NoWorkOrder, NoContents
  <2>3. \A n \in WorkNumber : RepairOK(workOrder[n])
    BY <1>1, <2>2 DEF WorkInit
  <2>4. DOMAIN workOrder = WorkNumber /\ DOMAIN repairing = Request
    BY <1>1 DEF WorkInit
  <2>5. \A q, r \in Request : q # r => InsertApart(q, r)
    BY <1>3 DEF InsertApart
  <2>6. QED
    BY <2>1, <2>3, <2>4, <2>5 DEF RepairInv
<1>7. QED
  BY <1>2, <1>4, <1>5, <1>6 DEF ShopInv

\* Every step of every component keeps the invariants of all.
LEMMA NextShop == ShopInv /\ [ShopNext]_shopVars => ShopInv'
<1> SUFFICES ASSUME ShopInv, [ShopNext]_shopVars PROVE ShopInv'
  OBVIOUS
<1>1. TypeInv /\ CodesInv /\ StockInv /\ QuickInv /\ BuyInv /\ RepairInv /\ StockNeverNegative
  BY DEF ShopInv, StockInv
<1>2. CASE Next /\ UNCHANGED <<purchaseVars, workVars, quickVars>>
  <2>1. PICK r \in Request : /\ pc'[r] \in SaleLabel \cup {"idle"}
                             /\ \A q \in Request \ {r} : pc'[q] = pc[q]
    BY <1>1, <1>2, SaleLabels
  <2>2. pc'[r] \notin QuickLabel \cup PurchaseLabel \cup WorkLabel
    <3>1. "idle" \notin OtherLabel /\ SaleLabel \cap OtherLabel = {}
      BY LabelsApart
    <3>2. QED
      BY <2>1, <3>1 DEF OtherLabel
  <2>3. TypeInv' /\ CodesInv' /\ StockInv'
    BY <1>1, <1>2, NextTypeInv, NextCodesInv, NextStockInv
  <2>4. QuickInv' /\ BuyInv' /\ RepairInv'
    BY <1>1, <1>2, <2>1, <2>2, QuickStays, BuyStays, RepairStays
  <2>5. QED
    BY <2>3, <2>4 DEF ShopInv
<1>3. CASE PurchasesNext /\ UNCHANGED <<saleVars, workVars, quickVars>>
  <2>1. PICK r \in Request : BuyKept(r)
    BY <1>1, <1>3, BuyKeeps DEF BuyBefore
  <2>2. /\ BuyInv' /\ RowsTypeOK' /\ CashBookTypeOK' /\ StockNeverNegative'
        /\ OneSlot(r, PurchaseLabel) /\ \A q \in Request \ {r} : till'[q] = till[q]
    BY <2>1 DEF BuyKept
  <2>3. /\ OneSlot(r, OtherLabel) /\ pc'[r] \notin QuickLabel \cup WorkLabel
        /\ \A q \in Request \ {r} : pc'[q] = pc[q]
    BY <2>2, LabelsApart DEF OneSlot, OtherLabel
  <2>4. TypeInv' /\ CodesInv' /\ StockInv'
    BY <1>1, <1>3, <2>2, <2>3, SalesStay
  <2>5. QuickInv' /\ RepairInv'
    BY <1>1, <1>3, <2>3, QuickStays, RepairStays
  <2>6. QED
    BY <2>2, <2>4, <2>5 DEF ShopInv
<1>4. CASE WorkNext /\ UNCHANGED <<cashVars, saleVars, purchaseVars, quickVars>>
  <2>1. PICK r \in Request : WorkKept(r)
    BY <1>1, <1>4, WorkKeeps DEF WorkBefore
  <2>2. RepairInv' /\ RowsTypeOK' /\ StockNeverNegative' /\ OneSlot(r, WorkLabel)
    BY <2>1 DEF WorkKept
  <2>3. /\ OneSlot(r, OtherLabel) /\ pc'[r] \notin QuickLabel \cup PurchaseLabel
        /\ \A q \in Request \ {r} : pc'[q] = pc[q]
    BY <2>2, LabelsApart DEF OneSlot, OtherLabel
  <2>4. CashBookTypeOK' /\ \A q \in Request \ {r} : till'[q] = till[q]
    BY <1>1, <1>4, SameCashType DEF TypeInv, TypeOK, cashVars
  <2>5. TypeInv' /\ CodesInv' /\ StockInv'
    BY <1>1, <1>4, <2>2, <2>3, <2>4, SalesStay
  <2>6. QuickInv' /\ BuyInv'
    BY <1>1, <1>4, <2>3, QuickStays, BuyStays
  <2>7. QED
    BY <2>2, <2>5, <2>6 DEF ShopInv
<1>5. CASE QuickNext /\ UNCHANGED <<rowVars, saleVars, purchaseVars, workVars>>
  <2>1. PICK r \in Request : QuickKept(r)
    BY <1>1, <1>5, QuickKeeps
  <2>2. /\ QuickInv' /\ CashBookTypeOK' /\ OneSlot(r, QuickLabel)
        /\ \A q \in Request \ {r} : till'[q] = till[q]
    BY <2>1 DEF QuickKept
  <2>3. /\ OneSlot(r, OtherLabel) /\ pc'[r] \notin WorkLabel \cup PurchaseLabel
        /\ \A q \in Request \ {r} : pc'[q] = pc[q]
    BY <2>2, LabelsApart DEF OneSlot, OtherLabel
  <2>4. RowsTypeOK' /\ StockNeverNegative'
    BY <1>1, <1>5, RowsKept
  <2>5. TypeInv' /\ CodesInv' /\ StockInv'
    BY <1>1, <1>5, <2>2, <2>3, <2>4, SalesStay
  <2>6. BuyInv' /\ RepairInv'
    BY <1>1, <1>5, <2>3, BuyStays, RepairStays
  <2>7. QED
    BY <2>2, <2>5, <2>6 DEF ShopInv
<1>6. CASE UNCHANGED shopVars
  <2>1. /\ UNCHANGED <<vars, purchaseVars, workVars, quickVars>>
        /\ pc' = pc
    BY <1>6 DEF shopVars, vars
  <2>2. TypeInv' /\ CodesInv' /\ StockInv'
    BY <1>1, <2>1, NextTypeInv, NextCodesInv, NextStockInv
  <2>3. QuickInv'
    BY <1>1, <2>1 DEF QuickInv, ServingAt, quickVars, Served
  <2>4. BuyInv'
    BY <1>1, <2>1 DEF BuyInv, BuyerAt, BuyersApart, Receives, HasInsertedPurchase, purchaseVars, Ordered
  <2>5. RepairInv'
    BY <1>1, <2>1 DEF RepairInv, RepairerAt, InsertApart, workVars, WorkReceived
  <2>6. QED
    BY <2>2, <2>3, <2>4, <2>5 DEF ShopInv
<1>7. QED
  BY <1>2, <1>3, <1>4, <1>5, <1>6 DEF ShopNext

LEMMA ShopKeepsInvariant == ShopSpec => []ShopInv
<1>1. QED
  BY InitShop, NextShop, PTL DEF ShopSpec

\* Whatever sales, cancellations, purchases, service orders and quick services
\* run at once, no stock goes below zero.
THEOREM ShopStockNeverNegative == ShopSpec => []StockNeverNegative
<1>1. ShopInv => StockNeverNegative
  BY DEF ShopInv, StockInv
<1>2. QED
  BY <1>1, ShopKeepsInvariant, PTL

\* However receptions race, no item of a purchase counts more units than were
\* ordered, or more than have come in.
THEOREM ShopReceivedHasArrived == ShopSpec => []ReceivedHasArrived
<1>1. ShopInv => ReceivedHasArrived
  <2> SUFFICES ASSUME ShopInv, NEW n \in Ordered, NEW i \in DOMAIN purchase[n].received
               PROVE  /\ purchase[n].received[i] \in 0..purchase[n].supply.items[i].quantity
                      /\ purchase[n].received[i] <= purchase[n].arrived[i]
    BY DEF ReceivedHasArrived
  <2>1. PurchaseOK(purchase[n])
    BY DEF ShopInv, BuyInv, Ordered, NoPurchase
  <2>2. QED
    BY <2>1 DEF PurchaseOK
<1>2. QED
  BY <1>1, ShopKeepsInvariant, PTL

\* The codes V-000001, V-000002, ... stay without gap or repetition, whatever
\* else the shop does.
THEOREM ShopCodesAreConsecutive == ShopSpec => []CodesAreConsecutive
<1>1. ShopInv => CodesAreConsecutive
  BY DEF ShopInv, CodesInv
<1>2. QED
  BY <1>1, ShopKeepsInvariant, PTL

-----------------------------------------------------------------------------
(* The movements that a handler has written and not yet committed *)

\* A cancellation puts back the order of the sale it read.
ReturnsAt(r) == pc[r] \in CancelLabel => sale[number[r]].order = order[r]

\* What the sale, or the cancellation, of r has moved of p.
SoldBy(r, p) ==
    IF pc[r] \in {"decrement", "collect", "commitSale"} THEN -taken[order[r]][Done(r)][p]
    ELSE IF pc[r] \in {"readStock", "restock"} THEN taken[order[r]][at[r] - 1][p]
    ELSE taken[order[r]][Len(order[r].items)][p]

\* What the local variables b of a reception say it has stored of p.
StoredOf(b, p, n) ==
    \/ \E i \in StoredBy(b) : b.supply.items[i].product = p /\ n = b.due[i]
    \/ n = 0 /\ \A i \in StoredBy(b) : b.supply.items[i].product # p

\* What the handler of an order has taken of p for the part b.what.
TakenFor(b, p) == IF p = b.what.product THEN -b.what.quantity ELSE 0

SellsLabel == {"decrement", "collect", "commitSale"} \cup CancelLabel
TakesLabel == {"writePart", "commitPart"}

MovedAt(r) ==
    \A p \in Product :
        /\ pc[r] \in SellsLabel => moved[r][p] = SoldBy(r, p)
        /\ pc[r] \in ReceiveLabel => StoredOf(purchasing[r], p, moved[r][p])
        /\ pc[r] \in TakesLabel => moved[r][p] = TakenFor(repairing[r], p)
        /\ pc[r] \notin SellsLabel \cup ReceiveLabel \cup TakesLabel => moved[r][p] = 0

KardexInv ==
    /\ KardexMatchesDocuments
    /\ \A r \in Request : ReturnsAt(r) /\ MovedAt(r)

\* The local variables of the other handlers, and their movements.
OthersStay(r) ==
    \A q \in Request \ {r} :
        /\ pc'[q] = pc[q] /\ moved'[q] = moved[q]
        /\ order'[q] = order[q] /\ at'[q] = at[q] /\ number'[q] = number[q]
        /\ purchasing'[q] = purchasing[q] /\ repairing'[q] = repairing[q]

LEMMA MovementsStay ==
    ASSUME TypeInv, KardexInv, NEW r \in Request, OthersStay(r),
           \A n \in Registered : sale'[n].order = sale[n].order,
           ReturnsAt(r)', MovedAt(r)', KardexMatchesDocuments'
    PROVE  KardexInv'
<1>1. ASSUME NEW q \in Request \ {r}
      PROVE  ReturnsAt(q)' /\ MovedAt(q)'
  <2>1. ReturnsAt(q) /\ MovedAt(q) /\ LocalAt(q)
    BY DEF KardexInv, TypeInv, LocalOK
  <2>2. /\ pc'[q] = pc[q] /\ moved'[q] = moved[q]
        /\ order'[q] = order[q] /\ at'[q] = at[q] /\ number'[q] = number[q]
        /\ purchasing'[q] = purchasing[q] /\ repairing'[q] = repairing[q]
    BY DEF OthersStay
  <2>3. ReturnsAt(q)'
    <3>1. CASE pc[q] \in CancelLabel
      <4>1. number[q] \in Registered
        BY <2>1, <3>1 DEF LocalAt
      <4>2. QED
        BY <2>1, <2>2, <3>1, <4>1 DEF ReturnsAt
    <3>2. QED
      BY <2>2, <3>1 DEF ReturnsAt
  <2>4. \A p \in Product : SoldBy(q, p)' = SoldBy(q, p)
    BY <2>2 DEF SoldBy, Done
  <2>5. MovedAt(q)'
    BY <2>1, <2>2, <2>4 DEF MovedAt
  <2>6. QED
    BY <2>3, <2>5
<1>2. QED
  BY <1>1 DEF KardexInv

\* What the statements of ProductRows do to the movements of r.
LEMMA RowsMove ==
    ASSUME RowsTypeOK, NEW r \in Request
    PROVE  /\ UNCHANGED rowVars => kardex' = kardex /\ moved' = moved
           /\ \A p \in Product : \A value, delta : WriteStock(r, p, value, delta) =>
                /\ kardex' = kardex
                /\ \A x \in Product : moved'[r][x] = IF x = p THEN moved[r][x] + delta ELSE moved[r][x]
                /\ \A q \in Request \ {r} : moved'[q] = moved[q]
           /\ CommitRows(r) =>
                /\ \A p \in Product : kardex'[p] = kardex[p] + moved[r][p] /\ moved'[r][p] = 0
                /\ \A q \in Request \ {r} : moved'[q] = moved[q]
           /\ RollbackRows(r) =>
                /\ kardex' = kardex
                /\ \A p \in Product : moved'[r][p] = 0
                /\ \A q \in Request \ {r} : moved'[q] = moved[q]
<1>1. moved \in [Request -> [Product -> Int]] /\ kardex \in [Product -> Int]
  BY DEF RowsTypeOK
<1>2. UNCHANGED rowVars => kardex' = kardex /\ moved' = moved
  BY DEF rowVars
<1>3. ASSUME NEW p \in Product, NEW value, NEW delta, WriteStock(r, p, value, delta)
      PROVE  /\ kardex' = kardex
             /\ \A x \in Product : moved'[r][x] = IF x = p THEN moved[r][x] + delta ELSE moved[r][x]
             /\ \A q \in Request \ {r} : moved'[q] = moved[q]
  BY <1>1, <1>3 DEF WriteStock
<1>4. ASSUME CommitRows(r)
      PROVE  /\ \A p \in Product : kardex'[p] = kardex[p] + moved[r][p] /\ moved'[r][p] = 0
             /\ \A q \in Request \ {r} : moved'[q] = moved[q]
  BY <1>1, <1>4 DEF CommitRows, NoMoves
<1>5. ASSUME RollbackRows(r)
      PROVE  /\ kardex' = kardex
             /\ \A p \in Product : moved'[r][p] = 0
             /\ \A q \in Request \ {r} : moved'[q] = moved[q]
  BY <1>1, <1>5 DEF RollbackRows, NoMoves
<1>6. QED
  BY <1>2, <1>3, <1>4, <1>5

\* The three groups of labels, and those of the handlers they belong to.
LEMMA MovesLabels ==
    /\ SellsLabel \subseteq SaleLabel /\ ReceiveLabel \subseteq PurchaseLabel
    /\ TakesLabel \subseteq WorkLabel /\ CancelLabel \subseteq SaleLabel
    /\ SaleLabel \cap PurchaseLabel = {} /\ SaleLabel \cap WorkLabel = {}
    /\ SaleLabel \cap QuickLabel = {}
    /\ PurchaseLabel \cap WorkLabel = {} /\ PurchaseLabel \cap QuickLabel = {}
    /\ WorkLabel \cap QuickLabel = {}
    /\ "idle" \notin SaleLabel \cup PurchaseLabel \cup WorkLabel \cup QuickLabel
<1>1. SellsLabel \subseteq SaleLabel /\ CancelLabel \subseteq SaleLabel
  BY DEF SellsLabel, SaleLabel, CreateLabel, CancelLabel
<1>2. ReceiveLabel \subseteq PurchaseLabel
  BY DEF ReceiveLabel, PurchaseLabel
<1>3. TakesLabel \subseteq WorkLabel
  BY DEF TakesLabel, WorkLabel
<1>4. QED
  BY <1>1, <1>2, <1>3, LabelsApart DEF OtherLabel

\* A handler that has written nothing.
LEMMA NothingMoved ==
    ASSUME NEW r \in Request, pc'[r] \notin SellsLabel \cup ReceiveLabel \cup TakesLabel,
           \A p \in Product : moved'[r][p] = 0
    PROVE  ReturnsAt(r)' /\ MovedAt(r)'
  BY DEF ReturnsAt, MovedAt, SellsLabel

LEMMA DocumentsStay ==
    /\ UNCHANGED sale => \A p \in Product : Back(p)' = Back(p)
    /\ UNCHANGED purchase => \A p \in Product : Arrived(p)' = Arrived(p)
    /\ UNCHANGED workOrder => \A p \in Product : Fitted(p)' = Fitted(p)
<1>1. UNCHANGED sale => \A p \in Product : Back(p)' = Back(p)
  BY DEF Back, Returned, Registered
<1>2. UNCHANGED purchase => \A p \in Product : Arrived(p)' = Arrived(p)
  BY DEF Arrived, ArrivedWith, Ordered
<1>3. UNCHANGED workOrder => \A p \in Product : Fitted(p)' = Fitted(p)
  BY DEF Fitted, FittedOn, WorkReceived
<1>4. QED
  BY <1>1, <1>2, <1>3

LEMMA ReturnedIsInt ==
    ASSUME TypeInv, NEW n \in Registered, NEW p \in Product
    PROVE  Returned(n, p) \in Int
<1>1. sale[n] \in SaleRow
  BY DEF TypeInv, TypeOK, Registered, NoSale
<1>2. sale[n].order \in Order /\ sale[n].cancellations \in Nat
  BY <1>1 DEF SaleRow
<1>3. PICK u : u = UnitsOf(sale[n].order.items, p)
  OBVIOUS
<1>4. u \in Nat
  BY <1>2, <1>3, TakenIsUnits
<1>5. QED
  BY <1>2, <1>3, <1>4 DEF Returned

LEMMA DocumentsAreInt ==
    ASSUME TypeInv, BuyInv, RepairInv, NEW p \in Product
    PROVE  Back(p) \in Int /\ Arrived(p) \in Int /\ Fitted(p) \in Int
<1>1. Back(p) \in Int
  <2>1. PICK f : f = [n \in Registered |-> Returned(n, p)]
    OBVIOUS
  <2>2. \A n \in Registered : f[n] \in Int
    BY <2>1, ReturnedIsInt
  <2>3. SumFunctionOnSet(f, Registered) \in Int
    BY <2>2, RegisteredFinite, SumInt
  <2>4. QED
    BY <2>1, <2>3 DEF Back
<1>2. Arrived(p) \in Int
  <2>1. PICK f : f = [n \in Ordered |-> ArrivedWith(n, p)]
    OBVIOUS
  <2>2. \A n \in Ordered : f[n] \in Int
    BY <2>1, ArrivedIsInt
  <2>3. SumFunctionOnSet(f, Ordered) \in Int
    BY <2>2, OrderedFinite, SumInt
  <2>4. QED
    BY <2>1, <2>3 DEF Arrived
<1>3. QED
  BY <1>1, <1>2, FittedIsInt

\* The movements a step commits are those of the document it commits.
LEMMA KardexBalances ==
    ASSUME TypeInv, BuyInv, RepairInv, KardexInv,
           \A p \in Product : \E v \in Int :
             /\ kardex'[p] = kardex[p] + v
             /\ \/ Back(p)' = Back(p) + v /\ Arrived(p)' = Arrived(p) /\ Fitted(p)' = Fitted(p)
                \/ Back(p)' = Back(p) /\ Arrived(p)' = Arrived(p) + v /\ Fitted(p)' = Fitted(p)
                \/ Back(p)' = Back(p) /\ Arrived(p)' = Arrived(p) /\ Fitted(p)' = Fitted(p) - v
    PROVE  KardexMatchesDocuments'
<1> SUFFICES ASSUME NEW p \in Product
             PROVE  kardex'[p] = Back(p)' + Arrived(p)' - Fitted(p)'
  BY DEF KardexMatchesDocuments
<1>1. PICK a, b, c, k : a = Back(p) /\ b = Arrived(p) /\ c = Fitted(p) /\ k = kardex[p]
  OBVIOUS
<1>2. a \in Int /\ b \in Int /\ c \in Int /\ k = a + b - c
  BY <1>1, DocumentsAreInt DEF KardexInv, KardexMatchesDocuments
<1>3. PICK v \in Int :
        /\ kardex'[p] = k + v
        /\ \/ Back(p)' = a + v /\ Arrived(p)' = b /\ Fitted(p)' = c
           \/ Back(p)' = a /\ Arrived(p)' = b + v /\ Fitted(p)' = c
           \/ Back(p)' = a /\ Arrived(p)' = b /\ Fitted(p)' = c - v
  BY <1>1
<1>4. QED
  BY <1>2, <1>3

LEMMA KardexStays ==
    ASSUME KardexInv, kardex' = kardex, UNCHANGED <<sale, purchase, workOrder>>
    PROVE  KardexMatchesDocuments'
  BY DocumentsStay DEF KardexInv, KardexMatchesDocuments

-----------------------------------------------------------------------------
(* Service orders *)

\* What a step of a service order must do to the movements.
WorkMoved(r) ==
    /\ MovedAt(r)'
    /\ \A q \in Request \ {r} : moved'[q] = moved[q]
    /\ \A p \in Product : \E v \in Int : kardex'[p] = kardex[p] + v /\ Fitted(p)' = Fitted(p) - v

LEMMA WorkZero ==
    ASSUME WorkBefore, KardexInv, NEW r \in Request, pc[r] \in (WorkLabel \ TakesLabel) \cup {"idle"}
    PROVE  \A p \in Product : moved[r][p] = 0
<1>1. pc[r] \notin SellsLabel \cup ReceiveLabel \cup TakesLabel
  BY MovesLabels
<1>2. QED
  BY <1>1 DEF KardexInv, MovedAt

LEMMA NothingFitted ==
    ASSUME WorkBefore, kardex' = kardex, \A p \in Product : Fitted(p)' = Fitted(p)
    PROVE  \A p \in Product : \E v \in Int : kardex'[p] = kardex[p] + v /\ Fitted(p)' = Fitted(p) - v
<1> SUFFICES ASSUME NEW p \in Product
             PROVE  kardex'[p] = kardex[p] + 0 /\ Fitted(p)' = Fitted(p) - 0
  OBVIOUS
<1>1. kardex[p] \in Int /\ Fitted(p) \in Int
  BY FittedIsInt DEF WorkBefore, TypeInv, TypeOK, RowsTypeOK
<1>2. QED
  BY <1>1

\* A step that writes no row of a product, outside addItem or before it.
LEMMA WorkQuiet ==
    ASSUME WorkBefore, KardexInv, NEW r \in Request, WorkKept(r), ~CommitPart(r),
           pc[r] \in (WorkLabel \ TakesLabel) \cup {"idle"}, pc'[r] \notin TakesLabel,
           UNCHANGED rowVars \/ RollbackRows(r)
    PROVE  WorkMoved(r)
<1>1. RowsTypeOK /\ kardex \in [Product -> Int]
  BY DEF WorkBefore, TypeInv, TypeOK, RowsTypeOK
<1>2. \A p \in Product : moved[r][p] = 0
  BY WorkZero
<1>3. /\ kardex' = kardex /\ \A p \in Product : moved'[r][p] = 0
      /\ \A q \in Request \ {r} : moved'[q] = moved[q]
  BY <1>1, <1>2, RowsMove
<1>4. pc'[r] \notin SellsLabel \cup ReceiveLabel \cup TakesLabel
  BY MovesLabels DEF WorkKept, OneSlot
<1>5. MovedAt(r)'
  BY <1>3, <1>4, NothingMoved
<1>6. \A p \in Product : \E v \in Int : kardex'[p] = kardex[p] + v /\ Fitted(p)' = Fitted(p) - v
  BY <1>1, <1>3, NothingFitted DEF WorkKept
<1>7. QED
  BY <1>3, <1>5, <1>6 DEF WorkMoved

\* The statements of addItem that take the part, or say there is none to take.
LEMMA WorkTakes ==
    ASSUME WorkBefore, KardexInv, NEW r \in Request, WorkKept(r),
           \/ \E n \in WorkReceived, part \in Part :
                StartPart(r, n, part) /\ part.product = None
           \/ StorePart(r) \/ WritePart(r)
    PROVE  WorkMoved(r)
<1> USE DEF Step
<1>0. /\ RowsTypeOK /\ kardex \in [Product -> Int] /\ DOMAIN pc = Request
      /\ DOMAIN repairing = Request /\ RepairerAt(r)
      /\ moved \in [Request -> [Product -> Int]]
  BY RepairFacts DEF WorkBefore, TypeInv, TypeOK, RowsTypeOK
<1>1. ~CommitPart(r) /\ pc[r] \in {"idle", "storePart", "writePart"}
  BY DEF CommitPart, StartPart, StorePart, WritePart
<1>2. kardex' = kardex => \A p \in Product :
        \E v \in Int : kardex'[p] = kardex[p] + v /\ Fitted(p)' = Fitted(p) - v
  BY <1>1, NothingFitted DEF WorkKept
<1>3. ASSUME pc'[r] \in TakesLabel, kardex' = kardex,
             \A q \in Request \ {r} : moved'[q] = moved[q],
             \A p \in Product : moved'[r][p] = TakenFor(repairing'[r], p)
      PROVE  WorkMoved(r)
  <2>1. pc'[r] \notin SellsLabel \cup ReceiveLabel
    BY <1>3, MovesLabels
  <2>2. MovedAt(r)'
    BY <1>3, <2>1 DEF MovedAt, TakenFor
  <2>3. QED
    BY <1>2, <1>3, <2>2 DEF WorkMoved
<1>4. ASSUME NEW n \in WorkReceived, NEW part \in Part, StartPart(r, n, part), part.product = None
      PROVE  WorkMoved(r)
  <2>1. pc[r] = "idle" /\ pc'[r] = "writePart"
    BY <1>0, <1>4 DEF StartPart
  <2>2. \A p \in Product : moved[r][p] = 0
    BY <2>1, WorkZero
  <2>3. kardex' = kardex /\ moved' = moved
    BY <1>4 DEF StartPart, rowVars
  <2>4. repairing'[r].what = part
    BY <1>0, <1>4 DEF StartPart, Begin
  <2>5. \A p \in Product : TakenFor(repairing'[r], p) = 0
    BY <1>4, <2>4, ServiceOrderAssumption DEF TakenFor
  <2>6. QED
    BY <1>3, <2>1, <2>2, <2>3, <2>5 DEF TakesLabel
<1>5. ASSUME StorePart(r)
      PROVE  WorkMoved(r)
  <2>1. pc[r] = "storePart" /\ pc'[r] = "writePart" /\ repairing' = repairing
    BY <1>0, <1>5 DEF StorePart, workVars
  <2>2. \A p \in Product : moved[r][p] = 0
    BY <2>1, WorkZero DEF WorkLabel, TakesLabel
  <2>3. PICK x, k : x = repairing[r].what.product /\ k = repairing[r].what.quantity
    OBVIOUS
  <2>4. x \in Product
    BY <1>0, <2>1, <2>3 DEF RepairerAt
  <2>5. WriteStock(r, x, repairing[r].seen - k, -k)
    BY <1>5, <2>3 DEF StorePart
  <2>6. /\ kardex' = kardex /\ \A q \in Request \ {r} : moved'[q] = moved[q]
        /\ \A p \in Product : moved'[r][p] = IF p = x THEN moved[r][p] + -k ELSE moved[r][p]
    BY <1>0, <2>4, <2>5, RowsMove
  <2>7. k \in Nat
    BY <1>0, <2>1, <2>3, ServiceOrderAssumption DEF RepairerAt
  <2>8. \A p \in Product : moved'[r][p] = TakenFor(repairing'[r], p)
    BY <2>1, <2>2, <2>3, <2>6, <2>7 DEF TakenFor
  <2>9. QED
    BY <1>3, <2>1, <2>6, <2>8 DEF TakesLabel
<1>6. ASSUME WritePart(r)
      PROVE  WorkMoved(r)
  <2>1. pc[r] = "writePart" /\ pc'[r] = "commitPart" /\ repairing' = repairing
    BY <1>0, <1>6 DEF WritePart, workVars
  <2>2. \A p \in Product : moved[r][p] = TakenFor(repairing[r], p)
    BY <2>1 DEF KardexInv, MovedAt, TakesLabel
  <2>3. kardex' = kardex /\ moved' = moved
    BY <1>6 DEF WritePart, rowVars
  <2>4. QED
    BY <1>3, <2>1, <2>2, <2>3 DEF TakesLabel
<1>7. QED
  BY <1>4, <1>5, <1>6

\* addItem: the part it took and the part on the order commit together.
LEMMA WorkCommits ==
    ASSUME WorkBefore, KardexInv, NEW r \in Request, CommitPart(r)
    PROVE  WorkMoved(r)
<1> USE DEF Step
<1>0. /\ RowsTypeOK /\ kardex \in [Product -> Int] /\ DOMAIN pc = Request
      /\ RepairerAt(r)
  BY RepairFacts DEF WorkBefore, TypeInv, TypeOK, RowsTypeOK
<1>1. pc[r] = "commitPart" /\ pc'[r] = "idle" /\ CommitRows(r)
  BY <1>0 DEF CommitPart
<1>2. PICK x, k : x = repairing[r].what.product /\ k = repairing[r].what.quantity
  OBVIOUS
<1>3. k \in Nat
  BY <1>0, <1>1, <1>2, ServiceOrderAssumption DEF RepairerAt
<1>4. /\ \A p \in Product : kardex'[p] = kardex[p] + moved[r][p] /\ moved'[r][p] = 0
      /\ \A q \in Request \ {r} : moved'[q] = moved[q]
  BY <1>0, <1>1, RowsMove
<1>5. \A p \in Product : moved[r][p] = IF p = x THEN -k ELSE 0
  BY <1>1, <1>2 DEF KardexInv, MovedAt, TakesLabel, TakenFor
<1>6. \A p \in Product : Fitted(p)' = Fitted(p) + IF p = x THEN k ELSE 0
  BY <1>2, CommitPartKeeps
<1>7. \A p \in Product : Fitted(p) \in Int
  BY FittedIsInt DEF WorkBefore
<1>8. \A p \in Product : \E v \in Int : kardex'[p] = kardex[p] + v /\ Fitted(p)' = Fitted(p) - v
  <2> SUFFICES ASSUME NEW p \in Product
               PROVE  \E v \in Int : kardex'[p] = kardex[p] + v /\ Fitted(p)' = Fitted(p) - v
    OBVIOUS
  <2>1. PICK v : v = IF p = x THEN -k ELSE 0
    OBVIOUS
  <2>2. PICK c, d : c = Fitted(p) /\ d = Fitted(p)'
    OBVIOUS
  <2>3. v \in Int /\ kardex'[p] = kardex[p] + v
    BY <1>3, <1>4, <1>5, <2>1
  <2>4. c \in Int /\ d = c + IF p = x THEN k ELSE 0
    BY <1>6, <1>7, <2>2
  <2>5. d = c - v
    BY <1>3, <2>1, <2>4
  <2>6. QED
    BY <2>2, <2>3, <2>5
<1>9. "idle" \notin SellsLabel \cup ReceiveLabel \cup TakesLabel
  BY MovesLabels
<1>10. MovedAt(r)'
  BY <1>1, <1>4, <1>9, NothingMoved
<1>11. QED
  BY <1>4, <1>8, <1>10 DEF WorkMoved

\* What happens besides: an answer without writing.
LEMMA WorkRollsBack ==
    ASSUME WorkBefore, KardexInv, NEW r \in Request, RollbackWork(r)
    PROVE  WorkMoved(r)
<1>0. /\ RowsTypeOK /\ kardex \in [Product -> Int] /\ DOMAIN pc = Request
  BY RepairFacts DEF WorkBefore, TypeInv, TypeOK, RowsTypeOK
<1>1. pc'[r] = "idle" /\ RollbackRows(r) /\ UNCHANGED workOrder
  BY <1>0 DEF RollbackWork
<1>2. /\ kardex' = kardex /\ \A p \in Product : moved'[r][p] = 0
      /\ \A q \in Request \ {r} : moved'[q] = moved[q]
  BY <1>0, <1>1, RowsMove
<1>3. "idle" \notin SellsLabel \cup ReceiveLabel \cup TakesLabel
  BY MovesLabels
<1>4. MovedAt(r)'
  BY <1>1, <1>2, <1>3, NothingMoved
<1>5. \A p \in Product : Fitted(p)' = Fitted(p)
  BY <1>1, DocumentsStay
<1>6. QED
  BY <1>2, <1>4, <1>5, NothingFitted DEF WorkMoved

LEMMA WorkMoves ==
    ASSUME WorkBefore, KardexInv, WorkNext
    PROVE  \E r \in Request : WorkKept(r) /\ WorkMoved(r)
<1> USE DEF Step
<1>0. DOMAIN pc = Request
  BY RepairFacts
<1>1. PICK r \in Request :
        \/ \E photos \in Photos \cup {0} : StartWorkOrder(r, photos)
        \/ \E n \in WorkReceived : StartWork(r, n)
        \/ WorkStep(r)
        \/ RollbackWork(r)
  BY DEF WorkNext
<1>2. WorkKept(r)
  <2>1. CASE WorkStep(r)
    BY <2>1, StatementsKeep, CommitOrderKeeps, ContentsKeep, StageKeeps, PartKeeps,
       CommitPartKeeps, DeleteItemKeeps DEF WorkStep
  <2>2. QED
    BY <1>1, <2>1, StartOrderKeeps, StartWorkKeeps, RollbackWorkKeeps
<1> SUFFICES WorkMoved(r)
  BY <1>2
<1> DEFINE Before == {"idle", "insertWorkOrder", "commitWorkOrder", "writeOrder", "writeStage",
                      "commitStage", "writeDelivered", "readPart", "deleteItem",
                      "writeRemoved", "countPhotos", "commitPhotos", "deletePhoto"}
           After == Before \cup {"storePart"}
<1>3. ASSUME pc[r] \in Before, pc'[r] \in After, UNCHANGED rowVars
      PROVE  WorkMoved(r)
  <2>1. ~CommitPart(r)
    BY <1>3 DEF CommitPart
  <2>2. pc[r] \in (WorkLabel \ TakesLabel) \cup {"idle"}
    BY <1>3 DEF WorkLabel, TakesLabel
  <2>3. pc'[r] \notin TakesLabel
    BY <1>3 DEF TakesLabel
  <2>4. QED
    BY <1>2, <1>3, <2>1, <2>2, <2>3, WorkQuiet
<1>4. CASE \E photos \in Photos \cup {0} : StartWorkOrder(r, photos)
  <2>1. pc[r] \in Before /\ pc'[r] \in After /\ UNCHANGED rowVars
    BY <1>0, <1>4 DEF StartWorkOrder
  <2>2. QED
    BY <1>3, <2>1
<1>5. ASSUME NEW n \in WorkReceived, StartWork(r, n)
      PROVE  WorkMoved(r)
  <2>1. CASE \E labor, discount \in Cost \cup {None} : StartUpdateOrder(r, n, labor, discount)
    <3>1. pc[r] \in Before /\ pc'[r] \in After /\ UNCHANGED rowVars
      BY <1>0, <2>1 DEF StartUpdateOrder
    <3>2. QED
      BY <1>3, <3>1
  <2>2. CASE \E status \in WorkStatus, deliver \in BOOLEAN : StartStage(r, n, status, deliver)
    <3>1. pc[r] \in Before /\ pc'[r] \in After /\ UNCHANGED rowVars
      BY <1>0, <2>2 DEF StartStage
    <3>2. QED
      BY <1>3, <3>1
  <2>3. CASE \E part \in Part : StartPart(r, n, part)
    <3>1. PICK part \in Part : StartPart(r, n, part)
      BY <2>3
    <3>2. CASE part.product = None
      BY <1>2, <3>1, <3>2, WorkTakes
    <3>3. CASE part.product # None
      <4>1. pc[r] \in Before /\ pc'[r] \in After /\ UNCHANGED rowVars
        BY <1>0, <3>1, <3>3 DEF StartPart
      <4>2. QED
        BY <1>3, <4>1
    <3>4. QED
      BY <3>2, <3>3
  <2>4. CASE \E i \in DOMAIN workOrder[n].contents.items : StartRemoveItem(r, n, i)
    <3>1. pc[r] \in Before /\ pc'[r] \in After /\ UNCHANGED rowVars
      BY <1>0, <2>4 DEF StartRemoveItem
    <3>2. QED
      BY <1>3, <3>1
  <2>5. CASE \E photos \in Photos : StartPhotos(r, n, photos)
    <3>1. pc[r] \in Before /\ pc'[r] \in After /\ UNCHANGED rowVars
      BY <1>0, <2>5 DEF StartPhotos
    <3>2. QED
      BY <1>3, <3>1
  <2>6. CASE StartDeletePhoto(r, n)
    <3>1. pc[r] \in Before /\ pc'[r] \in After /\ UNCHANGED rowVars
      BY <1>0, <2>6 DEF StartDeletePhoto
    <3>2. QED
      BY <1>3, <3>1
  <2>7. QED
    BY <1>5, <2>1, <2>2, <2>3, <2>4, <2>5, <2>6 DEF StartWork
<1>6. CASE InsertWorkOrder(r) \/ CommitWorkOrder(r) \/ WriteOrder(r)
  <2>1. pc[r] \in Before /\ pc'[r] \in After /\ UNCHANGED rowVars
    BY <1>0, <1>6 DEF InsertWorkOrder, CommitWorkOrder, WriteOrder
  <2>2. QED
    BY <1>3, <2>1
<1>7. CASE WriteStage(r) \/ CommitStage(r) \/ WriteDelivered(r)
  <2>1. pc[r] \in Before /\ pc'[r] \in After /\ UNCHANGED rowVars
    BY <1>0, <1>7 DEF WriteStage, CommitStage, WriteDelivered
  <2>2. QED
    BY <1>3, <2>1
<1>8. CASE ReadPart(r) \/ DeleteItem(r) \/ WriteRemoved(r)
  <2>1. pc[r] \in Before /\ pc'[r] \in After /\ UNCHANGED rowVars
    BY <1>0, <1>8 DEF ReadPart, DeleteItem, WriteRemoved
  <2>2. QED
    BY <1>3, <2>1
<1>9. CASE CountPhotos(r) \/ CommitPhotos(r) \/ DeletePhoto(r)
  <2>1. pc[r] \in Before /\ pc'[r] \in After /\ UNCHANGED rowVars
    BY <1>0, <1>9 DEF CountPhotos, CommitPhotos, DeletePhoto
  <2>2. QED
    BY <1>3, <2>1
<1>10. CASE StorePart(r) \/ WritePart(r)
  BY <1>2, <1>10, WorkTakes
<1>11. CASE CommitPart(r)
  BY <1>11, WorkCommits
<1>12. CASE RollbackWork(r)
  BY <1>12, WorkRollsBack
<1>13. QED
  BY <1>1, <1>2, <1>4, <1>5, <1>6, <1>7, <1>8, <1>9, <1>10, <1>11, <1>12 DEF WorkStep

LEMMA WorkKeepsKardex ==
    ASSUME ShopInv, KardexInv, WorkNext, UNCHANGED <<saleVars, purchaseVars>>
    PROVE  KardexInv'
<1>1. TypeInv /\ BuyInv /\ RepairInv /\ WorkBefore
  BY DEF ShopInv, StockInv, WorkBefore
<1>2. PICK r \in Request : WorkKept(r) /\ WorkMoved(r)
  BY <1>1, WorkMoves
<1>3. UNCHANGED <<sale, order, at, number, purchase, purchasing>>
  BY DEF saleVars, purchaseVars
<1>4. OthersStay(r)
  BY <1>2, <1>3 DEF OthersStay, WorkKept, WorkMoved, OneSlot
<1>5. ReturnsAt(r)'
  BY <1>2, MovesLabels DEF WorkKept, OneSlot, ReturnsAt
<1>6. KardexMatchesDocuments'
  <2>1. \A p \in Product : Back(p)' = Back(p) /\ Arrived(p)' = Arrived(p)
    BY <1>3, DocumentsStay
  <2>2. QED
    BY <1>1, <1>2, <2>1, KardexBalances DEF WorkMoved
<1>7. QED
  BY <1>1, <1>2, <1>3, <1>4, <1>5, <1>6, MovementsStay DEF WorkMoved

-----------------------------------------------------------------------------
(* Quick services move no product *)

LEMMA QuickKeepsKardex ==
    ASSUME ShopInv, KardexInv, QuickNext,
           UNCHANGED <<rowVars, saleVars, purchaseVars, workVars>>
    PROVE  KardexInv'
<1>1. TypeInv /\ QuickInv
  BY DEF ShopInv
<1>2. PICK r \in Request : QuickKept(r)
  BY <1>1, QuickKeeps
<1>3. UNCHANGED <<kardex, moved, sale, order, at, number, purchase, purchasing, workOrder, repairing>>
  BY DEF rowVars, saleVars, purchaseVars, workVars
<1>4. OthersStay(r)
  BY <1>2, <1>3 DEF OthersStay, QuickKept, OneSlot
<1>5. /\ pc[r] \notin SellsLabel \cup ReceiveLabel \cup TakesLabel
      /\ pc'[r] \notin SellsLabel \cup ReceiveLabel \cup TakesLabel
  BY <1>2, MovesLabels DEF QuickKept, OneSlot
<1>6. \A p \in Product : moved'[r][p] = 0
  BY <1>3, <1>5 DEF KardexInv, MovedAt
<1>7. ReturnsAt(r)' /\ MovedAt(r)'
  BY <1>5, <1>6, NothingMoved
<1>8. KardexMatchesDocuments'
  BY <1>3, KardexStays
<1>9. QED
  BY <1>1, <1>3, <1>4, <1>7, <1>8, MovementsStay

-----------------------------------------------------------------------------
(* Purchases *)

\* What a step of a purchase must do to the movements.
BuyMoved(r) ==
    /\ MovedAt(r)'
    /\ \A q \in Request \ {r} : moved'[q] = moved[q] /\ purchasing'[q] = purchasing[q]
    /\ \A p \in Product : \E v \in Int :
         kardex'[p] = kardex[p] + v /\ Arrived(p)' = Arrived(p) + v

LEMMA BuyZero ==
    ASSUME KardexInv, NEW r \in Request, pc[r] \in (PurchaseLabel \ ReceiveLabel) \cup {"idle"}
    PROVE  \A p \in Product : moved[r][p] = 0
<1>1. pc[r] \notin SellsLabel \cup ReceiveLabel \cup TakesLabel
  BY MovesLabels
<1>2. QED
  BY <1>1 DEF KardexInv, MovedAt

LEMMA NothingArrived ==
    ASSUME BuyBefore, kardex' = kardex, \A p \in Product : Arrived(p)' = Arrived(p)
    PROVE  \A p \in Product : \E v \in Int :
             kardex'[p] = kardex[p] + v /\ Arrived(p)' = Arrived(p) + v
<1> SUFFICES ASSUME NEW p \in Product
             PROVE  kardex'[p] = kardex[p] + 0 /\ Arrived(p)' = Arrived(p) + 0
  OBVIOUS
<1>1. kardex[p] \in Int
  BY DEF BuyBefore, TypeInv, TypeOK, RowsTypeOK
<1>2. PICK f, a : f = [n \in Ordered |-> ArrivedWith(n, p)] /\ a = Arrived(p)
  OBVIOUS
<1>3. \A n \in Ordered : f[n] \in Int
  BY <1>2, ArrivedIsInt DEF BuyBefore
<1>4. SumFunctionOnSet(f, Ordered) \in Int
  BY <1>3, OrderedFinite, SumInt
<1>5. a \in Int
  BY <1>2, <1>4 DEF Arrived
<1>6. QED
  BY <1>1, <1>2, <1>5

\* A step outside receive.
LEMMA BuyQuiet ==
    ASSUME BuyBefore, KardexInv, NEW r \in Request,
           pc[r] \in (PurchaseLabel \ ReceiveLabel) \cup {"idle"},
           pc'[r] \in (PurchaseLabel \ ReceiveLabel) \cup {"idle"}, UNCHANGED rowVars,
           \A q \in Request \ {r} : purchasing'[q] = purchasing[q],
           \A p \in Product : Arrived(p)' = Arrived(p)
    PROVE  BuyMoved(r)
<1>1. \A p \in Product : moved[r][p] = 0
  BY BuyZero
<1>2. kardex' = kardex /\ moved' = moved
  BY DEF rowVars
<1>3. pc'[r] \notin SellsLabel \cup ReceiveLabel \cup TakesLabel
  BY MovesLabels
<1>4. MovedAt(r)'
  BY <1>1, <1>2, <1>3, NothingMoved
<1>5. QED
  BY <1>2, <1>4, NothingArrived DEF BuyMoved

LEMMA BuyStartsQuiet ==
    ASSUME BuyBefore, KardexInv, NEW r \in Request,
           \/ \E s \in Supply : StartPurchase(r, s)
           \/ \E n \in Ordered : \/ StartCancelPurchase(r, n)
                                 \/ \E p \in {"PENDING", "PAID"} : StartUpdatePurchase(r, n, p)
           \/ CountPurchases(r) \/ InsertPurchase(r) \/ PayPurchase(r)
    PROVE  BuyMoved(r)
<1> USE DEF Step
<1>0. DOMAIN pc = Request /\ DOMAIN purchasing = Request
  BY BuyFacts
<1> DEFINE Quiet == {"idle", "countPurchases", "insertPurchase", "payPurchase", "commitPurchase",
                     "writeCancelled", "writePayment"}
           Stay == \A q \in Request \ {r} : purchasing'[q] = purchasing[q]
<1>1. CASE \E s \in Supply : StartPurchase(r, s)
  <2>1. pc[r] \in Quiet /\ pc'[r] \in Quiet /\ Stay /\ UNCHANGED <<rowVars, purchase>>
    BY <1>0, <1>1 DEF StartPurchase
  <2>2. QED
    BY <2>1, DocumentsStay, BuyQuiet DEF PurchaseLabel, ReceiveLabel
<1>2. CASE \E n \in Ordered : \/ StartCancelPurchase(r, n)
                             \/ \E p \in {"PENDING", "PAID"} : StartUpdatePurchase(r, n, p)
  <2>1. pc[r] \in Quiet /\ pc'[r] \in Quiet /\ Stay /\ UNCHANGED <<rowVars, purchase>>
    BY <1>0, <1>2 DEF StartCancelPurchase, StartUpdatePurchase
  <2>2. QED
    BY <2>1, DocumentsStay, BuyQuiet DEF PurchaseLabel, ReceiveLabel
<1>3. CASE CountPurchases(r) \/ InsertPurchase(r) \/ PayPurchase(r)
  <2>1. pc[r] \in Quiet /\ pc'[r] \in Quiet /\ Stay /\ UNCHANGED <<rowVars, purchase>>
    BY <1>0, <1>3 DEF CountPurchases, InsertPurchase, PayPurchase, purchaseVars
  <2>2. QED
    BY <2>1, DocumentsStay, BuyQuiet DEF PurchaseLabel, ReceiveLabel
<1>4. QED
  BY <1>1, <1>2, <1>3

\* What has come of p with an order whose row is w.
BroughtBy(w, p) ==
    SumFunctionOnSet(w.arrived, {i \in DOMAIN w.arrived : w.supply.items[i].product = p})

\* An order just made has brought nothing in.
LEMMA NewHasBroughtNothing ==
    ASSUME NEW s \in Supply, NEW p \in Product, NEW w, w = NewPurchase(s)
    PROVE  BroughtBy(w, p) = 0
<1>1. PICK f, S : f = w.arrived /\ S = {i \in DOMAIN w.arrived : w.supply.items[i].product = p}
  OBVIOUS
<1>2. w.arrived = [i \in DOMAIN s.items |-> 0]
  BY DEF NewPurchase
<1>3. IsFiniteSet(S)
  <2>1. S \subseteq DOMAIN s.items
    BY <1>1, <1>2
  <2>2. QED
    BY <2>1, SupplyFacts, FS_Subset
<1>4. \A i \in S : f[i] = 0
  BY <1>1, <1>2
<1>5. \A i \in S : f[i] \in Int /\ f[i] = f[i] + f[i]
  BY <1>4
<1>6. SumFunctionOnSet(f, S) = SumFunctionOnSet(f, S) + SumFunctionOnSet(f, S)
  BY <1>3, <1>5, SumPlus
<1>7. SumFunctionOnSet(f, S) \in Int
  BY <1>3, <1>5, SumInt
<1>8. PICK k : k = SumFunctionOnSet(f, S)
  OBVIOUS
<1>9. k = k + k /\ k \in Int
  BY <1>6, <1>7, <1>8
<1>10. k = 0
  BY <1>9
<1>11. QED
  BY <1>1, <1>8, <1>10 DEF BroughtBy

\* One row is written.
LEMMA OrderWritten ==
    ASSUME BuyBefore, NEW n \in PurchaseNumber, NEW w, PurchaseOK(w),
           purchase' = [purchase EXCEPT ![n] = w], NEW p \in Product, NEW v \in Int,
           n \in Ordered => BroughtBy(w, p) = BroughtBy(purchase[n], p) + v,
           n \notin Ordered => BroughtBy(w, p) = v
    PROVE  Arrived(p)' = Arrived(p) + v
<1>1. DOMAIN purchase = PurchaseNumber /\ BuyInv
  BY DEF BuyBefore, BuyInv
<1>2. purchase'[n] = w /\ \A m \in PurchaseNumber \ {n} : purchase'[m] = purchase[m]
  BY <1>1
<1>3. Ordered' = Ordered \cup {n}
  BY <1>2 DEF Ordered, PurchaseOK, PurchaseStatus
<1>4. \A m \in Ordered \ {n} : purchase'[m] = purchase[m]
  BY <1>2 DEF Ordered
<1>5. ArrivedWith(n, p)' = BroughtBy(w, p) /\ ArrivedWith(n, p) = BroughtBy(purchase[n], p)
  BY <1>2 DEF ArrivedWith, BroughtBy
<1>6. /\ n \in Ordered => ArrivedWith(n, p)' = ArrivedWith(n, p) + v
      /\ n \notin Ordered => ArrivedWith(n, p)' = v
  BY <1>5
<1>7. QED
  BY <1>1, <1>3, <1>4, <1>6, ArrivedMoves

\* create, its commit, and the one statement of cancel and update
LEMMA BuyWritesQuiet ==
    ASSUME BuyBefore, KardexInv, NEW r \in Request,
           CommitPurchase(r) \/ WriteCancelled(r) \/ WritePayment(r)
    PROVE  BuyMoved(r)
<1>0. /\ DOMAIN pc = Request /\ DOMAIN purchasing = Request /\ BuyerAt(r) /\ BuyInv
      /\ DOMAIN purchase = PurchaseNumber
  BY BuyFacts DEF BuyBefore
<1>1. /\ pc[r] \in {"commitPurchase", "writeCancelled", "writePayment"}
      /\ pc' = [pc EXCEPT ![r] = "idle"] /\ UNCHANGED rowVars
      /\ purchasing' = [purchasing EXCEPT ![r] = None]
  BY DEF CommitPurchase, WriteCancelled, WritePayment, Step
<1>2. PICK n : n = purchasing[r].number
  OBVIOUS
<1> PICK z \in Int : z = 0
  OBVIOUS
<1>3. \A p \in Product : Arrived(p)' = Arrived(p) + z
  <2> SUFFICES ASSUME NEW p \in Product PROVE Arrived(p)' = Arrived(p) + z
    OBVIOUS
  <2>1. CASE CommitPurchase(r)
    <3>1. PICK s, w : s = purchasing[r].supply /\ w = NewPurchase(s)
      OBVIOUS
    <3>2. pc[r] = "commitPurchase" /\ purchase' = [purchase EXCEPT ![n] = w]
      BY <1>2, <2>1, <3>1 DEF CommitPurchase, Purchasing, Step
    <3>3. n \in PurchaseNumber \ Ordered /\ s \in Supply
      BY <1>0, <1>2, <3>1, <3>2 DEF BuyerAt, HasInsertedPurchase, PurchaseLabel
    <3>4. BroughtBy(w, p) = 0
      BY <3>1, <3>3, NewHasBroughtNothing
    <3>5. PurchaseOK(w)
      <4>1. PICK none : none = [i \in DOMAIN s.items |-> 0]
        OBVIOUS
      <4>2. w = [status |-> "PENDING", supply |-> s, payment |-> s.payment,
                 received |-> none, arrived |-> none]
        BY <3>1, <4>1 DEF NewPurchase
      <4>3. \A i \in DOMAIN s.items : s.items[i].quantity \in Nat \ {0}
        BY <3>3, SupplyFacts
      <4>4. QED
        BY <3>3, <4>1, <4>2, <4>3 DEF PurchaseOK, PurchaseStatus
    <3>6. /\ n \in Ordered => BroughtBy(w, p) = BroughtBy(purchase[n], p) + z
          /\ n \notin Ordered => BroughtBy(w, p) = z
      BY <3>3, <3>4
    <3>7. QED
      BY <3>2, <3>3, <3>5, <3>6, OrderWritten
  <2>2. CASE WriteCancelled(r) \/ WritePayment(r)
    <3>1. PICK v : v = purchase[n]
      OBVIOUS
    <3>2. pc[r] \in {"writeCancelled", "writePayment"}
      BY <2>2 DEF WriteCancelled, WritePayment, Step
    <3>3. n \in Ordered /\ n \in PurchaseNumber /\ PurchaseOK(v)
      BY <1>0, <1>2, <3>1, <3>2, BuyFacts DEF BuyerAt
    <3>4. PICK w : /\ w \in {[v EXCEPT !.status = "CANCELLED"],
                             [v EXCEPT !.payment = purchasing[r].payment]}
                   /\ purchase' = [purchase EXCEPT ![n] = w]
      <4>1. CASE WriteCancelled(r)
        BY <1>0, <1>2, <3>1, <3>3, <4>1 DEF WriteCancelled, Purchasing
      <4>2. CASE WritePayment(r)
        BY <1>0, <1>2, <3>1, <3>3, <4>2 DEF WritePayment, Purchasing
      <4>3. QED
        BY <2>2, <4>1, <4>2
    <3>5. /\ DOMAIN w = DOMAIN v /\ w.supply = v.supply /\ w.received = v.received
          /\ w.arrived = v.arrived /\ w.status \in {v.status, "CANCELLED"}
      BY <3>3, <3>4 DEF PurchaseOK
    <3>6. PurchaseOK(w)
      BY <3>3, <3>5 DEF PurchaseOK, PurchaseStatus
    <3>7. PICK a : a = BroughtBy(v, p)
      OBVIOUS
    <3>8. BroughtBy(w, p) = a
      BY <3>5, <3>7 DEF BroughtBy
    <3>9. a \in Int
      BY <1>0, <3>1, <3>3, <3>7, ArrivedIsInt DEF BroughtBy, ArrivedWith
    <3>10. /\ n \in Ordered => BroughtBy(w, p) = BroughtBy(purchase[n], p) + z
           /\ n \notin Ordered => BroughtBy(w, p) = z
      BY <3>1, <3>3, <3>7, <3>8, <3>9
    <3>11. n \in PurchaseNumber /\ purchase' = [purchase EXCEPT ![n] = w]
      BY <3>3, <3>4
    <3>12. QED
      BY <3>6, <3>10, <3>11, OrderWritten
  <2>3. QED
    BY <2>1, <2>2
<1>4. kardex' = kardex /\ moved' = moved
  BY <1>1 DEF rowVars
<1>5. \A p \in Product : kardex'[p] = kardex[p] + z
  BY <1>4 DEF BuyBefore, TypeInv, TypeOK, RowsTypeOK
<1>6. \A p \in Product : moved[r][p] = 0
  BY <1>1, BuyZero DEF PurchaseLabel, ReceiveLabel
<1>7. pc'[r] \notin SellsLabel \cup ReceiveLabel \cup TakesLabel
  BY <1>0, <1>1, MovesLabels
<1>8. MovedAt(r)'
  BY <1>4, <1>6, <1>7, NothingMoved
<1>9. QED
  BY <1>1, <1>3, <1>4, <1>5, <1>8 DEF BuyMoved

LEMMA BuyRollsBack ==
    ASSUME BuyBefore, KardexInv, NEW r \in Request, RollbackPurchase(r)
    PROVE  BuyMoved(r)
<1>0. RowsTypeOK /\ DOMAIN pc = Request
  BY DEF BuyBefore, TypeInv, TypeOK
<1>1. /\ pc'[r] = "idle" /\ RollbackRows(r) /\ UNCHANGED purchase
      /\ purchasing' = [purchasing EXCEPT ![r] = None]
  BY <1>0 DEF RollbackPurchase
<1>2. /\ kardex' = kardex /\ \A p \in Product : moved'[r][p] = 0
      /\ \A q \in Request \ {r} : moved'[q] = moved[q]
  BY <1>0, <1>1, RowsMove
<1>3. MovedAt(r)'
  <2>1. pc'[r] \notin SellsLabel \cup ReceiveLabel \cup TakesLabel
    BY <1>1, MovesLabels
  <2>2. QED
    BY <1>2, <2>1, NothingMoved
<1>4. \A p \in Product : Arrived(p)' = Arrived(p)
  BY <1>1, DocumentsStay
<1>5. \A q \in Request \ {r} : purchasing'[q] = purchasing[q]
  BY <1>1, BuyFacts
<1>6. QED
  BY <1>2, <1>3, <1>4, <1>5, NothingArrived DEF BuyMoved

\* receive, a statement that writes no product: it has stored what it had.
LEMMA ReceiverStays ==
    ASSUME BuyBefore, KardexInv, NEW r \in Request, pc[r] \in ReceiveLabel, pc'[r] \in ReceiveLabel,
           UNCHANGED <<rowVars, purchase>>,
           \A q \in Request \ {r} : purchasing'[q] = purchasing[q],
           NEW b, b = purchasing[r], NEW c, c = purchasing'[r],
           c.supply = b.supply, c.due = b.due, StoredBy(c) = StoredBy(b)
    PROVE  BuyMoved(r)
<1>1. kardex' = kardex /\ moved' = moved
  BY DEF rowVars
<1>2. \A p \in Product : StoredOf(b, p, moved[r][p])
  BY DEF KardexInv, MovedAt
<1>3. \A p \in Product : StoredOf(c, p, moved'[r][p])
  BY <1>1, <1>2 DEF StoredOf
<1>4. pc'[r] \notin SellsLabel \cup TakesLabel
  BY MovesLabels
<1>5. MovedAt(r)'
  BY <1>3, <1>4 DEF MovedAt
<1>6. \A p \in Product : Arrived(p)' = Arrived(p)
  BY DocumentsStay
<1>7. QED
  BY <1>1, <1>5, <1>6, NothingArrived DEF BuyMoved

LEMMA ReceiveQuiet ==
    ASSUME BuyBefore, KardexInv, NEW r \in Request,
           SkipItem(r) \/ ReadItem(r) \/ RefreshItems(r) \/ WriteReceived(r)
    PROVE  BuyMoved(r)
<1>1. PICK b, c, k : b = purchasing[r] /\ c = purchasing'[r] /\ k = b.at + 1
  OBVIOUS
<1>2. pc[r] \in ReceiveLabel
  BY DEF SkipItem, ReadItem, RefreshItems, WriteReceived, Step, ReceiveLabel
<1>3. /\ DOMAIN b = LocalFields /\ b.supply \in Supply /\ ReceiverOK(b, purchase[b.number])
      /\ DOMAIN purchasing = Request /\ DOMAIN pc = Request
  BY <1>1, <1>2, ReceivingFacts DEF BuyBefore, TypeInv, TypeOK
<1>4. pc'[r] \in ReceiveLabel /\ UNCHANGED <<rowVars, purchase>>
  BY <1>3 DEF SkipItem, ReadItem, RefreshItems, WriteReceived, Step, ReceiveLabel, purchaseVars
<1>5. \A q \in Request \ {r} : purchasing'[q] = purchasing[q]
  BY <1>3 DEF SkipItem, ReadItem, RefreshItems, WriteReceived, purchaseVars
<1>6. c.supply = b.supply /\ c.due = b.due /\ StoredBy(c) = StoredBy(b)
  <2>1. CASE SkipItem(r)
    <3>1. purchasing' = [purchasing EXCEPT ![r].at = k] /\ b.due[b.at] = 0
      BY <1>1, <1>3, <2>1 DEF SkipItem, Purchasing
    <3>2. c = [b EXCEPT !.at = k]
      BY <1>1, <1>3, <3>1
    <3>3. c.supply = b.supply /\ c.due = b.due /\ c.at = k
      BY <1>3, <3>2 DEF LocalFields
    <3>4. b.at \in Nat /\ \A i \in DOMAIN b.due : i \in Nat
      BY <1>3, SupplyFacts DEF ReceiverOK
    <3>5. \A i \in DOMAIN b.due : b.due[i] > 0 => (i < k <=> i < b.at)
      BY <1>1, <3>1, <3>4
    <3>6. QED
      BY <3>3, <3>5 DEF StoredBy
  <2>2. CASE ReadItem(r)
    <3>1. PICK v : c = [b EXCEPT !.seen = v]
      BY <1>1, <1>3, <2>2 DEF ReadItem
    <3>2. c.supply = b.supply /\ c.due = b.due /\ c.at = b.at
      BY <1>3, <3>1 DEF LocalFields
    <3>3. QED
      BY <3>2 DEF StoredBy
  <2>3. CASE RefreshItems(r)
    <3>1. PICK v : c = [b EXCEPT !.status = v]
      BY <1>1, <1>3, <2>3 DEF RefreshItems
    <3>2. c.supply = b.supply /\ c.due = b.due /\ c.at = b.at
      BY <1>3, <3>1 DEF LocalFields
    <3>3. QED
      BY <3>2 DEF StoredBy
  <2>4. CASE WriteReceived(r)
    BY <1>1, <2>4 DEF WriteReceived, purchaseVars
  <2>5. QED
    BY <2>1, <2>2, <2>3, <2>4
<1>7. QED
  BY <1>1, <1>2, <1>4, <1>5, <1>6, ReceiverStays

\* receive begins with nothing stored.
LEMMA ReceiveStarts ==
    ASSUME BuyBefore, KardexInv, NEW r \in Request, NEW n \in Ordered, NEW due \in Named(n),
           StartReceive(r, n, due)
    PROVE  BuyMoved(r)
<1>0. DOMAIN purchasing = Request /\ DOMAIN pc = Request /\ PurchaseOK(purchase[n])
  BY BuyFacts
<1>1. pc[r] = "idle" /\ pc'[r] = "readItem" /\ UNCHANGED <<rowVars, purchase>>
  BY <1>0 DEF StartReceive, Step
<1>2. PICK s, base, payment :
        s = purchase[n].supply /\ base = purchase[n].received /\ payment = purchase[n].payment
  OBVIOUS
<1>3. PICK b : b = Locals(n, s, base, due, payment)
  OBVIOUS
<1>4. purchasing' = [purchasing EXCEPT ![r] = b]
  BY <1>2, <1>3 DEF StartReceive
<1>5. purchasing'[r] = b /\ \A q \in Request \ {r} : purchasing'[q] = purchasing[q]
  BY <1>0, <1>4
<1>6. s \in Supply
  BY <1>0, <1>2 DEF PurchaseOK
<1>7. b.due = due /\ b.at = 1 /\ b.supply = s
  BY <1>3, <1>6, LocalsFacts
<1>8. StoredBy(b) = {}
  <2>1. \A i \in DOMAIN due : i \in Nat /\ i >= 1
    BY <1>2, <1>6, NamedFacts, SupplyFacts DEF BuyBefore
  <2>2. QED
    BY <1>7, <2>1 DEF StoredBy
<1>9. \A p \in Product : moved[r][p] = 0
  BY <1>1, BuyZero
<1>10. kardex' = kardex /\ moved' = moved
  BY <1>1 DEF rowVars
<1>11. \A p \in Product : StoredOf(b, p, moved'[r][p])
  BY <1>8, <1>9, <1>10 DEF StoredOf
<1>12. pc'[r] \in ReceiveLabel /\ pc'[r] \notin SellsLabel \cup TakesLabel
  BY <1>1, MovesLabels DEF ReceiveLabel
<1>13. MovedAt(r)'
  BY <1>5, <1>11, <1>12 DEF MovedAt
<1>14. \A p \in Product : Arrived(p)' = Arrived(p)
  BY <1>1, DocumentsStay
<1>15. QED
  BY <1>5, <1>10, <1>13, <1>14, NothingArrived DEF BuyMoved

\* receive stores one item: no earlier item has its product.
LEMMA ReceiveStores ==
    ASSUME BuyBefore, KardexInv, NEW r \in Request, StoreItem(r)
    PROVE  BuyMoved(r)
<1>1. PICK b : b = purchasing[r]
  OBVIOUS
<1>2. PICK j, x, d, k : j = b.at /\ x = b.supply.items[j].product /\ d = b.due[j] /\ k = j + 1
  OBVIOUS
<1>3. /\ Step(r, "storeItem", "readItem") /\ UNCHANGED <<cashVars, purchase>>
      /\ WriteStock(r, x, b.seen + d, d)
  BY <1>1, <1>2 DEF StoreItem, Purchasing
<1>4. pc[r] = "storeItem" /\ "readItem" \in ReceiveLabel /\ "storeItem" \in ReceiveLabel
  BY <1>3 DEF Step, ReceiveLabel
<1>5. /\ DOMAIN b = LocalFields /\ b.supply \in Supply /\ ReceiverOK(b, purchase[b.number])
      /\ StoringOK(b) /\ DOMAIN purchasing = Request
  BY <1>1, <1>4, ReceivingFacts
<1>6. RowsTypeOK /\ moved \in [Request -> [Product -> Int]] /\ DOMAIN pc = Request
  BY DEF BuyBefore, TypeInv, TypeOK, RowsTypeOK
<1>7. PICK c : c = [b EXCEPT !.at = k]
  OBVIOUS
<1>8. purchasing' = [purchasing EXCEPT ![r] = c]
  <2>1. purchasing' = [purchasing EXCEPT ![r].at = k]
    BY <1>1, <1>2, <1>5 DEF StoreItem
  <2>2. QED
    BY <1>1, <1>7, <2>1
<1>9. c.supply = b.supply /\ c.due = b.due /\ c.at = k
  BY <1>5, <1>7 DEF LocalFields
<1>10. /\ DOMAIN b.due = DOMAIN b.supply.items /\ j \in DOMAIN b.due /\ d \in Nat /\ d > 0
       /\ \A i \in DOMAIN b.due : i \in Nat /\ b.due[i] \in Nat
  BY <1>2, <1>5, SupplyFacts DEF ReceiverOK, StoringOK
<1>11. x \in Product /\ \A i \in DOMAIN b.due : b.supply.items[i].product = x => i = j
  BY <1>2, <1>5, <1>10, SupplyFacts
<1>12. StoredBy(c) = StoredBy(b) \cup {j} /\ j \notin StoredBy(b)
  <2>1. \A i \in DOMAIN b.due : i < k <=> (i < j \/ i = j)
    BY <1>2, <1>10
  <2>2. ~(j < j)
    BY <1>10
  <2>3. QED
    BY <1>2, <1>9, <1>10, <2>1, <2>2 DEF StoredBy
<1>13. StoredBy(b) \subseteq DOMAIN b.due
  BY DEF StoredBy
<1>14. /\ kardex' = kardex /\ \A q \in Request \ {r} : moved'[q] = moved[q]
       /\ \A p \in Product : moved'[r][p] = IF p = x THEN moved[r][p] + d ELSE moved[r][p]
  BY <1>3, <1>6, <1>11, RowsMove
<1>15. ASSUME NEW p \in Product
       PROVE  StoredOf(c, p, moved'[r][p])
  <2>1. StoredOf(b, p, moved[r][p])
    BY <1>1, <1>4 DEF KardexInv, MovedAt
  <2>2. CASE p = x
    <3>1. \A i \in StoredBy(b) : b.supply.items[i].product # x
      BY <1>11, <1>12, <1>13
    <3>2. moved[r][p] = 0
      BY <2>1, <2>2, <3>1 DEF StoredOf
    <3>3. moved'[r][p] = d
      BY <1>10, <1>14, <2>2, <3>2
    <3>4. j \in StoredBy(c) /\ c.supply.items[j].product = p /\ c.due[j] = d
      BY <1>2, <1>9, <1>12, <2>2
    <3>5. QED
      BY <3>3, <3>4 DEF StoredOf
  <2>3. CASE p # x
    <3>1. moved'[r][p] = moved[r][p]
      BY <1>14, <2>3
    <3>2. c.supply.items[j].product # p
      BY <1>2, <1>9, <2>3
    <3>3. QED
      BY <1>9, <1>12, <2>1, <3>1, <3>2 DEF StoredOf
  <2>4. QED
    BY <2>2, <2>3
<1>16. pc'[r] \in ReceiveLabel /\ pc'[r] \notin SellsLabel \cup TakesLabel
  <2>1. pc'[r] = "readItem"
    BY <1>3, <1>6 DEF Step
  <2>2. QED
    BY <1>4, <2>1, MovesLabels
<1>17. purchasing'[r] = c /\ \A q \in Request \ {r} : purchasing'[q] = purchasing[q]
  BY <1>5, <1>8
<1>18. MovedAt(r)'
  BY <1>15, <1>16, <1>17 DEF MovedAt
<1>19. \A p \in Product : Arrived(p)' = Arrived(p)
  BY <1>3, DocumentsStay
<1>20. QED
  BY <1>14, <1>17, <1>18, <1>19, NothingArrived DEF BuyMoved

\* The movements that receive commits are what the order counts as arrived.
LEMMA StoredHasArrived ==
    ASSUME NEW w, PurchaseOK(w), NEW b, ReceiverOK(b, w), NEW p \in Product, NEW m,
           StoredOf(b, p, m), NEW x, x.supply = w.supply,
           x.arrived = [i \in DOMAIN w.arrived |->
                          w.arrived[i] + IF i \in StoredBy(b) THEN b.due[i] ELSE 0]
    PROVE  m \in Int /\ BroughtBy(x, p) = BroughtBy(w, p) + m
<1>1. PICK S, T, f, g :
        /\ S = StoredBy(b) /\ T = {i \in DOMAIN w.arrived : w.supply.items[i].product = p}
        /\ f = w.arrived /\ g = x.arrived
  OBVIOUS
<1>2. /\ w.supply \in Supply /\ w.supply = b.supply /\ DOMAIN f = DOMAIN w.supply.items
      /\ \A i \in DOMAIN f : f[i] \in Nat
      /\ DOMAIN b.due = DOMAIN f /\ \A i \in DOMAIN f : b.due[i] \in Nat
  BY <1>1 DEF PurchaseOK, ReceiverOK
<1>3. DOMAIN g = DOMAIN f /\ \A i \in DOMAIN f : g[i] = f[i] + IF i \in S THEN b.due[i] ELSE 0
  BY <1>1
<1>4. S \subseteq DOMAIN f
  BY <1>1, <1>2 DEF StoredBy
<1>5. IsFiniteSet(T)
  <2>1. IsFiniteSet(DOMAIN f) /\ T \subseteq DOMAIN f
    BY <1>1, <1>2, SupplyFacts
  <2>2. QED
    BY <2>1, FS_Subset
<1>6. \A i \in T : f[i] \in Int /\ g[i] \in Int
  BY <1>1, <1>2, <1>3
<1>7. BroughtBy(w, p) = SumFunctionOnSet(f, T) /\ BroughtBy(x, p) = SumFunctionOnSet(g, T)
  BY <1>1, <1>3 DEF BroughtBy
<1>8. SumFunctionOnSet(f, T) \in Int
  BY <1>5, <1>6, SumInt
<1>9. CASE \E i \in S : b.supply.items[i].product = p /\ m = b.due[i]
  <2>1. PICK i \in S : b.supply.items[i].product = p /\ m = b.due[i]
    BY <1>9
  <2>2. i \in DOMAIN f /\ i \in T
    BY <1>1, <1>2, <1>4, <2>1
  <2>3. T \ {i} = {}
    BY <1>1, <1>2, <2>1, <2>2, SupplyFacts
  <2>4. \A y \in T \ {i} : g[y] = f[y]
    BY <2>3
  <2>5. g[i] = f[i] + m /\ m \in Nat /\ f[i] \in Int
    BY <1>2, <1>3, <2>1, <2>2
  <2>6. SumFunctionOnSet(g, T) = SumFunctionOnSet(f, T) - f[i] + g[i]
    BY <1>5, <1>6, <2>2, <2>4, SumChanged
  <2>7. SumFunctionOnSet(g, T) = SumFunctionOnSet(f, T) + m
    BY <1>8, <2>5, <2>6
  <2>8. QED
    BY <1>7, <2>5, <2>7
<1>10. CASE m = 0 /\ \A i \in S : b.supply.items[i].product # p
  <2>1. \A i \in T : i \notin S
    BY <1>1, <1>2, <1>10
  <2>2. \A i \in T : f[i] = g[i]
    BY <1>1, <1>2, <1>3, <2>1
  <2>3. SumFunctionOnSet(f, T) = SumFunctionOnSet(g, T)
    BY <1>5, <2>2, SumSame
  <2>4. QED
    BY <1>7, <1>8, <1>10, <2>3
<1>11. QED
  BY <1>1, <1>9, <1>10 DEF StoredOf

\* receive, its commit
LEMMA ReceiveCommits ==
    ASSUME BuyBefore, KardexInv, NEW r \in Request, CommitReceive(r)
    PROVE  BuyMoved(r)
<1>1. PICK b, n, w : b = purchasing[r] /\ n = b.number /\ w = purchase[n]
  OBVIOUS
<1>2. /\ pc[r] = "commitReceive" /\ pc' = [pc EXCEPT ![r] = "idle"] /\ CommitRows(r)
      /\ purchasing' = [purchasing EXCEPT ![r] = None]
  BY DEF CommitReceive, Step
<1>3. pc[r] \in ReceiveLabel /\ RowsTypeOK /\ DOMAIN pc = Request
  BY <1>2 DEF ReceiveLabel, BuyBefore, TypeInv, TypeOK
<1>4. /\ b.supply \in Supply /\ b.status \in PurchaseStatus /\ n \in Ordered /\ n \in PurchaseNumber
      /\ PurchaseOK(w) /\ ReceiverOK(b, w) /\ DOMAIN purchase = PurchaseNumber
      /\ DOMAIN purchasing = Request
  BY <1>1, <1>3, ReceivingFacts
<1>5. PICK received, arrived :
        /\ received = Refreshed(r)
        /\ arrived = [i \in DOMAIN w.arrived |->
                        w.arrived[i] + IF i \in StoredBy(b) THEN b.due[i] ELSE 0]
  OBVIOUS
<1>6. PICK x : x = [w EXCEPT !.status = b.status, !.received = received, !.arrived = arrived]
  OBVIOUS
<1>7. Stored(r) = StoredBy(b)
  BY <1>1 DEF Stored, StoredBy, Purchasing
<1>8. purchase' = [purchase EXCEPT ![n] = x]
  BY <1>1, <1>5, <1>6, <1>7 DEF CommitReceive, Purchasing
<1>9. x.supply = w.supply /\ x.arrived = arrived
  BY <1>4, <1>6 DEF PurchaseOK
<1>10. PurchaseOK(x)
  <2>1. purchase'[n] = x
    BY <1>4, <1>8
  <2>2. BuyInv'
    BY CommitReceiveKeeps DEF BuyKept
  <2>3. x.status \in PurchaseStatus
    BY <1>4, <1>6 DEF PurchaseOK
  <2>4. x # NoPurchase
    BY <2>3 DEF NoPurchase, PurchaseStatus
  <2>5. QED
    BY <1>4, <2>1, <2>2, <2>4 DEF BuyInv
<1>11. /\ \A p \in Product : kardex'[p] = kardex[p] + moved[r][p] /\ moved'[r][p] = 0
       /\ \A q \in Request \ {r} : moved'[q] = moved[q]
  BY <1>2, <1>3, RowsMove
<1>12. ASSUME NEW p \in Product
       PROVE  moved[r][p] \in Int /\ Arrived(p)' = Arrived(p) + moved[r][p]
  <2>1. PICK m : m = moved[r][p]
    OBVIOUS
  <2>2. StoredOf(b, p, m)
    BY <1>1, <1>3, <2>1 DEF KardexInv, MovedAt
  <2>3. m \in Int /\ BroughtBy(x, p) = BroughtBy(w, p) + m
    BY <1>4, <1>5, <1>9, <2>2, StoredHasArrived
  <2>4. Arrived(p)' = Arrived(p) + m
    BY <1>1, <1>4, <1>8, <1>10, <2>3, OrderWritten
  <2>5. QED
    BY <2>1, <2>3, <2>4
<1>13. pc'[r] \notin SellsLabel \cup ReceiveLabel \cup TakesLabel
  BY <1>2, <1>3, MovesLabels
<1>14. MovedAt(r)'
  BY <1>11, <1>13, NothingMoved
<1>15. \A q \in Request \ {r} : purchasing'[q] = purchasing[q]
  BY <1>2, <1>4
<1>16. QED
  BY <1>11, <1>12, <1>14, <1>15 DEF BuyMoved

LEMMA BuyMoves ==
    ASSUME BuyBefore, KardexInv, PurchasesNext
    PROVE  \E r \in Request : BuyKept(r) /\ BuyMoved(r)
<1>1. PICK r \in Request :
        \/ \E s \in Supply : StartPurchase(r, s)
        \/ \E n \in Ordered : \/ \E due \in Named(n) : StartReceive(r, n, due)
                              \/ StartCancelPurchase(r, n)
                              \/ \E p \in {"PENDING", "PAID"} : StartUpdatePurchase(r, n, p)
        \/ PurchaseStep(r)
        \/ RollbackPurchase(r)
  BY DEF PurchasesNext
<1>2. CASE \/ \E s \in Supply : StartPurchase(r, s)
           \/ \E n \in Ordered : \/ StartCancelPurchase(r, n)
                                 \/ \E p \in {"PENDING", "PAID"} : StartUpdatePurchase(r, n, p)
  BY <1>2, StartsKeep, BuyStartsQuiet
<1>3. CASE \E n \in Ordered : \E due \in Named(n) : StartReceive(r, n, due)
  BY <1>3, StartReceiveKeeps, ReceiveStarts
<1>4. CASE PurchaseStep(r)
  <2>1. BuyKept(r)
    BY <1>4, CreateKeeps, CommitPurchaseKeeps, SkipItemKeeps, ReadItemKeeps, StoreItemKeeps,
       RefreshItemsKeeps, WriteReceivedKeeps, CommitReceiveKeeps, EditKeeps DEF PurchaseStep
  <2>2. BuyMoved(r)
    BY <1>4, BuyStartsQuiet, BuyWritesQuiet, ReceiveQuiet, ReceiveStores, ReceiveCommits
       DEF PurchaseStep
  <2>3. QED
    BY <2>1, <2>2
<1>5. CASE RollbackPurchase(r)
  BY <1>5, RollbackPurchaseKeeps, BuyRollsBack
<1>6. QED
  BY <1>1, <1>2, <1>3, <1>4, <1>5

LEMMA BuyKeepsKardex ==
    ASSUME ShopInv, KardexInv, PurchasesNext, UNCHANGED <<saleVars, workVars>>
    PROVE  KardexInv'
<1>1. TypeInv /\ BuyInv /\ RepairInv /\ BuyBefore
  BY DEF ShopInv, StockInv, BuyBefore
<1>2. PICK r \in Request : BuyKept(r) /\ BuyMoved(r)
  BY <1>1, BuyMoves
<1>3. UNCHANGED <<sale, order, at, number, workOrder, repairing>>
  BY DEF saleVars, workVars
<1>4. OthersStay(r)
  BY <1>2, <1>3 DEF OthersStay, BuyKept, BuyMoved, OneSlot
<1>5. ReturnsAt(r)'
  BY <1>2, MovesLabels DEF BuyKept, OneSlot, ReturnsAt
<1>6. KardexMatchesDocuments'
  <2>1. \A p \in Product : Back(p)' = Back(p) /\ Fitted(p)' = Fitted(p)
    BY <1>3, DocumentsStay
  <2>2. QED
    BY <1>1, <1>2, <2>1, KardexBalances DEF BuyMoved
<1>7. QED
  BY <1>1, <1>2, <1>3, <1>4, <1>5, <1>6, MovementsStay DEF BuyMoved

-----------------------------------------------------------------------------
(* Sales and cancellations *)

\* What a step of a sale or a cancellation must do to the movements.
SaleMoved(r) ==
    /\ ReturnsAt(r)' /\ MovedAt(r)'
    /\ \A q \in Request \ {r} :
         /\ pc'[q] = pc[q] /\ moved'[q] = moved[q]
         /\ order'[q] = order[q] /\ at'[q] = at[q] /\ number'[q] = number[q]
    /\ \A n \in Registered : sale'[n].order = sale[n].order
    /\ \A p \in Product : \E v \in Int : kardex'[p] = kardex[p] + v /\ Back(p)' = Back(p) + v

LEMMA SaleFacts ==
    ASSUME ShopInv
    PROVE  /\ TypeInv /\ CodesInv /\ BuyInv /\ RepairInv
           /\ DOMAIN pc = Request /\ DOMAIN order = Request /\ DOMAIN at = Request
           /\ DOMAIN number = Request /\ RowsTypeOK /\ kardex \in [Product -> Int]
           /\ moved \in [Request -> [Product -> Int]]
           /\ \A r \in Request : LocalAt(r) /\ at[r] \in Nat
           /\ "idle" \notin SellsLabel \cup ReceiveLabel \cup TakesLabel
           /\ \A x \in {"validate", "count", "insert"} :
                x \notin SellsLabel \cup ReceiveLabel \cup TakesLabel
<1>1. {"validate", "count", "insert"} \cap SellsLabel = {}
  BY DEF SellsLabel, CancelLabel
<1>2. {"validate", "count", "insert"} \subseteq SaleLabel
  BY DEF SaleLabel, CreateLabel
<1>3. \A x \in {"validate", "count", "insert"} :
        x \notin SellsLabel \cup ReceiveLabel \cup TakesLabel
  BY <1>1, <1>2, MovesLabels
<1>4. "idle" \notin SellsLabel \cup ReceiveLabel \cup TakesLabel
  BY MovesLabels
<1>5. QED
  BY <1>3, <1>4 DEF ShopInv, TypeInv, LocalOK, TypeOK, RowsTypeOK

LEMMA SaleZero ==
    ASSUME ShopInv, KardexInv, NEW r \in Request, pc[r] \in {"idle", "validate", "count", "insert"}
    PROVE  \A p \in Product : moved[r][p] = 0
<1>1. pc[r] \notin SellsLabel \cup ReceiveLabel \cup TakesLabel
  BY SaleFacts
<1>2. QED
  BY <1>1 DEF KardexInv, MovedAt

\* A handler that holds movements of its order.
LEMMA SellsMoved ==
    ASSUME NEW r \in Request, pc'[r] \in SellsLabel,
           \A p \in Product : moved'[r][p] = SoldBy(r, p)'
    PROVE  MovedAt(r)'
<1>1. pc'[r] \notin ReceiveLabel \cup TakesLabel
  BY MovesLabels
<1>2. QED
  BY <1>1 DEF MovedAt

\* A step that registers and cancels nothing.
LEMMA SaleGoesOn ==
    ASSUME ShopInv, NEW r \in Request, kardex' = kardex, UNCHANGED sale,
           \A q \in Request \ {r} :
             /\ pc'[q] = pc[q] /\ moved'[q] = moved[q]
             /\ order'[q] = order[q] /\ at'[q] = at[q] /\ number'[q] = number[q],
           ReturnsAt(r)', MovedAt(r)'
    PROVE  SaleMoved(r)
<1>1. ASSUME NEW p \in Product
      PROVE  kardex'[p] = kardex[p] + 0 /\ Back(p)' = Back(p) + 0
  <2>1. PICK k, b : k = kardex[p] /\ b = Back(p)
    OBVIOUS
  <2>2. k \in Int /\ b \in Int
    BY <2>1, SaleFacts, DocumentsAreInt
  <2>3. Back(p)' = b
    BY <2>1, DocumentsStay
  <2>4. QED
    BY <2>1, <2>2, <2>3
<1>2. \A p \in Product : \E v \in Int : kardex'[p] = kardex[p] + v /\ Back(p)' = Back(p) + v
  <2>1. 0 \in Int
    OBVIOUS
  <2>2. QED
    BY <1>1, <2>1
<1>3. QED
  BY <1>2 DEF SaleMoved

\* create, before it writes a row
LEMMA SaleBegins ==
    ASSUME ShopInv, KardexInv, NEW r \in Request,
           (\E o \in Order : StartSale(r, o)) \/ ValidateItem(r) \/ CountSales(r)
    PROVE  SaleMoved(r)
<1> USE DEF Step
<1>1. /\ pc[r] \in {"idle", "validate", "count", "insert"}
      /\ pc'[r] \in {"idle", "validate", "count", "insert"} /\ UNCHANGED <<rowVars, sale>>
      /\ \A q \in Request \ {r} : pc'[q] = pc[q] /\ order'[q] = order[q] /\ at'[q] = at[q]
                                   /\ number'[q] = number[q]
  <2>1. CASE \E o \in Order : StartSale(r, o)
    BY <2>1, SaleFacts DEF StartSale
  <2>2. CASE ValidateItem(r)
    BY <2>2, SaleFacts DEF ValidateItem, NextItem
  <2>3. CASE CountSales(r)
    BY <2>3, SaleFacts DEF CountSales
  <2>4. QED
    BY <2>1, <2>2, <2>3
<1>2. kardex' = kardex /\ moved' = moved
  BY <1>1 DEF rowVars
<1>3. \A p \in Product : moved[r][p] = 0
  BY <1>1, SaleZero
<1>4. pc'[r] \notin SellsLabel \cup ReceiveLabel \cup TakesLabel
  BY <1>1, SaleFacts
<1>5. ReturnsAt(r)' /\ MovedAt(r)'
  BY <1>2, <1>3, <1>4, NothingMoved
<1>6. QED
  BY <1>1, <1>2, <1>5, SaleGoesOn

LEMMA SaleInserts ==
    ASSUME ShopInv, KardexInv, NEW r \in Request, InsertSale(r)
    PROVE  SaleMoved(r)
<1>1. /\ pc[r] = "insert" /\ pc'[r] = "decrement" /\ UNCHANGED <<sale, order, at, number>>
      /\ kardex' = kardex /\ moved' = moved /\ \A q \in Request \ {r} : pc'[q] = pc[q]
  BY SaleFacts DEF InsertSale, Step, saleVars, rowVars
<1>2. at[r] = 1 /\ order[r] \in Order
  BY <1>1, SaleFacts DEF LocalAt, SaleLabel, CreateLabel
<1>3. Done(r)' = 0
  BY <1>1, <1>2 DEF Done
<1>4. \A p \in Product : moved'[r][p] = 0 /\ taken[order[r]][0][p] = 0
  BY <1>1, <1>2, SaleZero, TakenFacts
<1>5. \A p \in Product : SoldBy(r, p)' = -taken[order[r]][0][p]
  BY <1>1, <1>3 DEF SoldBy
<1>6. \A p \in Product : moved'[r][p] = SoldBy(r, p)'
  BY <1>4, <1>5
<1>7. pc'[r] \in SellsLabel /\ pc'[r] \notin CancelLabel
  BY <1>1 DEF SellsLabel, CancelLabel
<1>8. ReturnsAt(r)' /\ MovedAt(r)'
  BY <1>6, <1>7, SellsMoved DEF ReturnsAt
<1>9. QED
  BY <1>1, <1>8, SaleGoesOn

\* The loops of create and cancel: one item is written, and the next is at hand.
LEMMA ItemWritten ==
    ASSUME ShopInv, NEW r \in Request, pc[r] \in {"decrement", "restock"},
           NEW from, NEW again, NEW next, NextItem(r, from, again, next),
           NEW value, NEW d \in {-Item(r).quantity, Item(r).quantity},
           WriteStock(r, Item(r).product, value, d)
    PROVE  /\ order[r] \in Order /\ at[r] \in 1..Len(order[r].items)
           /\ Len(order[r].items) \in Nat
           /\ kardex' = kardex
           /\ \A q \in Request \ {r} : pc'[q] = pc[q] /\ moved'[q] = moved[q] /\ at'[q] = at[q]
           /\ \/ pc'[r] = again /\ at'[r] = at[r] + 1
              \/ pc'[r] = next /\ at[r] = Len(order[r].items)
           /\ \A p \in Product :
                /\ taken[order[r]][at[r] - 1][p] \in Nat /\ taken[order[r]][at[r]][p] \in Nat
                /\ d = Item(r).quantity =>
                     moved'[r][p] = moved[r][p] + (taken[order[r]][at[r]][p] - taken[order[r]][at[r] - 1][p])
                /\ d = -Item(r).quantity =>
                     moved'[r][p] = moved[r][p] - (taken[order[r]][at[r]][p] - taken[order[r]][at[r] - 1][p])
<1>1. PICK o, k, x, u : o = order[r] /\ k = at[r] /\ x = Item(r).product /\ u = Item(r).quantity
  OBVIOUS
<1>2. /\ o \in Order /\ k \in 1..Len(o.items) /\ Len(o.items) \in Nat
      /\ x \in Product /\ u \in Nat
  BY <1>1, SaleFacts, ItemFacts
<1>3. x = o.items[k].product /\ u = o.items[k].quantity
  BY <1>1 DEF Item
<1>4. /\ kardex' = kardex /\ \A q \in Request \ {r} : moved'[q] = moved[q]
      /\ \A p \in Product : moved'[r][p] = IF p = x THEN moved[r][p] + d ELSE moved[r][p]
  <2>1. WriteStock(r, x, value, d)
    BY <1>1
  <2>2. QED
    BY <1>2, <2>1, SaleFacts, RowsMove
<1>5. /\ \A q \in Request \ {r} : pc'[q] = pc[q] /\ at'[q] = at[q]
      /\ \/ pc'[r] = again /\ at'[r] = k + 1
         \/ pc'[r] = next /\ k = Len(o.items)
  BY <1>1, <1>2, SaleFacts DEF NextItem, Step
<1>6. ASSUME NEW p \in Product
      PROVE  /\ taken[o][k - 1][p] \in Nat /\ taken[o][k][p] \in Nat
             /\ d = u => moved'[r][p] = moved[r][p] + (taken[o][k][p] - taken[o][k - 1][p])
             /\ d = -u => moved'[r][p] = moved[r][p] - (taken[o][k][p] - taken[o][k - 1][p])
  <2>1. k - 1 \in 0..Len(o.items) /\ k \in 0..Len(o.items)
    BY <1>2
  <2>2. PICK a, b, m : a = taken[o][k - 1][p] /\ b = taken[o][k][p] /\ m = moved[r][p]
    OBVIOUS
  <2>3. a \in Nat /\ b \in Nat /\ m \in Int
    <3>1. taken[o][k - 1][p] \in Nat /\ taken[o][k][p] \in Nat
      BY <1>2, <2>1, TakenFacts
    <3>2. moved[r][p] \in Int
      BY SaleFacts
    <3>3. QED
      BY <2>2, <3>1, <3>2
  <2>4. b = a + IF p = x THEN u ELSE 0
    BY <1>2, <1>3, <2>2, TakenFacts
  <2>5. moved'[r][p] = IF p = x THEN m + d ELSE m
    BY <1>4, <2>2
  <2>6. /\ d = u => moved'[r][p] = m + (b - a)
        /\ d = -u => moved'[r][p] = m - (b - a)
    BY <1>2, <2>3, <2>4, <2>5
  <2>7. QED
    BY <2>2, <2>3, <2>6
<1>7. QED
  BY <1>1, <1>2, <1>4, <1>5, <1>6

\* create, the loop over its items
LEMMA SaleDecrements ==
    ASSUME ShopInv, KardexInv, NEW r \in Request, DecrementStock(r)
    PROVE  SaleMoved(r)
<1>1. /\ NextItem(r, "decrement", "decrement", "collect") /\ pc[r] = "decrement"
      /\ WriteStock(r, Item(r).product, live[Item(r).product] - Item(r).quantity, -Item(r).quantity)
      /\ UNCHANGED <<sale, order, number>>
  BY DEF DecrementStock, NextItem
<1>2. PICK o, k, L : o = order[r] /\ k = at[r] /\ L = Len(order[r].items)
  OBVIOUS
<1>3. /\ k \in 1..L /\ L \in Nat /\ kardex' = kardex
      /\ \A q \in Request \ {r} : pc'[q] = pc[q] /\ moved'[q] = moved[q] /\ at'[q] = at[q]
      /\ \/ pc'[r] = "decrement" /\ at'[r] = k + 1
         \/ pc'[r] = "collect" /\ k = L
      /\ \A p \in Product :
           /\ taken[o][k - 1][p] \in Nat /\ taken[o][k][p] \in Nat
           /\ moved'[r][p] = moved[r][p] - (taken[o][k][p] - taken[o][k - 1][p])
  <2>1. PICK d, value : d = -Item(r).quantity /\ value = live[Item(r).product] - Item(r).quantity
    OBVIOUS
  <2>2. WriteStock(r, Item(r).product, value, d)
    BY <1>1, <2>1
  <2>3. d \in {-Item(r).quantity, Item(r).quantity} /\ pc[r] \in {"decrement", "restock"}
    BY <1>1, <2>1
  <2>4. /\ at[r] \in 1..Len(order[r].items) /\ Len(order[r].items) \in Nat /\ kardex' = kardex
        /\ \A q \in Request \ {r} : pc'[q] = pc[q] /\ moved'[q] = moved[q] /\ at'[q] = at[q]
        /\ \/ pc'[r] = "decrement" /\ at'[r] = at[r] + 1
           \/ pc'[r] = "collect" /\ at[r] = Len(order[r].items)
        /\ \A p \in Product :
             /\ taken[order[r]][at[r] - 1][p] \in Nat /\ taken[order[r]][at[r]][p] \in Nat
             /\ d = -Item(r).quantity =>
                  moved'[r][p] = moved[r][p] - (taken[order[r]][at[r]][p] - taken[order[r]][at[r] - 1][p])
    BY <1>1, <2>2, <2>3, ItemWritten
  <2>5. QED
    BY <1>2, <2>1, <2>4
<1>4. pc'[r] \in {"decrement", "collect"} /\ pc'[r] \in SellsLabel /\ pc'[r] \notin CancelLabel
  BY <1>3 DEF SellsLabel, CancelLabel
<1>5. Done(r) = k - 1 /\ Done(r)' = k
  BY <1>1, <1>2, <1>3 DEF Done
<1>6. ASSUME NEW p \in Product
      PROVE  moved'[r][p] = SoldBy(r, p)'
  <2>1. moved[r][p] = -taken[o][k - 1][p]
    BY <1>1, <1>2, <1>5 DEF KardexInv, MovedAt, SellsLabel, SoldBy
  <2>2. SoldBy(r, p)' = -taken[o][k][p]
    BY <1>1, <1>2, <1>4, <1>5 DEF SoldBy
  <2>3. PICK a, b : a = taken[o][k - 1][p] /\ b = taken[o][k][p]
    OBVIOUS
  <2>4. a \in Nat /\ b \in Nat /\ moved'[r][p] = -a - (b - a)
    BY <1>3, <2>1, <2>3
  <2>5. QED
    BY <2>2, <2>3, <2>4
<1>7. ReturnsAt(r)' /\ MovedAt(r)'
  BY <1>4, <1>6, SellsMoved DEF ReturnsAt
<1>8. QED
  BY <1>1, <1>3, <1>7, SaleGoesOn

LEMMA SaleCollects ==
    ASSUME ShopInv, KardexInv, NEW r \in Request, CollectPayment(r)
    PROVE  SaleMoved(r)
<1>1. /\ pc[r] = "collect" /\ pc'[r] = "commitSale" /\ UNCHANGED <<sale, order, at, number>>
      /\ kardex' = kardex /\ moved' = moved /\ \A q \in Request \ {r} : pc'[q] = pc[q]
  BY SaleFacts DEF CollectPayment, Step, saleVars, rowVars
<1>2. Done(r)' = Done(r)
  BY <1>1 DEF Done
<1>3. \A p \in Product : SoldBy(r, p)' = SoldBy(r, p)
  BY <1>1, <1>2 DEF SoldBy
<1>4. \A p \in Product : moved'[r][p] = SoldBy(r, p)'
  BY <1>1, <1>3 DEF KardexInv, MovedAt, SellsLabel
<1>5. pc'[r] \in SellsLabel /\ pc'[r] \notin CancelLabel
  BY <1>1 DEF SellsLabel, CancelLabel
<1>6. ReturnsAt(r)' /\ MovedAt(r)'
  BY <1>4, <1>5, SellsMoved DEF ReturnsAt
<1>7. QED
  BY <1>1, <1>6, SaleGoesOn

\* The handler answers, and leaves nothing behind.
LEMMA SaleAnswers ==
    ASSUME ShopInv, NEW r \in Request, pc' = [pc EXCEPT ![r] = "idle"], Forget(r),
           CommitRows(r) \/ RollbackRows(r)
    PROVE  /\ ReturnsAt(r)' /\ MovedAt(r)'
           /\ \A q \in Request \ {r} :
                /\ pc'[q] = pc[q] /\ moved'[q] = moved[q]
                /\ order'[q] = order[q] /\ at'[q] = at[q] /\ number'[q] = number[q]
<1>1. \A p \in Product : moved'[r][p] = 0
  BY SaleFacts, RowsMove
<1>2. pc'[r] \notin SellsLabel \cup ReceiveLabel \cup TakesLabel
  BY SaleFacts
<1>3. \A q \in Request \ {r} : moved'[q] = moved[q]
  BY SaleFacts, RowsMove
<1>4. \A q \in Request \ {r} :
        pc'[q] = pc[q] /\ order'[q] = order[q] /\ at'[q] = at[q] /\ number'[q] = number[q]
  BY SaleFacts DEF Forget
<1>5. QED
  BY <1>1, <1>2, <1>3, <1>4, NothingMoved

LEMMA SaleRollsBack ==
    ASSUME ShopInv, KardexInv, NEW r \in Request, RollbackSale(r)
    PROVE  SaleMoved(r)
<1>1. pc' = [pc EXCEPT ![r] = "idle"] /\ Forget(r) /\ RollbackRows(r) /\ UNCHANGED sale
  BY DEF RollbackSale
<1>2. kardex' = kardex
  BY <1>1 DEF RollbackRows
<1>3. QED
  BY <1>1, <1>2, SaleAnswers, SaleGoesOn

\* create, its commit: the Sale row and the movements appear together.
LEMMA SaleCommits ==
    ASSUME ShopInv, KardexInv, NEW r \in Request, CommitSale(r)
    PROVE  SaleMoved(r)
<1>1. /\ pc[r] = "commitSale" /\ pc' = [pc EXCEPT ![r] = "idle"]
      /\ CommitRows(r) /\ Forget(r)
  BY DEF CommitSale, Step
<1>2. PICK n, o : n = number[r] /\ o = order[r]
  OBVIOUS
<1>3. PICK row : row = [status |-> "COMPLETED", order |-> o, till |-> till[r], cancellations |-> 0]
  OBVIOUS
<1>4. TypeInv /\ CodesInv /\ sale \in [SaleNumber -> SaleRow \cup {NoSale}]
  BY SaleFacts DEF TypeInv, TypeOK
<1>5. n \in SaleNumber /\ o \in Order /\ n \notin Registered
  <2>1. n \in SaleNumber /\ o \in Order
    BY <1>1, <1>2, SaleFacts DEF LocalAt, SaleLabel, CreateLabel
  <2>2. n = Cardinality(Registered) + 1 /\ Registered = 1..Cardinality(Registered)
    BY <1>1, <1>2, <1>4 DEF CodesInv, NumbersInRange, CodesAreConsecutive, HasInserted
  <2>3. QED
    BY <2>1, <2>2, RegisteredFinite
<1>6. sale' = [sale EXCEPT ![n] = row]
  BY <1>2, <1>3 DEF CommitSale
<1>7. /\ sale'[n] = row /\ \A m \in SaleNumber \ {n} : sale'[m] = sale[m]
      /\ row.status = "COMPLETED" /\ row.order = o /\ row.cancellations = 0
  BY <1>3, <1>4, <1>5, <1>6
<1>8. Registered' = Registered \cup {n} /\ \A m \in Registered \ {n} : sale'[m] = sale[m]
  BY <1>5, <1>7 DEF Registered
<1>9. ASSUME NEW p \in Product
      PROVE  \E v \in Int : kardex'[p] = kardex[p] + v /\ Back(p)' = Back(p) + v
  <2>1. PICK u : u = UnitsOf(o.items, p)
    OBVIOUS
  <2>2. u \in Nat /\ taken[o][Len(o.items)][p] = u
    BY <1>5, <2>1, TakenIsUnits
  <2>3. moved[r][p] = -u
    BY <1>1, <1>2, <2>2 DEF KardexInv, MovedAt, SellsLabel, SoldBy, Done
  <2>4. kardex'[p] = kardex[p] + moved[r][p]
    BY <1>1, SaleFacts, RowsMove
  <2>5. PICK v \in Int : v = -u
    BY <2>2
  <2>6. Returned(n, p)' = v
    <3>1. Returned(n, p)' = (0 - 1) * u
      BY <1>7, <2>1 DEF Returned
    <3>2. QED
      BY <2>2, <2>5, <3>1
  <2>7. Back(p)' = Back(p) + v
    BY <1>4, <1>5, <1>8, <2>6, BackMoves
  <2>8. QED
    BY <2>3, <2>4, <2>5, <2>7
<1>10. /\ ReturnsAt(r)' /\ MovedAt(r)'
       /\ \A q \in Request \ {r} :
            /\ pc'[q] = pc[q] /\ moved'[q] = moved[q]
            /\ order'[q] = order[q] /\ at'[q] = at[q] /\ number'[q] = number[q]
  BY <1>1, SaleAnswers
<1>11. \A m \in Registered : sale'[m].order = sale[m].order
  BY <1>5, <1>8
<1>12. QED
  BY <1>9, <1>10, <1>11 DEF SaleMoved

\* cancel reads the sale it will put back.
LEMMA CancelBegins ==
    ASSUME ShopInv, KardexInv, NEW r \in Request, NEW n \in SaleNumber, StartCancel(r, n)
    PROVE  SaleMoved(r)
<1>1. /\ pc[r] = "idle" /\ pc'[r] = "readStock" /\ UNCHANGED sale
      /\ kardex' = kardex /\ moved' = moved
      /\ number'[r] = n /\ order'[r] = sale[n].order /\ at'[r] = 1
      /\ sale[n].status = "COMPLETED"
      /\ \A q \in Request \ {r} : pc'[q] = pc[q] /\ order'[q] = order[q] /\ at'[q] = at[q]
                                   /\ number'[q] = number[q]
  BY SaleFacts DEF StartCancel, Step, rowVars
<1>2. sale[n].order \in Order
  <2>1. sale[n] \in SaleRow
    BY <1>1, SaleFacts DEF TypeInv, TypeOK, NoSale
  <2>2. QED
    BY <2>1 DEF SaleRow
<1>3. \A p \in Product : moved'[r][p] = 0 /\ taken[order'[r]][0][p] = 0
  BY <1>1, <1>2, SaleZero, TakenFacts
<1>4. \A p \in Product : SoldBy(r, p)' = taken[order'[r]][0][p]
  BY <1>1 DEF SoldBy
<1>5. \A p \in Product : moved'[r][p] = SoldBy(r, p)'
  BY <1>3, <1>4
<1>6. pc'[r] \in SellsLabel
  BY <1>1 DEF SellsLabel, CancelLabel
<1>7. ReturnsAt(r)' /\ MovedAt(r)'
  BY <1>1, <1>5, <1>6, SellsMoved DEF ReturnsAt
<1>8. QED
  BY <1>1, <1>7, SaleGoesOn

\* The statements of cancel that write no row of a product.
LEMMA CancelGoesOn ==
    ASSUME ShopInv, KardexInv, NEW r \in Request, ReadStock(r) \/ MarkCancelled(r) \/ RefundSale(r)
    PROVE  SaleMoved(r)
<1>1. /\ \/ pc[r] = "readStock" /\ pc'[r] = "restock"
         \/ pc[r] = "mark" /\ pc'[r] = "refund"
         \/ pc[r] = "refund" /\ pc'[r] = "commitCancel"
      /\ UNCHANGED <<sale, order, at, number>> /\ kardex' = kardex /\ moved' = moved
      /\ \A q \in Request \ {r} : pc'[q] = pc[q]
  BY SaleFacts DEF ReadStock, MarkCancelled, RefundSale, Step, saleVars, rowVars
<1>2. \A p \in Product : SoldBy(r, p)' = SoldBy(r, p)
  BY <1>1 DEF SoldBy
<1>3. /\ pc[r] \in SellsLabel /\ pc[r] \in CancelLabel
      /\ pc'[r] \in SellsLabel /\ pc'[r] \in CancelLabel
  BY <1>1 DEF SellsLabel, CancelLabel
<1>4. \A p \in Product : moved'[r][p] = SoldBy(r, p)'
  BY <1>1, <1>2, <1>3 DEF KardexInv, MovedAt
<1>5. ReturnsAt(r)'
  BY <1>1, <1>3 DEF KardexInv, ReturnsAt
<1>6. MovedAt(r)'
  BY <1>3, <1>4, SellsMoved
<1>7. QED
  BY <1>1, <1>5, <1>6, SaleGoesOn

\* cancel, the loop over the items it puts back
LEMMA CancelRestocks ==
    ASSUME ShopInv, KardexInv, NEW r \in Request, Restock(r)
    PROVE  SaleMoved(r)
<1>1. /\ NextItem(r, "restock", "readStock", "mark") /\ pc[r] = "restock"
      /\ WriteStock(r, Item(r).product, seen[r] + Item(r).quantity, Item(r).quantity)
      /\ UNCHANGED <<sale, order, number>>
  BY DEF Restock, NextItem
<1>2. PICK o, k, L : o = order[r] /\ k = at[r] /\ L = Len(order[r].items)
  OBVIOUS
<1>3. /\ k \in 1..L /\ L \in Nat /\ kardex' = kardex
      /\ \A q \in Request \ {r} : pc'[q] = pc[q] /\ moved'[q] = moved[q] /\ at'[q] = at[q]
      /\ \/ pc'[r] = "readStock" /\ at'[r] = k + 1
         \/ pc'[r] = "mark" /\ k = L
      /\ \A p \in Product :
           /\ taken[o][k - 1][p] \in Nat /\ taken[o][k][p] \in Nat
           /\ moved'[r][p] = moved[r][p] + (taken[o][k][p] - taken[o][k - 1][p])
  <2>1. PICK d, value : d = Item(r).quantity /\ value = seen[r] + Item(r).quantity
    OBVIOUS
  <2>2. WriteStock(r, Item(r).product, value, d)
    BY <1>1, <2>1
  <2>3. d \in {-Item(r).quantity, Item(r).quantity} /\ pc[r] \in {"decrement", "restock"}
    BY <1>1, <2>1
  <2>4. /\ at[r] \in 1..Len(order[r].items) /\ Len(order[r].items) \in Nat /\ kardex' = kardex
        /\ \A q \in Request \ {r} : pc'[q] = pc[q] /\ moved'[q] = moved[q] /\ at'[q] = at[q]
        /\ \/ pc'[r] = "readStock" /\ at'[r] = at[r] + 1
           \/ pc'[r] = "mark" /\ at[r] = Len(order[r].items)
        /\ \A p \in Product :
             /\ taken[order[r]][at[r] - 1][p] \in Nat /\ taken[order[r]][at[r]][p] \in Nat
             /\ d = Item(r).quantity =>
                  moved'[r][p] = moved[r][p] + (taken[order[r]][at[r]][p] - taken[order[r]][at[r] - 1][p])
    BY <1>1, <2>2, <2>3, ItemWritten
  <2>5. QED
    BY <1>2, <2>1, <2>4
<1>4. /\ pc[r] \in SellsLabel /\ pc[r] \in CancelLabel
      /\ pc'[r] \in SellsLabel /\ pc'[r] \in CancelLabel
  BY <1>1, <1>3 DEF SellsLabel, CancelLabel
<1>5. ASSUME NEW p \in Product
      PROVE  moved'[r][p] = SoldBy(r, p)'
  <2>1. moved[r][p] = taken[o][k - 1][p]
    BY <1>1, <1>2, <1>4 DEF KardexInv, MovedAt, SoldBy
  <2>2. SoldBy(r, p)' = taken[o][k][p]
    <3>1. CASE pc'[r] = "readStock" /\ at'[r] = k + 1
      <4>1. SoldBy(r, p)' = taken[o][at'[r] - 1][p]
        BY <1>1, <1>2, <3>1 DEF SoldBy
      <4>2. at'[r] - 1 = k
        BY <1>3, <3>1
      <4>3. QED
        BY <4>1, <4>2
    <3>2. CASE pc'[r] = "mark" /\ k = L
      BY <1>1, <1>2, <3>2 DEF SoldBy
    <3>3. QED
      BY <1>3, <3>1, <3>2
  <2>3. PICK a, b : a = taken[o][k - 1][p] /\ b = taken[o][k][p]
    OBVIOUS
  <2>4. a \in Nat /\ b \in Nat /\ moved'[r][p] = a + (b - a)
    BY <1>3, <2>1, <2>3
  <2>5. QED
    BY <2>2, <2>3, <2>4
<1>6. ReturnsAt(r)'
  BY <1>1, <1>4 DEF KardexInv, ReturnsAt
<1>7. MovedAt(r)'
  BY <1>4, <1>5, SellsMoved
<1>8. QED
  BY <1>1, <1>3, <1>6, <1>7, SaleGoesOn

\* cancel, its commit: one more cancellation of the sale, and its movements.
LEMMA CancelCommits ==
    ASSUME ShopInv, KardexInv, NEW r \in Request, CommitCancel(r)
    PROVE  SaleMoved(r)
<1>1. /\ pc[r] = "commitCancel" /\ pc' = [pc EXCEPT ![r] = "idle"]
      /\ CommitRows(r) /\ Forget(r)
  BY DEF CommitCancel, Step
<1>2. PICK n, o : n = number[r] /\ o = order[r]
  OBVIOUS
<1>3. pc[r] \in SellsLabel /\ pc[r] \in CancelLabel
  BY <1>1 DEF SellsLabel, CancelLabel
<1>4. TypeInv /\ sale \in [SaleNumber -> SaleRow \cup {NoSale}]
  BY SaleFacts DEF TypeInv, TypeOK
<1>5. n \in Registered /\ n \in SaleNumber /\ sale[n] \in SaleRow
  <2>1. n \in Registered
    BY <1>2, <1>3, SaleFacts DEF LocalAt
  <2>2. QED
    BY <1>4, <2>1 DEF Registered, NoSale
<1>6. sale[n].order = o
  BY <1>2, <1>3 DEF KardexInv, ReturnsAt
<1>7. PICK c, row, done : c = sale[n].cancellations /\ row = sale[n] /\ done = sale'[n]
  OBVIOUS
<1>8. /\ done.status = "CANCELLED" /\ done.order = o /\ done.cancellations = c + 1
      /\ c \in Nat /\ o \in Order
  <2>1. sale' = [sale EXCEPT ![n].status = "CANCELLED", ![n].cancellations = @ + 1]
    BY <1>2 DEF CommitCancel
  <2>2. done = [row EXCEPT !.status = "CANCELLED", !.cancellations = @ + 1]
    BY <1>4, <1>5, <1>7, <2>1 DEF SaleRow
  <2>3. QED
    BY <1>5, <1>6, <1>7, <2>2 DEF SaleRow
<1>9. \A m \in SaleNumber \ {n} : sale'[m] = sale[m]
  BY <1>2, <1>4, <1>5 DEF CommitCancel
<1>10. /\ Registered' = Registered \cup {n}
       /\ \A m \in Registered \ {n} : sale'[m] = sale[m]
       /\ \A m \in Registered : sale'[m].order = sale[m].order
  BY <1>5, <1>6, <1>7, <1>8, <1>9 DEF Registered
<1>11. ASSUME NEW p \in Product
       PROVE  \E v \in Int : kardex'[p] = kardex[p] + v /\ Back(p)' = Back(p) + v
  <2>1. PICK u : u = UnitsOf(o.items, p)
    OBVIOUS
  <2>2. u \in Nat /\ taken[o][Len(o.items)][p] = u
    BY <1>8, <2>1, TakenIsUnits
  <2>3. moved[r][p] = u
    BY <1>1, <1>2, <1>3, <2>2 DEF KardexInv, MovedAt, SoldBy
  <2>4. kardex'[p] = kardex[p] + moved[r][p]
    BY <1>1, SaleFacts, RowsMove
  <2>5. Returned(n, p)' = Returned(n, p) + u
    <3>1. Returned(n, p)' = (c + 1 - 1) * u
      BY <1>7, <1>8, <2>1 DEF Returned
    <3>2. Returned(n, p) = (c - 1) * u
      BY <1>6, <1>7, <2>1 DEF Returned
    <3>3. (c + 1 - 1) * u = (c - 1) * u + u
      BY <1>8, <2>2
    <3>4. QED
      BY <3>1, <3>2, <3>3
  <2>6. u \in Int
    BY <2>2
  <2>7. Back(p)' = Back(p) + u
    BY <1>4, <1>5, <1>10, <2>5, <2>6, BackMoves
  <2>8. QED
    BY <2>3, <2>4, <2>6, <2>7
<1>12. /\ ReturnsAt(r)' /\ MovedAt(r)'
       /\ \A q \in Request \ {r} :
            /\ pc'[q] = pc[q] /\ moved'[q] = moved[q]
            /\ order'[q] = order[q] /\ at'[q] = at[q] /\ number'[q] = number[q]
  BY <1>1, SaleAnswers
<1>13. QED
  BY <1>10, <1>11, <1>12 DEF SaleMoved

LEMMA SaleMoves ==
    ASSUME ShopInv, KardexInv, Next
    PROVE  \E r \in Request : SaleMoved(r)
<1>1. PICK r \in Request :
        \/ \E o \in Order : StartSale(r, o)
        \/ CreateStep(r)
        \/ RollbackSale(r)
        \/ \E n \in SaleNumber : StartCancel(r, n)
        \/ CancelStep(r)
  BY DEF Next, SellNext, CancelNext
<1> SUFFICES SaleMoved(r)
  OBVIOUS
<1>2. CASE \E o \in Order : StartSale(r, o)
  BY <1>2, SaleBegins
<1>3. CASE CreateStep(r)
  BY <1>3, SaleBegins, SaleInserts, SaleDecrements, SaleCollects, SaleCommits DEF CreateStep
<1>4. CASE RollbackSale(r)
  BY <1>4, SaleRollsBack
<1>5. CASE \E n \in SaleNumber : StartCancel(r, n)
  BY <1>5, CancelBegins
<1>6. CASE CancelStep(r)
  BY <1>6, CancelGoesOn, CancelRestocks, CancelCommits DEF CancelStep
<1>7. QED
  BY <1>1, <1>2, <1>3, <1>4, <1>5, <1>6

LEMMA SalesKeepKardex ==
    ASSUME ShopInv, KardexInv, Next, UNCHANGED <<purchaseVars, workVars>>
    PROVE  KardexInv'
<1>1. TypeInv /\ BuyInv /\ RepairInv
  BY DEF ShopInv
<1>2. PICK r \in Request : SaleMoved(r)
  BY SaleMoves
<1>3. UNCHANGED <<purchase, purchasing, workOrder, repairing>>
  BY DEF purchaseVars, workVars
<1>4. OthersStay(r)
  BY <1>2, <1>3 DEF OthersStay, SaleMoved
<1>5. KardexMatchesDocuments'
  <2>1. \A p \in Product : Arrived(p)' = Arrived(p) /\ Fitted(p)' = Fitted(p)
    BY <1>3, DocumentsStay
  <2>2. \A p \in Product : \E v \in Int : kardex'[p] = kardex[p] + v /\ Back(p)' = Back(p) + v
    BY <1>2 DEF SaleMoved
  <2>3. QED
    BY <1>1, <2>1, <2>2, KardexBalances
<1>6. /\ ReturnsAt(r)' /\ MovedAt(r)'
      /\ \A n \in Registered : sale'[n].order = sale[n].order
  BY <1>2 DEF SaleMoved
<1>7. QED
  BY <1>1, <1>4, <1>5, <1>6, MovementsStay

-----------------------------------------------------------------------------
(* The shop *)

\* Nothing has moved, and no document says so.
LEMMA InitKardex == ShopInit => KardexInv
<1> SUFFICES ASSUME ShopInit PROVE KardexInv
  OBVIOUS
<1>1. /\ Registered = {} /\ Ordered = {} /\ WorkReceived = {}
  BY DEF ShopInit, Init, PurchasesInit, WorkInit, Registered, Ordered, WorkReceived,
     NoSale, NoPurchase, NoWorkOrder
<1>2. ASSUME NEW p \in Product
      PROVE  kardex[p] = Back(p) + Arrived(p) - Fitted(p)
  <2>1. kardex[p] = 0
    BY DEF ShopInit, Init, RowsInit, NoMoves
  <2>2. Back(p) = 0 /\ Arrived(p) = 0 /\ Fitted(p) = 0
    BY <1>1, SumEmpty DEF Back, Arrived, Fitted
  <2>3. QED
    BY <2>1, <2>2
<1>3. ASSUME NEW r \in Request
      PROVE  ReturnsAt(r) /\ MovedAt(r)
  <2>1. pc[r] = "idle" /\ \A p \in Product : moved[r][p] = 0
    BY DEF ShopInit, Init, RowsInit, NoMoves
  <2>2. pc[r] \notin SellsLabel \cup ReceiveLabel \cup TakesLabel
    BY <2>1, MovesLabels
  <2>3. QED
    BY <2>1, <2>2 DEF ReturnsAt, MovedAt, SellsLabel
<1>4. QED
  BY <1>2, <1>3 DEF KardexInv, KardexMatchesDocuments

\* Every step of every component keeps movements and documents together.
LEMMA NextKardex == ShopInv /\ KardexInv /\ [ShopNext]_shopVars => KardexInv'
<1> SUFFICES ASSUME ShopInv, KardexInv, [ShopNext]_shopVars PROVE KardexInv'
  OBVIOUS
<1>1. CASE Next /\ UNCHANGED <<purchaseVars, workVars, quickVars>>
  BY <1>1, SalesKeepKardex
<1>2. CASE PurchasesNext /\ UNCHANGED <<saleVars, workVars, quickVars>>
  BY <1>2, BuyKeepsKardex
<1>3. CASE WorkNext /\ UNCHANGED <<cashVars, saleVars, purchaseVars, quickVars>>
  BY <1>3, WorkKeepsKardex
<1>4. CASE QuickNext /\ UNCHANGED <<rowVars, saleVars, purchaseVars, workVars>>
  BY <1>4, QuickKeepsKardex
<1>5. CASE UNCHANGED shopVars
  <2>1. UNCHANGED <<pc, kardex, moved, sale, order, at, number, purchase, purchasing,
                    workOrder, repairing>>
    BY <1>5 DEF shopVars, vars, rowVars, saleVars, purchaseVars, workVars
  <2>2. KardexMatchesDocuments'
    BY <2>1, KardexStays
  <2>3. \A r \in Request : ReturnsAt(r)' /\ MovedAt(r)'
    BY <2>1 DEF KardexInv, ReturnsAt, MovedAt, SoldBy, Done
  <2>4. QED
    BY <2>2, <2>3 DEF KardexInv
<1>6. QED
  BY <1>1, <1>2, <1>3, <1>4, <1>5 DEF ShopNext

\* However sales, cancellations, receptions, parts and quick services
\* interleave, the InventoryMovement rows add up to what the documents say: no
\* sale, cancellation, reception or part commits without its movements, and no
\* movement without its document.
THEOREM ShopKardexMatchesDocuments == ShopSpec => []KardexMatchesDocuments
<1>1. ShopInit => KardexInv
  BY InitKardex
<1>2. ShopInv /\ KardexInv /\ [ShopNext]_shopVars => KardexInv'
  BY NextKardex
<1>3. KardexInv => KardexMatchesDocuments
  BY DEF KardexInv
<1>4. ShopSpec => []ShopInv
  BY ShopKeepsInvariant
<1>5. QED
  BY <1>1, <1>2, <1>3, <1>4, PTL DEF ShopSpec

-----------------------------------------------------------------------------
(* One request at a time: the stock and its movements *)

\* The server handles one request at a time.
OneRequest == \A q, r \in Request : q = r

\* The stock is what there was and what has moved; the newest version of a row
\* differs from the committed one by what its holder has moved.
RowsExact ==
    \A p \in Product :
        /\ stock[p] = InitialStock[p] + kardex[p]
        /\ \A r \in Request :
             /\ live[p] = stock[p] + moved[r][p]
             /\ holder[p] \in {None, r}
             /\ holder[p] = None => live[p] = stock[p]

\* What a handler read of the row it is about to overwrite is what the row holds.
ReadExactly(r) ==
    /\ pc[r] = "restock" => seen[r] = live[Item(r).product]
    /\ pc[r] = "storeItem" =>
         purchasing[r].seen = live[purchasing[r].supply.items[purchasing[r].at].product]
    /\ pc[r] = "storePart" => repairing[r].seen = live[repairing[r].what.product]

ExactInv == RowsExact /\ \A r \in Request : ReadExactly(r)

\* A step that writes no row, or writes one as it stands plus what it moves,
\* or ends the transaction of r.
RowStep(r) ==
    \/ UNCHANGED rowVars \/ CommitRows(r) \/ RollbackRows(r)
    \/ \E p \in Product, d \in Int : WriteStock(r, p, live[p] + d, d)

LEMMA VisibleIsLive ==
    ASSUME RowsExact, NEW r \in Request, NEW p \in Product
    PROVE  Visible(r, p) = live[p]
  BY DEF RowsExact, Visible

LEMMA RowsStayExact ==
    ASSUME OneRequest, RowsTypeOK, RowsExact, NEW r \in Request, RowStep(r)
    PROVE  RowsExact'
<1> SUFFICES ASSUME NEW p \in Product
             PROVE  /\ stock'[p] = InitialStock[p] + kardex'[p]
                    /\ live'[p] = stock'[p] + moved'[r][p]
                    /\ holder'[p] \in {None, r}
                    /\ holder'[p] = None => live'[p] = stock'[p]
  <2>1. \A q \in Request : q = r
    BY DEF OneRequest
  <2>2. QED
    BY <2>1 DEF RowsExact
<1>1. /\ stock[p] \in Int /\ live[p] \in Int /\ kardex[p] \in Int /\ moved[r][p] \in Int
      /\ InitialStock[p] \in Int
      /\ stock \in [Product -> Int] /\ live \in [Product -> Int] /\ kardex \in [Product -> Int]
      /\ moved \in [Request -> [Product -> Int]] /\ DOMAIN holder = Product
  BY ProductAssumption DEF RowsTypeOK
<1>2. /\ stock[p] = InitialStock[p] + kardex[p]
      /\ live[p] = stock[p] + moved[r][p]
      /\ holder[p] \in {None, r}
      /\ holder[p] = None => live[p] = stock[p]
  BY DEF RowsExact
<1>3. CASE UNCHANGED rowVars
  BY <1>2, <1>3 DEF rowVars
<1>4. CASE CommitRows(r)
  <2>1. stock'[p] = live[p] /\ live'[p] = live[p]
    BY <1>4, VisibleIsLive DEF CommitRows
  <2>2. kardex'[p] = kardex[p] + moved[r][p] /\ moved'[r][p] = 0
    BY <1>1, <1>4 DEF CommitRows, NoMoves
  <2>3. holder'[p] = None
    BY <1>2, <1>4 DEF CommitRows, Released
  <2>4. QED
    BY <1>1, <1>2, <2>1, <2>2, <2>3
<1>5. CASE RollbackRows(r)
  <2>1. stock'[p] = stock[p] /\ live'[p] = stock[p]
    BY <1>2, <1>5 DEF RollbackRows
  <2>2. kardex'[p] = kardex[p] /\ moved'[r][p] = 0
    BY <1>1, <1>5 DEF RollbackRows, NoMoves
  <2>3. holder'[p] = None
    BY <1>2, <1>5 DEF RollbackRows, Released
  <2>4. QED
    BY <1>1, <1>2, <2>1, <2>2, <2>3
<1>6. CASE \E x \in Product, d \in Int : WriteStock(r, x, live[x] + d, d)
  <2>1. PICK x \in Product, d \in Int : WriteStock(r, x, live[x] + d, d)
    BY <1>6
  <2>2. stock' = stock /\ kardex' = kardex
    BY <2>1 DEF WriteStock
  <2>3. live'[p] = IF p = x THEN live[p] + d ELSE live[p]
    BY <1>1, <2>1 DEF WriteStock
  <2>4. moved'[r][p] = IF p = x THEN moved[r][p] + d ELSE moved[r][p]
    BY <1>1, <2>1, RowsMove
  <2>5. holder'[p] = IF p = x THEN r ELSE holder[p]
    BY <1>1, <2>1 DEF WriteStock
  <2>6. holder'[p] = None => live'[p] = stock'[p]
    <3>1. CASE p = x
      <4>1. None \notin Request
        BY RequestAssumption
      <4>2. QED
        BY <2>5, <3>1, <4>1
    <3>2. QED
      BY <1>2, <2>2, <2>3, <2>5, <3>1
  <2>7. live'[p] = stock'[p] + moved'[r][p]
    BY <1>1, <1>2, <2>2, <2>3, <2>4
  <2>8. QED
    BY <1>2, <2>2, <2>5, <2>6, <2>7
<1>7. QED
  BY <1>3, <1>4, <1>5, <1>6 DEF RowStep

\* A handler that is not about to overwrite a row it has read.
LEMMA NothingRead ==
    ASSUME NEW r \in Request, pc'[r] \notin {"restock", "storeItem", "storePart"}
    PROVE  ReadExactly(r)'
  BY DEF ReadExactly

\* Sales and cancellations: the decrement is of the row, a cancellation puts
\* back onto the stock that it read.
LEMMA SaleExact ==
    ASSUME ShopInv, ExactInv, Next
    PROVE  \E r \in Request : RowStep(r) /\ ReadExactly(r)'
<1> USE DEF Step
<1>1. PICK r \in Request :
        \/ \E o \in Order : StartSale(r, o)
        \/ CreateStep(r)
        \/ RollbackSale(r)
        \/ \E n \in SaleNumber : StartCancel(r, n)
        \/ CancelStep(r)
  BY DEF Next, SellNext, CancelNext
<1> SUFFICES RowStep(r) /\ ReadExactly(r)'
  OBVIOUS
<1>2. TypeInv /\ RowsExact /\ ReadExactly(r) /\ DOMAIN pc = Request
  BY SaleFacts DEF ExactInv
<1>3. ASSUME pc'[r] \in {"idle", "validate", "count", "insert", "decrement", "collect", "commitSale",
                         "readStock", "mark", "refund", "commitCancel"}
      PROVE  ReadExactly(r)'
  BY <1>3, NothingRead
<1>4. CASE \E o \in Order : StartSale(r, o)
  BY <1>2, <1>3, <1>4 DEF StartSale, RowStep
<1>5. CASE ValidateItem(r) \/ CountSales(r) \/ InsertSale(r) \/ CollectPayment(r)
  BY <1>2, <1>3, <1>5 DEF ValidateItem, NextItem, CountSales, InsertSale, CollectPayment, RowStep
<1>6. CASE DecrementStock(r)
  <2>1. PICK x, u : x = Item(r).product /\ u = Item(r).quantity
    OBVIOUS
  <2>2. pc[r] = "decrement" /\ pc'[r] \in {"decrement", "collect"}
    BY <1>2, <1>6 DEF DecrementStock, NextItem
  <2>3. x \in Product /\ u \in Nat
    BY <1>2, <2>1, <2>2, ItemFacts
  <2>4. WriteStock(r, x, live[x] - u, -u)
    BY <1>6, <2>1 DEF DecrementStock
  <2>5. live[x] - u = live[x] + -u /\ -u \in Int
    BY <1>2, <2>3, SaleFacts DEF RowsTypeOK
  <2>6. WriteStock(r, x, live[x] + -u, -u)
    BY <2>4, <2>5
  <2>7. RowStep(r)
    BY <2>3, <2>5, <2>6 DEF RowStep
  <2>8. QED
    BY <1>3, <2>2, <2>7
<1>7. CASE CommitSale(r)
  BY <1>2, <1>3, <1>7 DEF CommitSale, RowStep
<1>8. CASE RollbackSale(r)
  BY <1>2, <1>3, <1>8 DEF RollbackSale, RowStep
<1>9. CASE \E n \in SaleNumber : StartCancel(r, n)
  BY <1>2, <1>3, <1>9 DEF StartCancel, RowStep
<1>10. CASE ReadStock(r)
  <2>1. pc[r] = "readStock" /\ pc'[r] = "restock" /\ UNCHANGED <<rowVars, order, at>>
    BY <1>2, <1>10 DEF ReadStock
  <2>2. Item(r).product \in Product /\ Item(r)' = Item(r)
    BY <1>2, <2>1, ItemFacts DEF Item
  <2>3. seen'[r] = Visible(r, Item(r).product)
    <3>1. DOMAIN seen = Request
      BY <1>2 DEF TypeInv, TypeOK
    <3>2. QED
      BY <1>10, <3>1 DEF ReadStock
  <2>4. seen'[r] = live[Item(r).product]
    BY <1>2, <2>2, <2>3, VisibleIsLive
  <2>5. live' = live
    BY <2>1 DEF rowVars
  <2>6. ReadExactly(r)'
    BY <2>1, <2>2, <2>4, <2>5 DEF ReadExactly
  <2>7. QED
    BY <2>1, <2>6 DEF RowStep
<1>11. CASE Restock(r)
  <2>1. PICK x, u : x = Item(r).product /\ u = Item(r).quantity
    OBVIOUS
  <2>2. pc[r] = "restock" /\ pc'[r] \in {"readStock", "mark"}
    BY <1>2, <1>11 DEF Restock, NextItem
  <2>3. x \in Product /\ u \in Int
    BY <1>2, <2>1, <2>2, ItemFacts
  <2>4. WriteStock(r, x, seen[r] + u, u)
    BY <1>11, <2>1 DEF Restock
  <2>5. seen[r] = live[x]
    BY <1>2, <2>1, <2>2 DEF ReadExactly
  <2>6. WriteStock(r, x, live[x] + u, u)
    BY <2>4, <2>5
  <2>7. RowStep(r)
    BY <2>3, <2>6 DEF RowStep
  <2>8. QED
    BY <1>3, <2>2, <2>7
<1>12. CASE MarkCancelled(r) \/ RefundSale(r)
  BY <1>2, <1>3, <1>12 DEF MarkCancelled, RefundSale, RowStep
<1>13. CASE CommitCancel(r)
  BY <1>2, <1>3, <1>13 DEF CommitCancel, RowStep
<1>14. QED
  BY <1>1, <1>4, <1>5, <1>6, <1>7, <1>8, <1>9, <1>10, <1>11, <1>12, <1>13 DEF CreateStep, CancelStep

\* Purchases: a reception adds to the stock that it read.
LEMMA BuyExact ==
    ASSUME ShopInv, ExactInv, PurchasesNext
    PROVE  \E r \in Request : RowStep(r) /\ ReadExactly(r)'
<1> USE DEF Step
<1>1. PICK r \in Request :
        \/ \E s \in Supply : StartPurchase(r, s)
        \/ \E n \in Ordered : \/ \E due \in Named(n) : StartReceive(r, n, due)
                              \/ StartCancelPurchase(r, n)
                              \/ \E p \in {"PENDING", "PAID"} : StartUpdatePurchase(r, n, p)
        \/ PurchaseStep(r)
        \/ RollbackPurchase(r)
  BY DEF PurchasesNext
<1> SUFFICES RowStep(r) /\ ReadExactly(r)'
  OBVIOUS
<1>2. BuyBefore /\ RowsExact /\ ReadExactly(r) /\ DOMAIN pc = Request
  BY SaleFacts DEF ExactInv, ShopInv, StockInv, BuyBefore
<1>3. ASSUME pc'[r] \in {"idle", "countPurchases", "insertPurchase", "payPurchase",
                         "commitPurchase", "readItem", "writeStatus", "commitReceive",
                         "writeCancelled", "writePayment"}
      PROVE  ReadExactly(r)'
  BY <1>3, NothingRead
<1>4. CASE \E s \in Supply : StartPurchase(r, s)
  BY <1>2, <1>3, <1>4 DEF StartPurchase, RowStep
<1>5. CASE \E n \in Ordered : \/ \E due \in Named(n) : StartReceive(r, n, due)
                              \/ StartCancelPurchase(r, n)
                              \/ \E p \in {"PENDING", "PAID"} : StartUpdatePurchase(r, n, p)
  BY <1>2, <1>3, <1>5 DEF StartReceive, StartCancelPurchase, StartUpdatePurchase, RowStep
<1>6. CASE CountPurchases(r) \/ InsertPurchase(r) \/ PayPurchase(r)
  BY <1>2, <1>3, <1>6 DEF CountPurchases, InsertPurchase, PayPurchase, RowStep
<1>7. CASE CommitPurchase(r) \/ SkipItem(r) \/ RefreshItems(r) \/ WriteReceived(r)
  BY <1>2, <1>3, <1>7 DEF CommitPurchase, SkipItem, RefreshItems, WriteReceived, RowStep
<1>8. CASE ReadItem(r)
  <2>1. PICK b, x : b = purchasing[r] /\ x = b.supply.items[b.at].product
    OBVIOUS
  <2>2. /\ pc[r] = "readItem" /\ pc'[r] = "storeItem" /\ UNCHANGED rowVars
        /\ b.at <= Len(b.supply.items)
        /\ purchasing' = [purchasing EXCEPT ![r].seen = Visible(r, x)]
    BY <1>2, <1>8, <2>1 DEF ReadItem, Purchasing
  <2>3. pc[r] \in ReceiveLabel
    BY <2>2 DEF ReceiveLabel
  <2>4. /\ DOMAIN b = LocalFields /\ b.supply \in Supply /\ DOMAIN purchasing = Request
        /\ b.at \in Nat \ {0}
    BY <1>2, <2>1, <2>3, ReceivingFacts DEF ReceiverOK
  <2>5. b.at \in DOMAIN b.supply.items
    BY <2>2, <2>4, SupplyFacts
  <2>6. x \in Product
    BY <2>1, <2>4, <2>5, SupplyFacts
  <2>7. PICK k : k = Visible(r, x)
    OBVIOUS
  <2>8. k = live[x]
    BY <1>2, <2>6, <2>7, VisibleIsLive
  <2>9. purchasing'[r] = [b EXCEPT !.seen = k]
    BY <2>1, <2>2, <2>4, <2>7
  <2>10. PICK c : c = purchasing'[r]
    OBVIOUS
  <2>11. c.seen = k /\ c.supply = b.supply /\ c.at = b.at
    BY <2>4, <2>9, <2>10 DEF LocalFields
  <2>12. live' = live
    BY <2>2 DEF rowVars
  <2>13. ReadExactly(r)'
    BY <2>1, <2>2, <2>8, <2>10, <2>11, <2>12 DEF ReadExactly
  <2>14. QED
    BY <2>2, <2>13 DEF RowStep
<1>9. CASE StoreItem(r)
  <2>1. PICK b, x, u : b = purchasing[r] /\ x = b.supply.items[b.at].product /\ u = b.due[b.at]
    OBVIOUS
  <2>2. pc[r] = "storeItem" /\ pc'[r] = "readItem" /\ WriteStock(r, x, b.seen + u, u)
    BY <1>2, <1>9, <2>1 DEF StoreItem, Purchasing
  <2>3. pc[r] \in ReceiveLabel
    BY <2>2 DEF ReceiveLabel
  <2>4. b.supply \in Supply /\ b.at \in DOMAIN b.supply.items /\ u \in Nat
    BY <1>2, <2>1, <2>2, <2>3, ReceivingFacts DEF ReceiverOK, StoringOK
  <2>5. x \in Product /\ u \in Int
    BY <2>1, <2>4, SupplyFacts
  <2>6. b.seen = live[x]
    BY <1>2, <2>1, <2>2 DEF ReadExactly
  <2>7. WriteStock(r, x, live[x] + u, u)
    BY <2>2, <2>6
  <2>8. RowStep(r)
    BY <2>5, <2>7 DEF RowStep
  <2>9. QED
    BY <1>3, <2>2, <2>8
<1>10. CASE CommitReceive(r) \/ RollbackPurchase(r)
  BY <1>2, <1>3, <1>10 DEF CommitReceive, RollbackPurchase, RowStep
<1>11. CASE WriteCancelled(r) \/ WritePayment(r)
  BY <1>2, <1>3, <1>11 DEF WriteCancelled, WritePayment, RowStep
<1>12. QED
  BY <1>1, <1>4, <1>5, <1>6, <1>7, <1>8, <1>9, <1>10, <1>11 DEF PurchaseStep

\* Service orders: a part is taken off the stock that was read.
LEMMA WorkExact ==
    ASSUME ShopInv, ExactInv, WorkNext
    PROVE  \E r \in Request : RowStep(r) /\ ReadExactly(r)'
<1> USE DEF Step
<1>1. PICK r \in Request :
        \/ \E photos \in Photos \cup {0} : StartWorkOrder(r, photos)
        \/ \E n \in WorkReceived : StartWork(r, n)
        \/ WorkStep(r)
        \/ RollbackWork(r)
  BY DEF WorkNext
<1> SUFFICES RowStep(r) /\ ReadExactly(r)'
  OBVIOUS
<1>2. /\ WorkBefore /\ RowsExact /\ ReadExactly(r) /\ RepairerAt(r)
      /\ DOMAIN pc = Request /\ DOMAIN repairing = Request
  BY SaleFacts, RepairFacts DEF ExactInv, ShopInv, StockInv, WorkBefore
<1>3. ASSUME pc'[r] \in {"idle", "insertWorkOrder", "commitWorkOrder", "writeOrder", "writeStage",
                         "commitStage", "writeDelivered", "readPart", "writePart", "commitPart",
                         "deleteItem", "writeRemoved", "countPhotos", "commitPhotos", "deletePhoto"}
      PROVE  ReadExactly(r)'
  BY <1>3, NothingRead
<1>4. CASE \E photos \in Photos \cup {0} : StartWorkOrder(r, photos)
  BY <1>2, <1>3, <1>4 DEF StartWorkOrder, RowStep
<1>5. CASE \E n \in WorkReceived : StartWork(r, n)
  BY <1>2, <1>3, <1>5 DEF StartWork, StartUpdateOrder, StartStage, StartPart, StartRemoveItem,
     StartPhotos, StartDeletePhoto, RowStep
<1>6. CASE InsertWorkOrder(r) \/ CommitWorkOrder(r) \/ WriteOrder(r) \/ WriteStage(r)
  BY <1>2, <1>3, <1>6 DEF InsertWorkOrder, CommitWorkOrder, WriteOrder, WriteStage, RowStep
<1>7. CASE CommitStage(r) \/ WriteDelivered(r) \/ WritePart(r) \/ CommitPart(r)
  BY <1>2, <1>3, <1>7 DEF CommitStage, WriteDelivered, WritePart, CommitPart, RowStep
<1>8. CASE DeleteItem(r) \/ WriteRemoved(r) \/ CountPhotos(r) \/ CommitPhotos(r) \/ DeletePhoto(r)
  BY <1>2, <1>3, <1>8 DEF DeleteItem, WriteRemoved, CountPhotos, CommitPhotos, DeletePhoto, RowStep
<1>9. CASE RollbackWork(r)
  BY <1>2, <1>3, <1>9 DEF RollbackWork, RowStep
<1>10. CASE ReadPart(r)
  <2>1. PICK b, x : b = repairing[r] /\ x = b.what.product
    OBVIOUS
  <2>2. /\ pc[r] = "readPart" /\ pc'[r] = "storePart" /\ UNCHANGED rowVars
        /\ repairing' = [repairing EXCEPT ![r].seen = Visible(r, x)]
    BY <1>2, <1>10, <2>1 DEF ReadPart
  <2>3. x \in Product /\ DOMAIN b = HandlerFields
    BY <1>2, <2>1, <2>2 DEF RepairerAt, WorkLabel
  <2>4. PICK k : k = Visible(r, x)
    OBVIOUS
  <2>5. k = live[x]
    BY <1>2, <2>3, <2>4, VisibleIsLive
  <2>6. repairing'[r] = [b EXCEPT !.seen = k]
    BY <1>2, <2>1, <2>2, <2>4
  <2>7. PICK c : c = repairing'[r]
    OBVIOUS
  <2>8. c.seen = k /\ c.what = b.what
    BY <2>3, <2>6, <2>7 DEF HandlerFields
  <2>9. live' = live
    BY <2>2 DEF rowVars
  <2>10. ReadExactly(r)'
    BY <2>1, <2>2, <2>5, <2>7, <2>8, <2>9 DEF ReadExactly
  <2>11. QED
    BY <2>2, <2>10 DEF RowStep
<1>11. CASE StorePart(r)
  <2>1. PICK b, x, u : b = repairing[r] /\ x = b.what.product /\ u = b.what.quantity
    OBVIOUS
  <2>2. pc[r] = "storePart" /\ pc'[r] = "writePart" /\ WriteStock(r, x, b.seen - u, -u)
    BY <1>2, <1>11, <2>1 DEF StorePart
  <2>3. x \in Product /\ u \in Nat
    BY <1>2, <2>1, <2>2, ServiceOrderAssumption DEF RepairerAt
  <2>4. b.seen = live[x]
    BY <1>2, <2>1, <2>2 DEF ReadExactly
  <2>5. b.seen - u = live[x] + -u /\ -u \in Int
    BY <2>3, <2>4, SaleFacts DEF RowsTypeOK
  <2>6. WriteStock(r, x, live[x] + -u, -u)
    BY <2>2, <2>5
  <2>7. RowStep(r)
    BY <2>3, <2>5, <2>6 DEF RowStep
  <2>8. QED
    BY <1>3, <2>2, <2>7
<1>12. QED
  BY <1>1, <1>4, <1>5, <1>6, <1>7, <1>8, <1>9, <1>10, <1>11 DEF WorkStep


\* Whatever the handlers do, one at a time, rows and movements agree.
LEMMA NextExact ==
    ASSUME OneRequest, ShopInv, ExactInv, [ShopNext]_shopVars
    PROVE  ExactInv'
<1>1. RowsTypeOK /\ RowsExact
  BY SaleFacts DEF ExactInv
<1>2. ASSUME NEW r \in Request, RowStep(r), ReadExactly(r)'
      PROVE  ExactInv'
  <2>1. RowsExact'
    BY <1>1, <1>2, RowsStayExact
  <2>2. \A q \in Request : q = r
    BY DEF OneRequest
  <2>3. QED
    BY <1>2, <2>1, <2>2 DEF ExactInv
<1>3. CASE Next
  BY <1>2, <1>3, SaleExact
<1>4. CASE PurchasesNext
  BY <1>2, <1>4, BuyExact
<1>5. CASE WorkNext
  BY <1>2, <1>5, WorkExact
<1>6. CASE QuickNext /\ UNCHANGED rowVars
  <2>1. PICK r \in Request : QuickKept(r)
    BY <1>6, QuickKeeps DEF ShopInv
  <2>2. pc'[r] \in QuickLabel \cup {"idle"}
    BY <2>1, SaleFacts DEF QuickKept, OneSlot
  <2>3. pc'[r] \notin {"restock", "storeItem", "storePart"}
    BY <2>2 DEF QuickLabel
  <2>4. ReadExactly(r)'
    BY <2>3, NothingRead
  <2>5. RowStep(r)
    BY <1>6 DEF RowStep
  <2>6. QED
    BY <1>2, <2>4, <2>5
<1>7. CASE UNCHANGED shopVars
  <2>1. UNCHANGED <<rowVars, pc, order, at, seen, purchasing, repairing>>
    BY <1>7 DEF shopVars, vars, saleVars, purchaseVars, workVars
  <2>2. RowsExact'
    BY <1>1, <2>1 DEF RowsExact, rowVars
  <2>3. \A r \in Request : ReadExactly(r)'
    BY <2>1 DEF ExactInv, ReadExactly, Item, rowVars
  <2>4. QED
    BY <2>2, <2>3 DEF ExactInv
<1>8. QED
  BY <1>3, <1>4, <1>5, <1>6, <1>7 DEF ShopNext

LEMMA InitExact == ShopInit => ExactInv
<1> SUFFICES ASSUME ShopInit PROVE ExactInv
  OBVIOUS
<1>1. ASSUME NEW p \in Product
      PROVE  /\ stock[p] = InitialStock[p] + kardex[p]
             /\ \A r \in Request : live[p] = stock[p] + moved[r][p]
             /\ holder[p] = None /\ live[p] = stock[p]
  <2>1. /\ stock = InitialStock /\ live = InitialStock /\ kardex[p] = 0 /\ holder[p] = None
        /\ \A r \in Request : moved[r][p] = 0
    BY DEF ShopInit, Init, RowsInit, NoMoves
  <2>2. InitialStock[p] \in Int
    BY ProductAssumption
  <2>3. QED
    BY <2>1, <2>2
<1>2. \A r \in Request : ReadExactly(r)
  <2>1. \A r \in Request : pc[r] = "idle"
    BY DEF ShopInit, Init
  <2>2. QED
    BY <2>1 DEF ReadExactly
<1>3. QED
  BY <1>1, <1>2 DEF ExactInv, RowsExact

-----------------------------------------------------------------------------
(* One administrator at a time: no sale is cancelled twice *)

\* A step of another component writes no sale and cancels none.
LEMMA OnceStays ==
    ASSUME OnceInv, NEW r \in Request, OneSlot(r, OtherLabel), UNCHANGED saleVars
    PROVE  OnceInv'
<1>1. /\ pc'[r] \in OtherLabel \cup {"idle"} /\ \A q \in Request \ {r} : pc'[q] = pc[q]
  BY DEF OneSlot
<1>2. pc'[r] \notin CancelLabel
  BY <1>1, LabelsApart DEF SaleLabel
<1>3. UNCHANGED <<sale, number>>
  BY DEF saleVars
<1>4. QED
  BY <1>1, <1>2, <1>3, OnceFrame

LEMMA NextOnce ==
    ASSUME OneAdminSlot, ShopInv, OnceInv, [ShopNext]_shopVars
    PROVE  OnceInv'
<1>1. TypeInv /\ BuyBefore /\ WorkBefore /\ QuickInv
  BY SaleFacts DEF ShopInv, StockInv, BuyBefore, WorkBefore
<1>2. CASE Next
  BY <1>1, <1>2, NextOnceInv
<1>3. CASE PurchasesNext /\ UNCHANGED saleVars
  <2>1. PICK r \in Request : BuyKept(r)
    BY <1>1, <1>3, BuyKeeps
  <2>2. OneSlot(r, OtherLabel)
    BY <2>1 DEF BuyKept, OneSlot, OtherLabel
  <2>3. QED
    BY <1>3, <2>2, OnceStays
<1>4. CASE WorkNext /\ UNCHANGED saleVars
  <2>1. PICK r \in Request : WorkKept(r)
    BY <1>1, <1>4, WorkKeeps
  <2>2. OneSlot(r, OtherLabel)
    BY <2>1 DEF WorkKept, OneSlot, OtherLabel
  <2>3. QED
    BY <1>4, <2>2, OnceStays
<1>5. CASE QuickNext /\ UNCHANGED saleVars
  <2>1. PICK r \in Request : QuickKept(r)
    BY <1>1, <1>5, QuickKeeps
  <2>2. OneSlot(r, OtherLabel)
    BY <2>1 DEF QuickKept, OneSlot, OtherLabel
  <2>3. QED
    BY <1>5, <2>2, OnceStays
<1>6. CASE UNCHANGED shopVars
  BY <1>6 DEF shopVars, vars, saleVars, OnceInv, CancelAt
<1>7. QED
  BY <1>2, <1>3, <1>4, <1>5, <1>6 DEF ShopNext

LEMMA InitOnce == ShopInit => OnceInv
<1> SUFFICES ASSUME ShopInit PROVE OnceInv
  OBVIOUS
<1>1. /\ \A r \in Request : pc[r] = "idle"
      /\ \A n \in SaleNumber : sale[n].status = "NONE"
  BY DEF ShopInit, Init, NoSale
<1>2. QED
  BY <1>1 DEF OnceInv, CancelAt, CancelLabel

\* While one request at a time may cancel, no sale is cancelled twice, whatever
\* sales, purchases, repairs and services run beside it and whatever fails.
THEOREM ShopCancelledOnce ==
    ASSUME OneAdminSlot
    PROVE  ShopSpec => []CancelledOnce
<1>1. ShopInv /\ OnceInv /\ [ShopNext]_shopVars => OnceInv'
  BY NextOnce
<1>2. ShopInv /\ OnceInv => CancelledOnce
  <2> SUFFICES ASSUME ShopInv, OnceInv, NEW n \in Registered
               PROVE  sale[n].cancellations <= 1
    BY DEF CancelledOnce
  <2>1. n \in SaleNumber /\ sale[n] \in SaleRow
    BY DEF ShopInv, TypeInv, TypeOK, Registered, NoSale
  <2>2. QED
    BY <2>1 DEF OnceInv, SaleRow
<1>3. QED
  BY <1>1, <1>2, InitOnce, ShopKeepsInvariant, PTL DEF ShopSpec


-----------------------------------------------------------------------------
(* The stock of every product is explained by the documents *)

\* The terms of a part with the other sign cancel out.
LEMMA SumCancelled ==
    ASSUME NEW S, IsFiniteSet(S), NEW C, NEW f, NEW g,
           \A x \in S \cap C : f[x] \in Int /\ g[x] \in Int /\ f[x] + g[x] = 0,
           \A x \in S \ C : f[x] = 0
    PROVE  SumFunctionOnSet(f, S) + SumFunctionOnSet(g, S \cap C) = 0
<1> DEFINE Good == {T \in SUBSET S : SumFunctionOnSet(f, T) + SumFunctionOnSet(g, T \cap C) = 0}
<1>1. ASSUME NEW T \in SUBSET S, \A x \in T : T \ {x} \in Good
      PROVE  T \in Good
  <2>1. PICK P : P = T \cap C
    OBVIOUS
  <2>2. IsFiniteSet(T) /\ IsFiniteSet(P) /\ P \subseteq S
    BY <2>1, FS_Subset
  <2>3. \A x \in T : f[x] \in Int
    <3>1. ASSUME NEW x \in T PROVE f[x] \in Int
      <4>1. CASE x \in C
        BY <4>1
      <4>2. CASE x \notin C
        BY <4>2
      <4>3. QED
        BY <4>1, <4>2
    <3>2. QED
      BY <3>1
  <2>4. \A x \in P : g[x] \in Int
    BY <2>1
  <2>5. CASE T = {}
    <3>1. P = {}
      BY <2>1, <2>5
    <3>2. SumFunctionOnSet(f, {}) = 0 /\ SumFunctionOnSet(g, {}) = 0
      BY SumEmpty
    <3>3. SumFunctionOnSet(f, T) = 0
      BY <2>5, <3>2
    <3>4. SumFunctionOnSet(g, T \cap C) = 0
      BY <2>1, <3>1, <3>2
    <3>5. QED
      BY <3>3, <3>4
  <2>6. CASE T # {}
    <3>1. PICK x : x = Picked(T)
      OBVIOUS
    <3>2. x \in T
      BY <2>6, <3>1 DEF Picked
    <3>3. PICK R, Q : R = T \ {x} /\ Q = R \cap C
      OBVIOUS
    <3>4. PICK a, b : a = SumFunctionOnSet(f, R) /\ b = SumFunctionOnSet(g, Q)
      OBVIOUS
    <3>5. a + b = 0
      BY <1>1, <3>2, <3>3, <3>4
    <3>6. SumFunctionOnSet(f, T) = f[x] + a
      BY <2>2, <2>6, <3>1, <3>3, <3>4, SumPicked
    <3>7. IsFiniteSet(Q) /\ IsFiniteSet(R) /\ (\A y \in Q : g[y] \in Int) /\ \A y \in R : f[y] \in Int
      BY <2>1, <2>2, <2>3, <2>4, <3>3, FS_Subset
    <3>8. a \in Int /\ b \in Int /\ f[x] \in Int
      BY <2>3, <3>2, <3>4, <3>7, SumInt
    <3>9. CASE x \in C
      <4>1. x \in P /\ P \ {x} = Q
        BY <2>1, <3>2, <3>3, <3>9
      <4>2. SumFunctionOnSet(g, P) = g[x] + b
        BY <2>2, <2>4, <3>4, <4>1, SumSplit
      <4>3. g[x] \in Int /\ f[x] + g[x] = 0
        BY <3>2, <3>9
      <4>4. SumFunctionOnSet(f, T) + SumFunctionOnSet(g, P) = 0
        BY <3>5, <3>6, <3>8, <4>2, <4>3
      <4>5. QED
        BY <2>1, <4>4
    <3>10. CASE x \notin C
      <4>1. P = Q
        BY <2>1, <3>2, <3>3, <3>10
      <4>2. f[x] = 0
        BY <3>2, <3>10
      <4>3. SumFunctionOnSet(f, T) + b = 0
        BY <3>5, <3>6, <3>8, <4>2
      <4>4. QED
        BY <2>1, <3>4, <4>1, <4>3
    <3>11. QED
      BY <3>9, <3>10
  <2>7. QED
    BY <2>5, <2>6
<1>2. Good \in SUBSET (SUBSET S)
  OBVIOUS
<1> HIDE DEF Good
<1>3. SUBSET S = Good
  <2>1. \A T \in SUBSET S : (\A x \in T : T \ {x} \in Good) => T \in Good
    BY <1>1
  <2>2. QED
    BY <1>2, <2>1, SubsetInduction
<1>4. QED
  BY <1>3 DEF Good

\* With no sale cancelled twice, what came back less what was sold is what was
\* sold and kept, taken off.
LEMMA BackIsSold ==
    ASSUME TypeInv, OnceInv, NEW p \in Product
    PROVE  Back(p) + Sold(p) = 0 /\ Sold(p) \in Int
<1>1. PICK S, C, f, g :
        /\ S = Registered /\ C = CompletedSales
        /\ f = [n \in Registered |-> Returned(n, p)]
        /\ g = [n \in CompletedSales |-> UnitsOf(sale[n].order.items, p)]
  OBVIOUS
<1>2. IsFiniteSet(S) /\ C \subseteq S /\ S \cap C = C
  BY <1>1, RegisteredFinite DEF CompletedSales
<1>3. IsFiniteSet(C)
  BY <1>2, FS_Subset
<1>4. ASSUME NEW n \in S
      PROVE  /\ UnitsOf(sale[n].order.items, p) \in Nat
             /\ n \in C => sale[n].cancellations = 0
             /\ n \notin C => sale[n].cancellations = 1
  <2>1. n \in SaleNumber /\ sale[n] \in SaleRow
    BY <1>1 DEF TypeInv, TypeOK, Registered, NoSale
  <2>2. sale[n].order \in Order /\ sale[n].status \in {"COMPLETED", "CANCELLED"}
    BY <2>1 DEF SaleRow
  <2>3. UnitsOf(sale[n].order.items, p) \in Nat
    BY <2>2, TakenIsUnits
  <2>4. QED
    BY <1>1, <2>1, <2>2, <2>3 DEF OnceInv, CompletedSales
<1>5. ASSUME NEW n \in C
      PROVE  f[n] \in Int /\ g[n] \in Int /\ f[n] + g[n] = 0
  <2>1. PICK u : u = UnitsOf(sale[n].order.items, p)
    OBVIOUS
  <2>2. u \in Nat /\ sale[n].cancellations = 0
    BY <1>2, <1>4, <2>1
  <2>3. g[n] = u /\ f[n] = (0 - 1) * u
    BY <1>1, <1>2, <2>1, <2>2 DEF Returned
  <2>4. QED
    BY <2>2, <2>3
<1>6. ASSUME NEW n \in S \ C
      PROVE  f[n] = 0
  <2>1. PICK u : u = UnitsOf(sale[n].order.items, p)
    OBVIOUS
  <2>2. u \in Nat /\ sale[n].cancellations = 1
    BY <1>4, <2>1
  <2>3. f[n] = (1 - 1) * u
    BY <1>1, <2>1, <2>2 DEF Returned
  <2>4. QED
    BY <2>2, <2>3
<1>7. \A n \in S \cap C : f[n] \in Int /\ g[n] \in Int /\ f[n] + g[n] = 0
  BY <1>5
<1>8. \A n \in S \ C : f[n] = 0
  BY <1>6
<1>9. SumFunctionOnSet(f, S) + SumFunctionOnSet(g, S \cap C) = 0
  BY <1>2, <1>7, <1>8, SumCancelled
<1>10. SumFunctionOnSet(g, C) \in Int
  BY <1>3, <1>5, SumInt
<1>11. Back(p) = SumFunctionOnSet(f, S) /\ Sold(p) = SumFunctionOnSet(g, C)
  BY <1>1 DEF Back, Sold
<1>12. QED
  BY <1>2, <1>9, <1>10, <1>11

\* While requests run one at a time, the stock of every product is what there
\* was, less what was sold and not cancelled, plus what purchases brought, less
\* the parts fitted.  The movements always agree with the documents; the stock
\* agrees with the movements as long as no handler overwrites a row with what
\* it computed from an older one.
THEOREM ShopStockMatchesDocuments ==
    ASSUME OneRequest
    PROVE  ShopSpec => []StockMatchesDocuments
<1>1. ShopInv /\ OnceInv /\ [ShopNext]_shopVars => OnceInv'
  <2>1. OneAdminSlot
    BY DEF OneRequest, OneAdminSlot
  <2>2. QED
    BY <2>1, NextOnce
<1>2. ShopInv /\ ExactInv /\ [ShopNext]_shopVars => ExactInv'
  BY NextExact
<1>3. ShopInv /\ OnceInv /\ ExactInv /\ KardexMatchesDocuments => StockMatchesDocuments
  <2> SUFFICES ASSUME ShopInv, OnceInv, ExactInv, KardexMatchesDocuments, NEW p \in Product
               PROVE  stock[p] = InitialStock[p] - Sold(p) + Arrived(p) - Fitted(p)
    BY DEF StockMatchesDocuments
  <2>1. TypeInv /\ BuyInv /\ RepairInv
    BY DEF ShopInv
  <2>2. Back(p) + Sold(p) = 0 /\ Sold(p) \in Int
    BY <2>1, BackIsSold
  <2>3. Arrived(p) \in Int /\ Fitted(p) \in Int /\ Back(p) \in Int
    BY <2>1, DocumentsAreInt
  <2>4. stock[p] = InitialStock[p] + kardex[p] /\ kardex[p] = Back(p) + Arrived(p) - Fitted(p)
    BY DEF ExactInv, RowsExact, KardexMatchesDocuments
  <2>5. InitialStock[p] \in Int
    BY ProductAssumption
  <2>6. PICK a, b, c, d : a = Sold(p) /\ b = Arrived(p) /\ c = Fitted(p) /\ d = Back(p)
    OBVIOUS
  <2>7. /\ a \in Int /\ b \in Int /\ c \in Int /\ d \in Int /\ d + a = 0
        /\ stock[p] = InitialStock[p] + (d + b - c)
    BY <2>2, <2>3, <2>4, <2>6
  <2>8. stock[p] = InitialStock[p] - a + b - c
    BY <2>5, <2>7
  <2>9. QED
    BY <2>6, <2>8
<1>4. QED
  BY <1>1, <1>2, <1>3, InitOnce, InitExact, ShopKeepsInvariant, ShopKardexMatchesDocuments, PTL
     DEF ShopSpec


-----------------------------------------------------------------------------
(* One administrator at a time: purchases add up *)

AddsUp(w) ==
    /\ w.received = w.arrived
    /\ w.status # "CANCELLED" => w.status = StatusOf(w.supply, w.arrived)

\* What the transaction with the local variables b reads back of the order w.
RefreshedBy(b, w) ==
    [i \in DOMAIN b.due |-> IF i \in StoredBy(b) THEN b.base[i] + b.due[i] ELSE w.received[i]]

\* What a reception read first is still so, and the status it is about to write
\* is that of the quantities it is about to leave.
UpToDate(b, w, label) ==
    /\ b.base = w.received
    /\ label \in {"writeStatus", "commitReceive"} => b.status = StatusOf(b.supply, RefreshedBy(b, w))

\* An administrator's request is at work on an order.
OrdersAt(r) ==
    /\ pc[r] \in PurchaseLabel => userOf[r] \in Admin
    /\ pc[r] \in ReceiveLabel =>
         UpToDate(purchasing[r], purchase[purchasing[r].number], pc[r])

AddsUpInv ==
    /\ \A n \in Ordered : AddsUp(purchase[n])
    /\ \A r \in Request : OrdersAt(r)

LEMMA RefreshedIs ==
    ASSUME NEW r \in Request, NEW b, b = purchasing[r], NEW w, w = purchase[b.number]
    PROVE  Refreshed(r) = RefreshedBy(b, w) /\ Stored(r) = StoredBy(b)
  BY DEF Refreshed, RefreshedBy, Stored, StoredBy, Purchasing

\* A statement that writes no order.
LEMMA OrdersStay ==
    ASSUME BuyBefore, AddsUpInv, NEW r \in Request, UNCHANGED purchase,
           \A q \in Request \ {r} : pc'[q] = pc[q] /\ purchasing'[q] = purchasing[q],
           OrdersAt(r)'
    PROVE  AddsUpInv'
<1>1. Ordered' = Ordered
  BY DEF Ordered
<1>2. \A n \in Ordered' : AddsUp(purchase'[n])
  BY <1>1 DEF AddsUpInv
<1>3. \A q \in Request \ {r} : OrdersAt(q)'
  BY DEF AddsUpInv, OrdersAt
<1>4. QED
  BY <1>2, <1>3 DEF AddsUpInv

\* The one statement that writes an order: nobody else is at work on one.
LEMMA OneWrites ==
    ASSUME OneAdminSlot, BuyBefore, AddsUpInv, NEW r \in Request, pc[r] \in PurchaseLabel,
           pc' = [pc EXCEPT ![r] = "idle"], NEW n \in PurchaseNumber, NEW w, AddsUp(w),
           purchase' = [purchase EXCEPT ![n] = w]
    PROVE  AddsUpInv'
<1>1. /\ DOMAIN pc = Request /\ DOMAIN purchase = PurchaseNumber /\ "idle" \notin PurchaseLabel
      /\ ReceiveLabel \subseteq PurchaseLabel
  BY BuyFacts DEF ReceiveLabel, PurchaseLabel
<1>2. \A q \in Request \ {r} : pc[q] \notin PurchaseLabel
  BY DEF OneAdminSlot, AddsUpInv, OrdersAt
<1>3. \A q \in Request : pc'[q] \notin PurchaseLabel /\ pc'[q] \notin ReceiveLabel
  BY <1>1, <1>2
<1>4. \A q \in Request : OrdersAt(q)'
  BY <1>3 DEF OrdersAt
<1>5. ASSUME NEW m \in Ordered'
      PROVE  AddsUp(purchase'[m])
  <2>1. CASE m = n
    BY <1>1, <2>1
  <2>2. CASE m # n
    <3>1. m \in Ordered /\ purchase'[m] = purchase[m]
      BY <1>1, <2>2 DEF Ordered
    <3>2. QED
      BY <3>1 DEF AddsUpInv
  <2>3. QED
    BY <2>1, <2>2
<1>6. QED
  BY <1>4, <1>5 DEF AddsUpInv

\* The handlers up to and beside a reception: they hold nothing they have read.
LEMMA OrdersBeside ==
    ASSUME BuyBefore, AddsUpInv, NEW r \in Request,
           \/ \E s \in Supply : StartPurchase(r, s)
           \/ \E n \in Ordered : \/ StartCancelPurchase(r, n)
                                 \/ \E p \in {"PENDING", "PAID"} : StartUpdatePurchase(r, n, p)
           \/ CountPurchases(r) \/ InsertPurchase(r) \/ PayPurchase(r)
           \/ RollbackPurchase(r)
    PROVE  AddsUpInv'
<1>1. DOMAIN pc = Request /\ DOMAIN purchasing = Request /\ OrdersAt(r)
  BY BuyFacts DEF AddsUpInv
<1>2. /\ UNCHANGED purchase
      /\ \A q \in Request \ {r} : pc'[q] = pc[q] /\ purchasing'[q] = purchasing[q]
      /\ pc'[r] \notin ReceiveLabel
      /\ pc'[r] = "idle" \/ userOf[r] \in Admin \/ pc[r] \in PurchaseLabel
  <2>1. CASE \E s \in Supply : StartPurchase(r, s)
    BY <1>1, <2>1 DEF StartPurchase, Step, ReceiveLabel
  <2>2. CASE \E n \in Ordered : StartCancelPurchase(r, n)
    BY <1>1, <2>2 DEF StartCancelPurchase, Step, ReceiveLabel
  <2>3. CASE \E n \in Ordered : \E p \in {"PENDING", "PAID"} : StartUpdatePurchase(r, n, p)
    BY <1>1, <2>3 DEF StartUpdatePurchase, Step, ReceiveLabel
  <2>4. CASE CountPurchases(r)
    BY <1>1, <2>4 DEF CountPurchases, Step, ReceiveLabel, PurchaseLabel
  <2>5. CASE InsertPurchase(r) \/ PayPurchase(r)
    BY <1>1, <2>5 DEF InsertPurchase, PayPurchase, Step, ReceiveLabel, PurchaseLabel, purchaseVars
  <2>6. CASE RollbackPurchase(r)
    BY <1>1, <2>6 DEF RollbackPurchase, ReceiveLabel
  <2>7. QED
    BY <2>1, <2>2, <2>3, <2>4, <2>5, <2>6
<1>3. userOf[r] \in Admin \/ pc'[r] \notin PurchaseLabel
  BY <1>1, <1>2 DEF OrdersAt, PurchaseLabel
<1>4. OrdersAt(r)'
  BY <1>2, <1>3 DEF OrdersAt
<1>5. QED
  BY <1>2, <1>4, OrdersStay

\* A reception reads the quantities, and goes through the items.
LEMMA OrdersReceive ==
    ASSUME BuyBefore, AddsUpInv, NEW r \in Request,
           \/ \E n \in Ordered : \E due \in Named(n) : StartReceive(r, n, due)
           \/ SkipItem(r) \/ ReadItem(r) \/ StoreItem(r) \/ RefreshItems(r) \/ WriteReceived(r)
    PROVE  AddsUpInv'
<1>1. DOMAIN pc = Request /\ DOMAIN purchasing = Request /\ OrdersAt(r)
  BY BuyFacts DEF AddsUpInv
<1>2. ASSUME NEW c, NEW to, UNCHANGED purchase, pc' = [pc EXCEPT ![r] = to],
             purchasing' = [purchasing EXCEPT ![r] = c],
             userOf[r] \in Admin, UpToDate(c, purchase[c.number], to)
      PROVE  AddsUpInv'
  <2>1. purchasing'[r] = c /\ pc'[r] = to /\ purchase' = purchase
    BY <1>1, <1>2
  <2>2. OrdersAt(r)'
    BY <1>2, <2>1 DEF OrdersAt
  <2>3. \A q \in Request \ {r} : pc'[q] = pc[q] /\ purchasing'[q] = purchasing[q]
    BY <1>1, <1>2
  <2>4. QED
    BY <1>2, <2>2, <2>3, OrdersStay
<1>3. ASSUME NEW n \in Ordered, NEW due, StartReceive(r, n, due)
      PROVE  AddsUpInv'
  <2>1. PICK c : c = Locals(n, purchase[n].supply, purchase[n].received, due, purchase[n].payment)
    OBVIOUS
  <2>2. c.base = purchase[n].received /\ c.number = n
    BY <2>1 DEF Locals
  <2>3. UpToDate(c, purchase[c.number], "readItem")
    BY <2>2 DEF UpToDate
  <2>4. /\ UNCHANGED purchase /\ pc' = [pc EXCEPT ![r] = "readItem"]
        /\ purchasing' = [purchasing EXCEPT ![r] = c] /\ userOf[r] \in Admin
    BY <1>3, <2>1 DEF StartReceive, Step
  <2>5. QED
    BY <1>2, <2>3, <2>4
<1>4. ASSUME SkipItem(r) \/ ReadItem(r) \/ StoreItem(r) \/ RefreshItems(r) \/ WriteReceived(r)
      PROVE  AddsUpInv'
  <2>1. pc[r] \in {"readItem", "storeItem", "writeStatus"}
    BY <1>4 DEF SkipItem, ReadItem, StoreItem, RefreshItems, WriteReceived, Step
  <2>2. PICK b, w : b = purchasing[r] /\ w = purchase[b.number]
    OBVIOUS
  <2>3. pc[r] \in ReceiveLabel /\ pc[r] \in PurchaseLabel
    BY <2>1 DEF ReceiveLabel, PurchaseLabel
  <2>4. DOMAIN b = LocalFields /\ userOf[r] \in Admin /\ UpToDate(b, w, pc[r])
    BY <1>1, <2>2, <2>3, ReceivingFacts DEF OrdersAt
  <2>5. CASE SkipItem(r) \/ ReadItem(r) \/ StoreItem(r)
    <3>1. PICK to \in {"readItem", "storeItem"} : UNCHANGED purchase /\ pc' = [pc EXCEPT ![r] = to]
      BY <2>5 DEF SkipItem, ReadItem, StoreItem, Step
    <3>2. PICK c : c = purchasing'[r]
      OBVIOUS
    <3>3. /\ purchasing' = [purchasing EXCEPT ![r] = c]
          /\ c.base = b.base /\ c.number = b.number
      <4>1. CASE ReadItem(r)
        <5>1. PICK k : k = Visible(r, b.supply.items[b.at].product)
          OBVIOUS
        <5>2. purchasing' = [purchasing EXCEPT ![r].seen = k]
          BY <2>2, <4>1, <5>1 DEF ReadItem, Purchasing
        <5>3. c = [b EXCEPT !.seen = k]
          BY <1>1, <2>2, <3>2, <5>2
        <5>4. QED
          BY <1>1, <2>2, <2>4, <5>2, <5>3 DEF LocalFields
      <4>2. CASE SkipItem(r) \/ StoreItem(r)
        <5>1. PICK k : k = b.at + 1
          OBVIOUS
        <5>2. purchasing' = [purchasing EXCEPT ![r].at = k]
          BY <1>1, <2>2, <4>2, <5>1 DEF SkipItem, StoreItem
        <5>3. c = [b EXCEPT !.at = k]
          BY <1>1, <2>2, <3>2, <5>2
        <5>4. QED
          BY <1>1, <2>2, <2>4, <5>2, <5>3 DEF LocalFields
      <4>3. QED
        BY <2>5, <4>1, <4>2
    <3>4. purchase[c.number] = w
      BY <2>2, <3>3
    <3>5. UpToDate(c, w, to)
      BY <2>4, <3>1, <3>3 DEF UpToDate
    <3>6. QED
      BY <1>2, <2>4, <3>1, <3>3, <3>4, <3>5
  <2>6. CASE RefreshItems(r)
    <3>1. PICK k : k = StatusOf(b.supply, RefreshedBy(b, w))
      OBVIOUS
    <3>2. Refreshed(r) = RefreshedBy(b, w)
      BY <2>2, RefreshedIs
    <3>3. purchasing' = [purchasing EXCEPT ![r].status = k]
      BY <2>2, <2>6, <3>1, <3>2 DEF RefreshItems, Purchasing
    <3>4. PICK c : c = [b EXCEPT !.status = k]
      OBVIOUS
    <3>5. purchasing' = [purchasing EXCEPT ![r] = c]
      BY <2>2, <3>3, <3>4
    <3>6. /\ c.status = k /\ c.base = b.base /\ c.number = b.number /\ c.supply = b.supply
          /\ c.due = b.due /\ c.at = b.at
      BY <2>4, <3>4 DEF LocalFields
    <3>7. RefreshedBy(c, w) = RefreshedBy(b, w)
      BY <3>6 DEF RefreshedBy, StoredBy
    <3>8. UpToDate(c, w, "writeStatus")
      BY <2>4, <3>1, <3>6, <3>7 DEF UpToDate
    <3>9. UNCHANGED purchase /\ pc' = [pc EXCEPT ![r] = "writeStatus"] /\ purchase[c.number] = w
      BY <2>2, <2>6, <3>6 DEF RefreshItems, Step
    <3>10. QED
      BY <1>2, <2>4, <3>5, <3>8, <3>9
  <2>7. CASE WriteReceived(r)
    <3>1. /\ pc[r] = "writeStatus" /\ pc' = [pc EXCEPT ![r] = "commitReceive"]
          /\ UNCHANGED <<purchase, purchasing>>
      BY <2>7 DEF WriteReceived, Step, purchaseVars
    <3>2. UpToDate(b, w, "commitReceive")
      BY <2>4, <3>1 DEF UpToDate
    <3>3. OrdersAt(r)'
      BY <1>1, <2>2, <2>4, <3>1, <3>2 DEF OrdersAt
    <3>4. \A q \in Request \ {r} : pc'[q] = pc[q] /\ purchasing'[q] = purchasing[q]
      BY <1>1, <3>1
    <3>5. QED
      BY <3>1, <3>3, <3>4, OrdersStay
  <2>8. QED
    BY <1>4, <2>5, <2>6, <2>7
<1>5. QED
  BY <1>3, <1>4


\* receive, its commit: the quantities received are those that arrive with it.
LEMMA OrdersArrive ==
    ASSUME OneAdminSlot, BuyBefore, AddsUpInv, NEW r \in Request, CommitReceive(r)
    PROVE  AddsUpInv'
<1>1. PICK b, n, w : b = purchasing[r] /\ n = b.number /\ w = purchase[n]
  OBVIOUS
<1>2. pc[r] = "commitReceive" /\ pc' = [pc EXCEPT ![r] = "idle"]
  BY DEF CommitReceive, Step
<1>3. pc[r] \in ReceiveLabel /\ pc[r] \in PurchaseLabel
  BY <1>2 DEF ReceiveLabel, PurchaseLabel
<1>4. /\ n \in Ordered /\ n \in PurchaseNumber /\ PurchaseOK(w) /\ ReceiverOK(b, w)
  BY <1>1, <1>3, ReceivingFacts
<1>5. UpToDate(b, w, "commitReceive") /\ AddsUp(w)
  BY <1>1, <1>2, <1>3, <1>4 DEF AddsUpInv, OrdersAt
<1>6. PICK received, arrived :
        /\ received = RefreshedBy(b, w)
        /\ arrived = [i \in DOMAIN w.arrived |->
                        w.arrived[i] + IF i \in StoredBy(b) THEN b.due[i] ELSE 0]
  OBVIOUS
<1>7. PICK x : x = [w EXCEPT !.status = b.status, !.received = received, !.arrived = arrived]
  OBVIOUS
<1>8. purchase' = [purchase EXCEPT ![n] = x]
  <2>1. Refreshed(r) = received /\ Stored(r) = StoredBy(b)
    BY <1>1, <1>6, RefreshedIs
  <2>2. QED
    BY <1>1, <1>6, <1>7, <2>1 DEF CommitReceive, Purchasing
<1>9. received = arrived
  <2>1. /\ DOMAIN b.due = DOMAIN w.arrived
        /\ \A i \in DOMAIN w.arrived : w.arrived[i] \in Nat /\ b.due[i] \in Nat
    BY <1>4 DEF PurchaseOK, ReceiverOK
  <2>2. b.base = w.arrived /\ w.received = w.arrived
    BY <1>5 DEF UpToDate, AddsUp
  <2>3. \A i \in DOMAIN w.arrived :
          (IF i \in StoredBy(b) THEN b.base[i] + b.due[i] ELSE w.received[i])
            = w.arrived[i] + IF i \in StoredBy(b) THEN b.due[i] ELSE 0
    BY <2>1, <2>2
  <2>4. QED
    BY <1>6, <2>1, <2>3 DEF RefreshedBy
<1>10. /\ x.received = received /\ x.arrived = arrived /\ x.status = b.status
       /\ x.supply = b.supply
  BY <1>4, <1>7 DEF PurchaseOK, ReceiverOK
<1>11. b.status = StatusOf(b.supply, received)
  BY <1>5, <1>6 DEF UpToDate
<1>12. AddsUp(x)
  BY <1>9, <1>10, <1>11 DEF AddsUp
<1>13. QED
  BY <1>2, <1>3, <1>4, <1>8, <1>12, OneWrites

\* create, its commit, and the one statement of cancel and update
LEMMA OrdersWrite ==
    ASSUME OneAdminSlot, BuyBefore, AddsUpInv, NEW r \in Request,
           CommitPurchase(r) \/ WriteCancelled(r) \/ WritePayment(r)
    PROVE  AddsUpInv'
<1>1. /\ pc[r] \in {"commitPurchase", "writeCancelled", "writePayment"}
      /\ pc' = [pc EXCEPT ![r] = "idle"] /\ DOMAIN pc = Request /\ BuyerAt(r)
  BY BuyFacts DEF CommitPurchase, WriteCancelled, WritePayment, Step
<1>2. pc[r] \in PurchaseLabel
  BY <1>1 DEF PurchaseLabel
<1>3. PICK n : n = purchasing[r].number
  OBVIOUS
<1>4. CASE CommitPurchase(r)
  <2>1. PICK s, w : s = purchasing[r].supply /\ w = NewPurchase(s)
    OBVIOUS
  <2>2. pc[r] = "commitPurchase" /\ purchase' = [purchase EXCEPT ![n] = w]
    BY <1>3, <1>4, <2>1 DEF CommitPurchase, Purchasing, Step
  <2>3. n \in PurchaseNumber /\ s \in Supply
    BY <1>1, <1>2, <1>3, <2>1, <2>2 DEF BuyerAt, HasInsertedPurchase
  <2>4. PICK none : none = [i \in DOMAIN s.items |-> 0]
    OBVIOUS
  <2>5. w.received = none /\ w.arrived = none /\ w.status = "PENDING" /\ w.supply = s
    BY <2>1, <2>4 DEF NewPurchase
  <2>6. StatusOf(s, none) = "PENDING"
    <3>1. \A i \in DOMAIN s.items : s.items[i].quantity \in Nat \ {0}
      BY <2>3, SupplyFacts
    <3>2. 1 \in DOMAIN s.items
      <4>1. s.items # <<>> /\ s.items \in Seq([product: Product, quantity: Nat \ {0}])
        BY <2>3, SupplyAssumption DEF SupplyType
      <4>2. QED
        BY <4>1
    <3>3. ~ \A i \in DOMAIN s.items : none[i] >= s.items[i].quantity
      BY <2>4, <3>1, <3>2
    <3>4. ~ \E i \in DOMAIN s.items : none[i] > 0
      BY <2>4
    <3>5. QED
      BY <3>3, <3>4 DEF StatusOf
  <2>7. AddsUp(w)
    BY <2>5, <2>6 DEF AddsUp
  <2>8. QED
    BY <1>1, <1>2, <2>2, <2>3, <2>7, OneWrites
<1>5. CASE WriteCancelled(r) \/ WritePayment(r)
  <2>1. PICK v : v = purchase[n]
    OBVIOUS
  <2>2. pc[r] \in {"writeCancelled", "writePayment"}
    BY <1>5 DEF WriteCancelled, WritePayment, Step
  <2>3. n \in Ordered /\ n \in PurchaseNumber /\ PurchaseOK(v) /\ DOMAIN purchase = PurchaseNumber
    BY <1>1, <1>3, <2>1, <2>2, BuyFacts DEF BuyerAt
  <2>4. PICK w : /\ w \in {[v EXCEPT !.status = "CANCELLED"],
                           [v EXCEPT !.payment = purchasing[r].payment]}
                 /\ purchase' = [purchase EXCEPT ![n] = w]
    <3>1. CASE WriteCancelled(r)
      BY <1>3, <2>1, <2>3, <3>1 DEF WriteCancelled, Purchasing
    <3>2. CASE WritePayment(r)
      BY <1>3, <2>1, <2>3, <3>2 DEF WritePayment, Purchasing
    <3>3. QED
      BY <1>5, <3>1, <3>2
  <2>5. /\ w.received = v.received /\ w.arrived = v.arrived /\ w.supply = v.supply
        /\ w.status \in {v.status, "CANCELLED"}
    BY <2>3, <2>4 DEF PurchaseOK
  <2>6. AddsUp(v)
    BY <2>1, <2>3 DEF AddsUpInv
  <2>7. AddsUp(w)
    BY <2>5, <2>6 DEF AddsUp
  <2>8. QED
    BY <1>1, <1>2, <2>3, <2>4, <2>7, OneWrites
<1>6. QED
  BY <1>4, <1>5

LEMMA OrdersAddUp ==
    ASSUME OneAdminSlot, BuyBefore, AddsUpInv, PurchasesNext
    PROVE  AddsUpInv'
<1>1. PICK r \in Request :
        \/ \E s \in Supply : StartPurchase(r, s)
        \/ \E n \in Ordered : \/ \E due \in Named(n) : StartReceive(r, n, due)
                              \/ StartCancelPurchase(r, n)
                              \/ \E p \in {"PENDING", "PAID"} : StartUpdatePurchase(r, n, p)
        \/ PurchaseStep(r)
        \/ RollbackPurchase(r)
  BY DEF PurchasesNext
<1>2. CASE \/ \E s \in Supply : StartPurchase(r, s)
           \/ \E n \in Ordered : \/ StartCancelPurchase(r, n)
                                 \/ \E p \in {"PENDING", "PAID"} : StartUpdatePurchase(r, n, p)
           \/ RollbackPurchase(r)
  BY <1>2, OrdersBeside
<1>3. CASE \E n \in Ordered : \E due \in Named(n) : StartReceive(r, n, due)
  BY <1>3, OrdersReceive
<1>4. CASE PurchaseStep(r)
  BY <1>4, OrdersBeside, OrdersReceive, OrdersArrive, OrdersWrite DEF PurchaseStep
<1>5. QED
  BY <1>1, <1>2, <1>3, <1>4

\* A step that is not of a purchase.
LEMMA OrdersUntouched ==
    ASSUME BuyBefore, AddsUpInv, UNCHANGED purchaseVars,
           NEW r \in Request, pc'[r] \notin PurchaseLabel,
           \A q \in Request \ {r} : pc'[q] = pc[q]
    PROVE  AddsUpInv'
<1>1. UNCHANGED <<purchase, purchasing>>
  BY DEF purchaseVars
<1>2. OrdersAt(r)'
  BY DEF OrdersAt, ReceiveLabel, PurchaseLabel
<1>3. QED
  BY <1>1, <1>2, OrdersStay

LEMMA NextAddsUp ==
    ASSUME OneAdminSlot, ShopInv, AddsUpInv, [ShopNext]_shopVars
    PROVE  AddsUpInv'
<1>1. TypeInv /\ BuyBefore /\ WorkBefore /\ QuickInv
  BY SaleFacts DEF ShopInv, StockInv, BuyBefore, WorkBefore
<1>2. CASE Next /\ UNCHANGED purchaseVars
  <2>1. PICK r \in Request : /\ pc'[r] \in SaleLabel \cup {"idle"}
                             /\ \A q \in Request \ {r} : pc'[q] = pc[q]
    BY <1>1, <1>2, SaleLabels
  <2>2. pc'[r] \notin PurchaseLabel
    BY <2>1, LabelsApart DEF OtherLabel
  <2>3. QED
    BY <1>1, <1>2, <2>1, <2>2, OrdersUntouched
<1>3. CASE PurchasesNext
  BY <1>1, <1>3, OrdersAddUp
<1>4. CASE WorkNext /\ UNCHANGED purchaseVars
  <2>1. PICK r \in Request : WorkKept(r)
    BY <1>1, <1>4, WorkKeeps
  <2>2. pc'[r] \notin PurchaseLabel /\ \A q \in Request \ {r} : pc'[q] = pc[q]
    BY <2>1, LabelsApart DEF WorkKept, OneSlot, OtherLabel
  <2>3. QED
    BY <1>1, <1>4, <2>2, OrdersUntouched
<1>5. CASE QuickNext /\ UNCHANGED purchaseVars
  <2>1. PICK r \in Request : QuickKept(r)
    BY <1>1, <1>5, QuickKeeps
  <2>2. pc'[r] \notin PurchaseLabel /\ \A q \in Request \ {r} : pc'[q] = pc[q]
    BY <2>1, LabelsApart DEF QuickKept, OneSlot, OtherLabel
  <2>3. QED
    BY <1>1, <1>5, <2>2, OrdersUntouched
<1>6. CASE UNCHANGED shopVars
  <2>1. UNCHANGED <<purchase, purchasing, pc>>
    BY <1>6 DEF shopVars, vars, purchaseVars
  <2>2. QED
    BY <2>1 DEF AddsUpInv, OrdersAt, Ordered
<1>7. QED
  BY <1>2, <1>3, <1>4, <1>5, <1>6 DEF ShopNext

\* While one request at a time may buy, what a purchase order counts as
\* received is what came in with it, and its status tells how much that is,
\* whatever sales, repairs and services run beside it and whatever fails.
THEOREM ShopPurchasesAddUp ==
    ASSUME OneAdminSlot
    PROVE  ShopSpec => []PurchasesAddUp
<1>1. ShopInit => AddsUpInv
  <2> SUFFICES ASSUME ShopInit PROVE AddsUpInv
    OBVIOUS
  <2>1. (\A r \in Request : pc[r] = "idle") /\ purchase = [n \in PurchaseNumber |-> NoPurchase]
    BY DEF ShopInit, Init, PurchasesInit
  <2>2. Ordered = {} /\ "idle" \notin PurchaseLabel \cup ReceiveLabel
    BY <2>1 DEF Ordered, NoPurchase, PurchaseLabel, ReceiveLabel
  <2>3. QED
    BY <2>1, <2>2 DEF AddsUpInv, OrdersAt
<1>2. ShopInv /\ AddsUpInv /\ [ShopNext]_shopVars => AddsUpInv'
  BY NextAddsUp
<1>3. AddsUpInv => PurchasesAddUp
  BY DEF AddsUpInv, AddsUp, PurchasesAddUp
<1>4. QED
  BY <1>1, <1>2, <1>3, ShopKeepsInvariant, PTL DEF ShopSpec
=============================================================================

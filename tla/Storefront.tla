------------------------------ MODULE Storefront -------------------------------
(***************************************************************************)
(* What surrounds the sales: the orders placed online over the same        *)
(* products, the documents issued for sales and the receipts sent to       *)
(* customers, while sales are registered and cancelled.                    *)
(***************************************************************************)
EXTENDS OnlineOrders, SunatDocuments, Receipts, TLC

CONSTANT MaxCalls   \* bound: requests of one history

ASSUME StorefrontAssumption == MaxCalls \in Nat

VARIABLES
    patient,    \* the clients wait for every answer before they ask again
    calls       \* requests made so far

frontVars == <<vars, webVars, documentVars, receiptVars, patient, calls>>

FrontInit ==
    /\ Init /\ WebInit /\ DocumentsInit /\ ReceiptsInit
    /\ patient \in BOOLEAN
    /\ calls = 0

Arrive(r) ==
    /\ calls < MaxCalls
    /\ patient => \A q \in Request : Idle(q)
    /\ calls' = calls + 1
    /\ UNCHANGED patient
    /\ \/ /\ \/ \E o \in Order : StartSale(r, o)
             \/ \E n \in SaleNumber : StartCancel(r, n)
          /\ UNCHANGED <<webVars, documentVars, receiptVars>>
       \/ /\ StartWeb(r)
          /\ UNCHANGED <<rowVars, cashVars, saleVars, documentVars, receiptVars>>
       \/ /\ StartIssuing(r)
          /\ UNCHANGED <<rowVars, cashVars, saleVars, webVars, receiptVars>>
       \/ /\ StartSending(r)
          /\ UNCHANGED <<rowVars, cashVars, saleVars, webVars, documentVars>>

Handle(r) ==
    /\ UNCHANGED <<patient, calls>>
    /\ \/ /\ CreateStep(r) \/ CancelStep(r) \/ RollbackSale(r)
          /\ UNCHANGED <<webVars, documentVars, receiptVars>>
       \/ /\ WebStep(r)
          /\ UNCHANGED <<rowVars, cashVars, saleVars, documentVars, receiptVars>>
       \/ /\ IssueStep(r)
          /\ UNCHANGED <<rowVars, cashVars, saleVars, webVars, receiptVars>>
       \/ /\ SendStep(r)
          /\ UNCHANGED <<rowVars, cashVars, saleVars, webVars, documentVars>>

FrontNext == \E r \in Request : Arrive(r) \/ Handle(r)

FrontSpec == FrontInit /\ [][FrontNext]_frontVars

-----------------------------------------------------------------------------
(* Properties *)

\* What holds when requests do not overlap: an order is confirmed from stock,
\* and no document is issued for a cancelled sale.
ConfirmationsAndDocumentsStand ==
    [][patient => ConfirmedFromStock /\ OnlySalesThatStand]_frontVars

-----------------------------------------------------------------------------
(* A small instance for TLC: two slots of one administrator, two units of  *)
(* one product, and every way receipts can be configured.                  *)

CONSTANTS r1, r2, ana, ram

MCUserOf == [r \in Request |-> ana]
MCTellers == <<ana>>
MCStock == [p \in Product |-> 2]

MCOrders ==
    {[items |-> <<[product |-> ram, quantity |-> 1]>>, total |-> 1,
      pays |-> [m \in Method |-> IF m = "CASH" THEN 1 ELSE 0]]}
MCTaken == [o \in MCOrders |-> [i \in 0..1 |-> [p \in Product |-> i]]]

MCBaskets == {<<[product |-> ram, quantity |-> n]>> : n \in 1..2}
MCSetting(mode, enabled, fallback, configured, strategy) ==
    [mode |-> mode, enabled |-> enabled, fallback |-> fallback, configured |-> configured,
     strategy |-> strategy, production |-> strategy = "auto"]
MCSettings ==
    {MCSetting("cloud_api", TRUE, TRUE, TRUE, "receipt_pdf"),
     MCSetting("cloud_api", TRUE, FALSE, TRUE, "auto"),
     MCSetting("cloud_api", FALSE, FALSE, FALSE, "text"),
     MCSetting("link", TRUE, TRUE, TRUE, "link"),
     MCSetting("mock", FALSE, FALSE, FALSE, "document")}

\* Both slots serve the same administrator: they can be exchanged.
MCSlots == Permutations({r1, r2})
=============================================================================

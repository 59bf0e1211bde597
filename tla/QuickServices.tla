---------------------------- MODULE QuickServices ----------------------------
(***************************************************************************)
(* QuickServicesService: createSale and cancelSale, and the catalogue.  A  *)
(* service is collected in the open session of the user who sells it, and  *)
(* refunded in that same session, whatever has become of it.               *)
(***************************************************************************)
EXTENDS CashBook, Functions

CONSTANTS
    QuickSale,      \* CreateQuickServiceSaleDto values: [services, total, method]
    Service,        \* rows of the QuickService table
    MaxQuick        \* bound: quick sales ever registered

\* total is what createSale computes: prices times quantities less the
\* discount, at least zero.
ASSUME QuickAssumption ==
    /\ QuickSale \subseteq [services: SUBSET Service, total: Nat, method: Method]
    /\ MaxQuick \in Nat

VARIABLES
    quick,      \* committed QuickServiceSale rows by the number in SR-000001...
    offered,    \* QuickService.isActive
    serving     \* the local variables of the handler of r, or None

quickVars == <<quick, offered, serving>>

QuickNumber == 1..MaxQuick

NoQuick == [status |-> "NONE", refunds |-> 0]

Served == {n \in QuickNumber : quick[n].status # "NONE"}

-----------------------------------------------------------------------------
(* createSale *)

\* The open session is looked for first, when the transaction begins.
StartQuick(r, q) ==
    /\ Step(r, "idle", "readServices")
    /\ \E s \in OpenSessionsOf(userOf[r]) : till' = [till EXCEPT ![r] = s]
    /\ serving' = [serving EXCEPT ![r] = [number |-> 0, sale |-> q]]
    /\ UNCHANGED <<session, takings, posting, quick, offered>>

\* Every service must be active; their prices are read and the sales counted.
ReadServices(r) ==
    /\ Step(r, "readServices", "insertQuick")
    /\ \A s \in serving[r].sale.services : offered[s]
    /\ Cardinality(Served) < MaxQuick
    /\ serving' = [serving EXCEPT ![r].number = Cardinality(Served) + 1]
    /\ UNCHANGED <<cashVars, quick, offered>>

\* The unique index on QuickServiceSale.code; then the SERVICE_PAYMENT.
InsertQuick(r) ==
    LET b == serving[r]
    IN  /\ Step(r, "insertQuick", "commitQuick")
        /\ b.number \notin Served
        /\ \A q \in Request : pc[q] = "commitQuick" => serving[q].number # b.number
        /\ posting' = [posting EXCEPT ![r] = PostOne("INCOME", b.sale.method, b.sale.total)]
        /\ UNCHANGED <<session, takings, till, quickVars>>

CommitQuick(r) ==
    LET b == serving[r]
    IN  /\ Step(r, "commitQuick", "idle")
        /\ quick' = [quick EXCEPT ![b.number] =
             [status |-> "COMPLETED", sale |-> b.sale, till |-> till[r], refunds |-> 0]]
        /\ CommitPostings(r)
        /\ serving' = [serving EXCEPT ![r] = None]
        /\ UNCHANGED <<session, offered>>

-----------------------------------------------------------------------------
(* cancelSale *)

\* The sale is read in the transaction, without a lock.
StartCancelQuick(r, n) ==
    /\ Step(r, "idle", "writeQuick")
    /\ userOf[r] \in Admin
    /\ quick[n].status = "COMPLETED"
    /\ till' = [till EXCEPT ![r] = quick[n].till]
    /\ serving' = [serving EXCEPT ![r] = [number |-> n, sale |-> quick[n].sale]]
    /\ UNCHANGED <<session, takings, posting, quick, offered>>

\* Faulty variant: the refund is always in cash.
FaultyWriteQuick(r) ==
    LET b == serving[r]
    IN  /\ Step(r, "writeQuick", "commitRefund")
        /\ \A q \in Request : pc[q] = "commitRefund" => serving[q].number # b.number
        /\ posting' = [posting EXCEPT ![r] = PostOne("INCOME", "CASH", -b.sale.total)]
        /\ UNCHANGED <<session, takings, till, quickVars>>

\* The update waits for another cancellation that holds the row and does not
\* look at the status again; the ADJUSTMENT goes to the session of the sale.
WriteQuick(r) ==
    LET b == serving[r]
    IN  /\ Step(r, "writeQuick", "commitRefund")
        /\ \A q \in Request : pc[q] = "commitRefund" => serving[q].number # b.number
        /\ posting' = [posting EXCEPT ![r] = PostOne("INCOME", b.sale.method, -b.sale.total)]
        /\ UNCHANGED <<session, takings, till, quickVars>>

CommitRefund(r) ==
    /\ Step(r, "commitRefund", "idle")
    /\ quick' = [quick EXCEPT ![serving[r].number].status = "CANCELLED",
                              ![serving[r].number].refunds = @ + 1]
    /\ CommitPostings(r)
    /\ serving' = [serving EXCEPT ![r] = None]
    /\ UNCHANGED <<session, offered>>

-----------------------------------------------------------------------------
(* The catalogue: one UPDATE, committed at once.  Nothing makes a service     *)
(* active again: UpdateQuickServiceDto has no isActive.                      *)

DeactivateService(r, s) ==
    /\ Idle(r)
    /\ userOf[r] \in Admin
    /\ offered' = [offered EXCEPT ![s] = FALSE]
    /\ UNCHANGED <<pc, cashVars, quick, serving>>

-----------------------------------------------------------------------------
QuickLabel == {"readServices", "insertQuick", "commitQuick", "writeQuick", "commitRefund"}

RollbackQuick(r) ==
    /\ pc[r] \in QuickLabel
    /\ pc' = [pc EXCEPT ![r] = "idle"]
    /\ DropPostings(r)
    /\ serving' = [serving EXCEPT ![r] = None]
    /\ UNCHANGED <<session, quick, offered>>

QuickStep(r) ==
    \/ ReadServices(r) \/ InsertQuick(r) \/ CommitQuick(r)
    \/ WriteQuick(r) \/ CommitRefund(r)

QuickNext ==
    \E r \in Request :
        \/ \E q \in QuickSale : StartQuick(r, q)
        \/ \E n \in Served : StartCancelQuick(r, n)
        \/ \E s \in Service : DeactivateService(r, s)
        \/ QuickStep(r)
        \/ RollbackQuick(r)

QuickInit ==
    /\ quick = [n \in QuickNumber |-> NoQuick]
    /\ offered = [s \in Service |-> TRUE]
    /\ serving = [r \in Request |-> None]

-----------------------------------------------------------------------------
(* Properties *)

\* What is left of the price of each service after its refunds, and the
\* services sold in a session and paid by one method.
Collected == [n \in Served |-> quick[n].sale.total * (1 - quick[n].refunds)]

ServicesIn(s, m) == {n \in Served : quick[n].till = s /\ quick[n].sale.method = m}

\* What a session has collected is what its quick services cost, less every
\* refund: a service, its payment and its refund commit together, and a refund
\* follows its service into whatever session, closed or not.  Manual movements
\* would come on top.
TakingsMatchServices ==
    \A s \in Session, m \in Method :
        takings[s]["INCOME"][m] = SumFunctionOnSet(Collected, ServicesIn(s, m))
=============================================================================

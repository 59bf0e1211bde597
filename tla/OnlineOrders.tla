----------------------------- MODULE OnlineOrders ------------------------------
(***************************************************************************)
(* EcommerceService: createOrder and updateStatus.  Both run in a          *)
(* transaction that writes one row as its last statement but the audit     *)
(* entry, so that writing and committing are one step.  An order takes no  *)
(* stock, neither when it is placed nor when it is confirmed.              *)
(***************************************************************************)
EXTENDS ProductRows, FiniteSets, Sequences

CONSTANTS
    Basket,     \* the items of an order: sequences of [product, quantity]
    MaxWeb      \* bound: orders ever placed

ASSUME WebAssumption ==
    /\ MaxWeb \in Nat
    /\ Basket \subseteq Seq([product: Product, quantity: Nat \ {0}])

VARIABLES
    web,        \* committed OnlineOrder rows by the number in their code WEB-000001
    ordering    \* the items r has still to look at, and what it will write, or None

webVars == <<web, ordering>>

WebStatus == {"PENDING", "CONFIRMED", "PREPARING", "DELIVERED", "CANCELLED"}
NoWeb == [status |-> "NONE", basket |-> <<>>]
Placed == {n \in 1..MaxWeb : web[n] # NoWeb}

\* The first item left is read, and is not short of stock.
LookAtItem(r) ==
    LET item == Head(ordering[r].left)
    IN  /\ ordering[r].left # <<>>
        /\ stock[item.product] >= item.quantity
        /\ ordering' = [ordering EXCEPT ![r].left = Tail(@)]

-----------------------------------------------------------------------------
(* createOrder *)

StartWebOrder(r, basket) ==
    /\ Step(r, "idle", "readWebItem")
    /\ ordering' = [ordering EXCEPT ![r] =
         [left |-> basket, row |-> [status |-> "PENDING", basket |-> basket], code |-> 0]]
    /\ UNCHANGED web

ReadWebItem(r) ==
    /\ Step(r, "readWebItem", "readWebItem")
    /\ LookAtItem(r)
    /\ active[Head(ordering[r].left).product]
    /\ UNCHANGED web

CountWebOrders(r) ==
    /\ Step(r, "readWebItem", "insertWebOrder")
    /\ ordering[r].left = <<>>
    /\ Cardinality(Placed) < MaxWeb
    /\ ordering' = [ordering EXCEPT ![r].code = Cardinality(Placed) + 1]
    /\ UNCHANGED web

\* The unique index on OnlineOrder.code.
InsertWebOrder(r) ==
    /\ Step(r, "insertWebOrder", "idle")
    /\ ordering[r].code \notin Placed
    /\ web' = [web EXCEPT ![ordering[r].code] = ordering[r].row]
    /\ ordering' = [ordering EXCEPT ![r] = None]

-----------------------------------------------------------------------------
(* updateStatus *)

\* Faulty variant: the stock is looked at when a PENDING order is confirmed.
FaultyStartWebStatus(r, n, status) ==
    LET basket == web[n].basket
    IN  /\ Step(r, "idle", "checkWebItem")
        /\ n \in Placed
        /\ ordering' = [ordering EXCEPT ![r] =
             [left |-> IF status = "CONFIRMED" /\ web[n].status = "PENDING"
                       THEN basket ELSE <<>>,
              row |-> [status |-> status, basket |-> basket], code |-> n]]
        /\ UNCHANGED web

\* Any status may follow any other; the stock is looked at when the order
\* becomes CONFIRMED.
StartWebStatus(r, n, status) ==
    LET basket == web[n].basket
    IN  /\ Step(r, "idle", "checkWebItem")
        /\ n \in Placed
        /\ ordering' = [ordering EXCEPT ![r] =
             [left |-> IF status = "CONFIRMED" /\ web[n].status # "CONFIRMED"
                       THEN basket ELSE <<>>,
              row |-> [status |-> status, basket |-> basket], code |-> n]]
        /\ UNCHANGED web

CheckWebItem(r) ==
    /\ Step(r, "checkWebItem", "checkWebItem")
    /\ LookAtItem(r)
    /\ UNCHANGED web

WriteWebStatus(r) ==
    /\ Step(r, "checkWebItem", "idle")
    /\ ordering[r].left = <<>>
    /\ web' = [web EXCEPT ![ordering[r].code].status = ordering[r].row.status]
    /\ ordering' = [ordering EXCEPT ![r] = None]

-----------------------------------------------------------------------------
\* Any throw, failed statement, timeout or lost connection.
RollbackWeb(r) ==
    /\ pc[r] \in {"readWebItem", "insertWebOrder", "checkWebItem"}
    /\ pc' = [pc EXCEPT ![r] = "idle"]
    /\ ordering' = [ordering EXCEPT ![r] = None]
    /\ UNCHANGED web

StartWeb(r) ==
    \/ \E basket \in Basket : StartWebOrder(r, basket)
    \/ \E n \in 1..MaxWeb, status \in WebStatus : StartWebStatus(r, n, status)

WebStep(r) ==
    \/ ReadWebItem(r) \/ CountWebOrders(r) \/ InsertWebOrder(r)
    \/ CheckWebItem(r) \/ WriteWebStatus(r) \/ RollbackWeb(r)

WebInit ==
    /\ web = [n \in 1..MaxWeb |-> NoWeb]
    /\ ordering = [r \in Request |-> None]

-----------------------------------------------------------------------------
(* Properties, of a step *)

\* "Al confirmar, valida stock disponible": an order becomes CONFIRMED, from
\* whichever status, only while the stock covers each of its items.
ConfirmedFromStock ==
    \A n \in Placed :
      web[n].status # "CONFIRMED" /\ web'[n].status = "CONFIRMED" =>
        \A i \in DOMAIN web[n].basket :
          stock[web[n].basket[i].product] >= web[n].basket[i].quantity
=============================================================================

----------------------------- MODULE StockLedger -----------------------------
(***************************************************************************)
(* What the shop promises about stock while nothing is cancelled: a sale   *)
(* takes all the units of an order in one step, and only when they are all *)
(* there.                                                                  *)
(***************************************************************************)
EXTENDS Integers

CONSTANTS
    Product,
    InitialStock,   \* units of each product: [Product -> Nat]
    Demand          \* what the orders ask for: a subset of [Product -> Nat]

VARIABLES
    shelf,      \* units on the shelf
    sold        \* units sold so far

vars == <<shelf, sold>>

Init ==
    /\ shelf = InitialStock
    /\ sold = [p \in Product |-> 0]

Sell(demand) ==
    /\ \A p \in Product : demand[p] <= shelf[p]
    /\ shelf' = [p \in Product |-> shelf[p] - demand[p]]
    /\ sold' = [p \in Product |-> sold[p] + demand[p]]

Next == \E demand \in Demand : Sell(demand)

Spec == Init /\ [][Next]_vars
=============================================================================

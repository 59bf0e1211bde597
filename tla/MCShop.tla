------------------------------- MODULE MCShop -------------------------------
(***************************************************************************)
(* Small instances of the shop of Reports for TLC.                         *)
(***************************************************************************)
EXTENDS Reports, TLC

CONSTANTS r1, r2, ana, ram, ssd, prints

Units(p, n) == [product |-> p, quantity |-> n]
Pays(cash, yape) ==
    [m \in Method |-> CASE m = "CASH" -> cash [] m = "YAPE" -> yape [] OTHER -> 0]

MCUserOf1 == r1 :> ana
MCUserOf2 == r1 :> ana @@ r2 :> ana
MCTellers == <<ana>>
MCStock == [p \in Product |-> IF p = ram THEN 1 ELSE 0]
MCPrice == [p \in Product |-> IF p = ram THEN 3 ELSE 1]
MCCostPrice == prints :> 1
MCMinStock == [p \in Product |-> 1]

\* One ram, paid in part by phone; two of them, as two items, paid in cash.
MCOrders ==
    {[items |-> <<Units(ram, 1)>>, total |-> 5, pays |-> Pays(0, 4)],
     [items |-> <<Units(ram, 1), Units(ram, 1)>>, total |-> 10, pays |-> Pays(10, 0)]}
MCTaken ==
    [o \in MCOrders |-> [i \in 0..Len(o.items) |->
        [p \in Product |-> IF p = ram THEN i ELSE 0]]]

\* Two rams, paid later or from the till.
MCSupply ==
    {[items |-> <<Units(ram, 2)>>, total |-> 6, payment |-> "PENDING",
      fromCash |-> FALSE, method |-> "CASH"],
     [items |-> <<Units(ram, 2)>>, total |-> 6, payment |-> "PAID",
      fromCash |-> TRUE, method |-> "YAPE"]}

\* A ram and a disk, paid later.
MCTwoProducts ==
    {[items |-> <<Units(ram, 1), Units(ssd, 1)>>, total |-> 4, payment |-> "PENDING",
      fromCash |-> FALSE, method |-> "CASH"]}

\* Both slots serve the same administrator: they can be exchanged.
MCSlots == Permutations({r1, r2})

MCParts == {[product |-> ram, quantity |-> 1, price |-> 5]}

MCQuickSales == {[services |-> {prints}, total |-> 2, method |-> "YAPE"]}
=============================================================================

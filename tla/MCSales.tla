------------------------------- MODULE MCSales -------------------------------
(***************************************************************************)
(* Small instances of Sales for TLC.                                       *)
(***************************************************************************)
EXTENDS Sales, TLC

LOCAL INSTANCE FiniteSetsExt

CONSTANTS r1, r2, r3, ana, beto, ram, ssd

Units(p, n) == [product |-> p, quantity |-> n]
Pays(cash, yape) ==
    [m \in Method |-> CASE m = "CASH" -> cash [] m = "YAPE" -> yape [] OTHER -> 0]

\* Two orders that take the same products in opposite order, paid in full;
\* an order with a repeated product, paid in part.
BothWays ==
    {[items |-> <<Units(ram, 1), Units(ssd, 1)>>, total |-> 2, pays |-> Pays(2, 0)],
     [items |-> <<Units(ssd, 1), Units(ram, 1)>>, total |-> 2, pays |-> Pays(1, 1)]}
Repeated ==
    {[items |-> <<Units(ram, 1), Units(ram, 1)>>, total |-> 2, pays |-> Pays(1, 0)]}
OneRam ==
    {[items |-> <<Units(ram, 1)>>, total |-> 1, pays |-> Pays(1, 0)]}

MCOrders == BothWays \cup Repeated
MCStock == ram :> 3 @@ ssd :> 1
MCLastRam == ram :> 1
MCTellers == <<ana>>
MCBothTellers == <<ana, beto>>
MCUserOf3 == r1 :> ana @@ r2 :> ana @@ r3 :> beto

Quantity(o, p) ==
    MapThenSumSet(LAMBDA i : o.items[i].quantity,
                  {i \in DOMAIN o.items : o.items[i].product = p})

\* taken by its closed form.
MCTaken ==
    [o \in MCOrders \cup OneRam |-> [i \in 0..Len(o.items) |-> [p \in Product |->
        Quantity([items |-> SubSeq(o.items, 1, i)], p)]]]
=============================================================================

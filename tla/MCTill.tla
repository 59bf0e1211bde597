-------------------------------- MODULE MCTill --------------------------------
(***************************************************************************)
(* Small instances of Till for TLC.                                        *)
(***************************************************************************)
EXTENDS Till, TLC

CONSTANTS r1, r2, ana, beto, ram, ssd

Units(p) == [product |-> p, quantity |-> 1]
Pays == [m \in Method |-> IF m = "MIXED" THEN 0 ELSE 1]

\* One product; two products in either order.
OneRam == {[items |-> <<Units(ram)>>, total |-> 2, pays |-> Pays]}
BothWays ==
    {[items |-> <<Units(ram), Units(ssd)>>, total |-> 2, pays |-> Pays],
     [items |-> <<Units(ssd), Units(ram)>>, total |-> 2, pays |-> Pays]}

\* taken by its closed form.
MCTaken ==
    [o \in OneRam \cup BothWays |-> [i \in 0..Len(o.items) |-> [p \in Product |->
        Cardinality({j \in 1..i : o.items[j].product = p})]]]

MCRam == ram :> 1
MCBoth == ram :> 2 @@ ssd :> 2
MCTellers == <<ana>>
MCOneEach == r1 :> ana @@ r2 :> beto
MCSameUser == r1 :> ana @@ r2 :> ana
=============================================================================

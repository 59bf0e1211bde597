--------------------------- MODULE MCServiceOrders ---------------------------
(***************************************************************************)
(* Small instances of ServiceOrders for TLC.                               *)
(***************************************************************************)
EXTENDS ServiceOrders, TLC

CONSTANTS r1, r2, ana, beto, ram

MCUserOf == r1 :> ana @@ r2 :> beto
MCStock == ram :> 2

\* A part of the catalogue, and one typed in by hand.
MCParts ==
    {[product |-> ram, quantity |-> 1, price |-> 3],
     [product |-> None, quantity |-> 2, price |-> 1]}
=============================================================================

----------------------------- MODULE MCStockroom -----------------------------
(***************************************************************************)
(* Small instances of Stockroom for TLC: the orders and tables of MCSales, *)
(* and the adjustments of one administrator.                               *)
(***************************************************************************)
EXTENDS Inventory, MCSales

OneOfEach == {[type |-> t, quantity |-> 1] : t \in {"IN", "OUT", "ADJUSTMENT"}}
=============================================================================

------------------------------ MODULE MCCounter ------------------------------
(***************************************************************************)
(* Cash and QuickServices together: services are collected and refunded in *)
(* sessions that other requests, of the same user even, open and close;    *)
(* with a small instance for TLC.                                          *)
(***************************************************************************)
EXTENDS Cash, QuickServices, TLC

counterVars == <<deskVars, quickVars>>

CounterInit == CashInit /\ QuickInit

CounterNext ==
    \/ CashNext /\ UNCHANGED quickVars
    \/ QuickNext /\ UNCHANGED draft

CounterSpec == CounterInit /\ [][CounterNext]_counterVars

-----------------------------------------------------------------------------
(* The instance *)

CONSTANTS r1, r2, ana, beto, prints, scans

MCNobody == <<>>
MCSameUser == r1 :> ana @@ r2 :> ana

\* Prints paid in cash, prints and scans paid by phone.
MCQuickSales ==
    {[services |-> {prints}, total |-> 1, method |-> "CASH"],
     [services |-> {prints, scans}, total |-> 2, method |-> "YAPE"]}
=============================================================================

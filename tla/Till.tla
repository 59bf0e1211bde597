--------------------------------- MODULE Till ---------------------------------
(***************************************************************************)
(* Sales and Cash together: the payments of a sale and the refund of a     *)
(* cancellation enter the session the user has open when the statement     *)
(* runs, while other requests open and close sessions.                     *)
(***************************************************************************)
EXTENDS Sales, Cash

tillVars == <<vars, draft>>

TillInit == Init /\ draft = [r \in Request |-> None]

TillNext ==
    \/ Next /\ UNCHANGED draft
    \/ CashNext /\ UNCHANGED <<rowVars, saleVars>>

TillSpec == TillInit /\ [][TillNext]_tillVars

\* The shop while nothing is cancelled.
OpenShopNext ==
    \/ SellNext /\ UNCHANGED draft
    \/ CashNext /\ UNCHANGED <<rowVars, saleVars>>

TillStep(r) ==
    \/ CreateStep(r) /\ UNCHANGED draft
    \/ CashStep(r) /\ UNCHANGED <<rowVars, saleVars>>

\* The code, or the unique index, refuses the request.
Refuse(r) ==
    \/ SaleRefused(r) /\ RollbackSale(r) /\ UNCHANGED draft
    \/ CashRefused(r) /\ RollbackCash(r) /\ UNCHANGED <<rowVars, saleVars>>

\* PostgreSQL runs every statement that waits for nobody, and grants a lock
\* that is released again and again to everyone who waits for it.  Nothing is
\* assumed of timeouts and of the deadlock detector: they may strike, and
\* need not.
OpenShopSpec ==
    /\ TillInit
    /\ [][OpenShopNext]_tillVars
    /\ \A r \in Request : SF_tillVars(TillStep(r)) /\ WF_tillVars(Refuse(r))

-----------------------------------------------------------------------------
(* Properties *)

\* A sale is registered only in a session that is still open ("Debe abrir caja
\* antes de registrar ventas"): the closing totals of no session can miss it.
SalesEnterTheirSession ==
    [][\A n \in SaleNumber :
         n \notin Registered /\ n \in Registered' =>
             session[sale'[n].till].status = "OPEN"]_tillVars

\* While nothing is cancelled every request is answered without the help of a
\* timeout or of the deadlock detector, although orders lock their products in
\* the order the client sent them: the unique code makes a second sale wait
\* before it holds any product row.
AnsweredWithoutTimeout == \A r \in Request : pc[r] # "idle" ~> pc[r] = "idle"
=============================================================================

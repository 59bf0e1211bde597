--------------------------- MODULE OrderLifecycle ---------------------------
(***************************************************************************)
(* What the workshop promises its customers about a service order: it goes *)
(* through the stages in order, may be cancelled until it is ready, and    *)
(* nothing in it changes once it is delivered or cancelled.                *)
(***************************************************************************)
CONSTANTS
    Slip,       \* the numbers an order may have
    Blank       \* the contents of an order not yet received

VARIABLES
    stage,      \* "NONE" until the equipment is received
    contents    \* costs, items and photos

vars == <<stage, contents>>

NextStages(s) ==
    CASE s = "NONE"        -> {"RECEIVED"}
      [] s = "RECEIVED"    -> {"DIAGNOSIS", "CANCELLED"}
      [] s = "DIAGNOSIS"   -> {"IN_PROGRESS", "CANCELLED"}
      [] s = "IN_PROGRESS" -> {"READY", "CANCELLED"}
      [] s = "READY"       -> {"DELIVERED"}
      [] OTHER             -> {}

Init ==
    /\ stage = [n \in Slip |-> "NONE"]
    /\ contents = [n \in Slip |-> Blank]

\* The equipment is received, with its photos.
Receive(n) ==
    /\ stage[n] = "NONE"
    /\ stage' = [stage EXCEPT ![n] = "RECEIVED"]
    /\ \A m \in Slip \ {n} : contents'[m] = contents[m]
    /\ DOMAIN contents' = Slip

Advance(n) ==
    /\ stage[n] # "NONE"
    /\ \E s \in NextStages(stage[n]) : stage' = [stage EXCEPT ![n] = s]
    /\ UNCHANGED contents

Work(n) ==
    /\ stage[n] \notin {"NONE", "DELIVERED", "CANCELLED"}
    /\ \A m \in Slip \ {n} : contents'[m] = contents[m]
    /\ DOMAIN contents' = Slip
    /\ UNCHANGED stage

Next == \E n \in Slip : Receive(n) \/ Advance(n) \/ Work(n)

Spec == Init /\ [][Next]_vars
=============================================================================

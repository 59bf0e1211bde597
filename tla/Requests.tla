------------------------------ MODULE Requests ------------------------------
(***************************************************************************)
(* The HTTP requests the NestJS backend has in flight.  Node interleaves   *)
(* the handlers at every await, and every await of this code is a query    *)
(* to PostgreSQL: a request is a slot that runs one handler, statement by  *)
(* statement, while the other slots run theirs.  A slot is free again when *)
(* its handler has answered, so a slot serves any number of requests.      *)
(***************************************************************************)
CONSTANTS
    Request,    \* slots: the requests that may be in flight together
    User,       \* rows of the User table
    Admin,      \* users whose role is ADMIN
    userOf,     \* the authenticated user behind each slot
    None        \* no request, no session, no user

ASSUME RequestAssumption ==
    /\ Admin \subseteq User
    /\ userOf \in [Request -> User]
    /\ None \notin Request \cup User

VARIABLE pc     \* the statement the handler of each slot executes next

Idle(r) == pc[r] = "idle"

\* The handler of r has executed the statement named `from'.
Step(r, from, to) ==
    /\ pc[r] = from
    /\ pc' = [pc EXCEPT ![r] = to]

\* No user has two requests in flight: what a user interface that waits for
\* each answer guarantees, and the API does not.
OneRequestPerUser ==
    \A r1, r2 \in Request : userOf[r1] = userOf[r2] => r1 = r2
=============================================================================

------------------------------- MODULE Accounts -------------------------------
(***************************************************************************)
(* UsersService: create, update and changeStatus.  Who may call them is    *)
(* read from the User table when the request arrives (JwtStrategy.validate *)
(* and RolesGuard) and not again.  No handler runs in a transaction: each  *)
(* statement commits at once.                                              *)
(***************************************************************************)
EXTENDS Requests

CONSTANTS
    Email,      \* e-mail addresses
    emailOf     \* addresses of the users that exist when the history starts

ASSUME AccountAssumption ==
    /\ None \notin Email
    /\ emailOf \in [User -> Email \cup {None}]
    /\ \A u, v \in User : emailOf[u] = emailOf[v] /\ emailOf[u] # None => u = v
    /\ \E u \in Admin : emailOf[u] # None     \* the seed creates an administrator
    /\ None \notin BOOLEAN

VARIABLES
    account,    \* committed User rows
    editing     \* what the user handler of r will write, or None

accountVars == <<account, editing>>

Existing == {u \in User : account[u].email # None}
ActiveAdmins == {u \in Existing : account[u].active /\ account[u].admin}
Owners(email) == {u \in Existing : account[u].email = email}

\* JwtStrategy.validate, RolesGuard.
MayAdminister(r) == userOf[r] \in ActiveAdmins

\* Fields the request does not state are None.
Edit(u, email, admin, active) ==
    [user |-> u, email |-> email, admin |-> admin, active |-> active]

\* The row after an UPDATE of the fields that e states.
Changed(row, e) ==
    [f \in {"email", "admin", "active"} |-> IF e[f] = None THEN row[f] ELSE e[f]]

-----------------------------------------------------------------------------
(* create *)

\* findByEmail, then the role; bcrypt runs before the insert.
StartCreateUser(r, email, admin) ==
    /\ Step(r, "idle", "insertUser")
    /\ MayAdminister(r)
    /\ Owners(email) = {}
    /\ editing' = [editing EXCEPT ![r] = Edit(None, email, admin, TRUE)]
    /\ UNCHANGED account

\* The unique index on User.email.
InsertUser(r, u) ==
    /\ Step(r, "insertUser", "idle")
    /\ u \notin Existing
    /\ Owners(editing[r].email) = {}
    /\ account' = [account EXCEPT ![u] =
         [email |-> editing[r].email, admin |-> editing[r].admin, active |-> TRUE]]
    /\ editing' = [editing EXCEPT ![r] = None]

-----------------------------------------------------------------------------
(* update, changeStatus *)

\* ensureAdminContinuity returns without counting when the user is no
\* administrator, or remains one: by the role stated, and the isActive read.
StartUpdateUser(r, u, email, admin) ==
    LET leaves == admin # None /\ account[u].admin /\ ~(admin = TRUE /\ account[u].active)
    IN  /\ Step(r, "idle", IF leaves THEN "countAdmins" ELSE "writeUser")
        /\ MayAdminister(r)
        /\ u \in Existing
        /\ Owners(email) \subseteq {u}
        /\ editing' = [editing EXCEPT ![r] = Edit(u, email, admin, None)]
        /\ UNCHANGED account

StartStatus(r, u, active) ==
    /\ Step(r, "idle", IF ~active /\ account[u].admin THEN "countAdmins" ELSE "writeUser")
    /\ MayAdminister(r)
    /\ u \in Existing
    /\ editing' = [editing EXCEPT ![r] = Edit(u, None, None, active)]
    /\ UNCHANGED account

\* Faulty variant: the user who is to change is counted as well.
FaultyCountAdmins(r) ==
    /\ Step(r, "countAdmins", "writeUser")
    /\ ActiveAdmins # {}
    /\ UNCHANGED accountVars

\* "No puedes dejar el sistema sin un administrador activo": the other active
\* administrators are counted.
CountAdmins(r) ==
    /\ Step(r, "countAdmins", "writeUser")
    /\ ActiveAdmins \ {editing[r].user} # {}
    /\ UNCHANGED accountVars

\* One UPDATE of the fields stated, under the unique index.
WriteUser(r) ==
    LET e == editing[r]
    IN  /\ Step(r, "writeUser", "idle")
        /\ Owners(e.email) \subseteq {e.user}
        /\ account' = [account EXCEPT ![e.user] = Changed(@, e)]
        /\ editing' = [editing EXCEPT ![r] = None]

-----------------------------------------------------------------------------
AccountLabel == {"insertUser", "countAdmins", "writeUser"}

\* A throw, a failed statement or a crash: nothing was written yet.
AbortAccount(r) ==
    /\ pc[r] \in AccountLabel
    /\ pc' = [pc EXCEPT ![r] = "idle"]
    /\ editing' = [editing EXCEPT ![r] = None]
    /\ UNCHANGED account

StartAccount(r) ==
    \/ \E e \in Email, admin \in BOOLEAN : StartCreateUser(r, e, admin)
    \/ \E u \in User :
         \/ \E e \in Email \cup {None}, admin \in BOOLEAN \cup {None} :
              StartUpdateUser(r, u, e, admin)
         \/ \E active \in BOOLEAN : StartStatus(r, u, active)

AccountStep(r) ==
    \/ \E u \in User : InsertUser(r, u)
    \/ CountAdmins(r) \/ WriteUser(r) \/ AbortAccount(r)

AccountsInit ==
    /\ account = [u \in User |-> [email |-> emailOf[u], admin |-> u \in Admin,
                                  active |-> emailOf[u] # None]]
    /\ editing = [r \in Request |-> None]

-----------------------------------------------------------------------------
(* Properties *)

\* "No puedes dejar el sistema sin un administrador activo": true while one
\* request at a time changes users; the count and the update are separate
\* statements.
AdminRemains == ActiveAdmins # {}
=============================================================================

------------------------------ MODULE Customers ------------------------------
(***************************************************************************)
(* CustomersService: create, update, setStatus and deactivate.  update     *)
(* merges what it is given with the row it read and writes the whole row.  *)
(***************************************************************************)
EXTENDS Requests

CONSTANTS
    Customer,   \* ids of Customer rows
    Document,   \* values of (documentType, documentNumber)
    Phone       \* stands for every field without a constraint

ASSUME CustomerAssumption == None \notin Document \cup Phone

VARIABLES
    customer,   \* committed Customer rows
    filing      \* the customer handler of r: the row it works on and what it writes

customerVars == <<customer, filing>>

NoCustomer == [document |-> None, phone |-> None, active |-> FALSE]

Filed == {c \in Customer : customer[c].document # None}
Holders(document) == {c \in Filed : customer[c].document = document}

Given(value, current) == IF value = None THEN current ELSE value

\* normalizePayload of { ...current, ...dto }: what the request leaves out is
\* taken from the row as read.
Merge(row, document, phone, active) ==
    [document |-> Given(document, row.document),
     phone    |-> Given(phone, row.phone),
     active   |-> Given(active, row.active)]

Filing(c, row, active) == [id |-> c, row |-> row, states |-> active # None]

\* ensureUniqueDocument.  A customer is created active unless the request says
\* otherwise.
StartCreateCustomer(r, document, phone, active) ==
    /\ Step(r, "idle", "insertCustomer")
    /\ Holders(document) = {}
    /\ filing' = [filing EXCEPT ![r] = Filing(None, Merge(NoCustomer, document, phone, active), active)]
    /\ UNCHANGED customer

\* The unique index on (documentType, documentNumber).
InsertCustomer(r, c) ==
    /\ Step(r, "insertCustomer", "idle")
    /\ c \notin Filed
    /\ Holders(filing[r].row.document) = {}
    /\ customer' = [customer EXCEPT ![c] = filing[r].row]
    /\ filing' = [filing EXCEPT ![r] = None]

\* Faulty variant: isActive is not taken from the row, and defaults to true.
FaultyStartUpdateCustomer(r, c, document, phone, active) ==
    /\ Step(r, "idle", "writeCustomer")
    /\ c \in Filed
    /\ Holders(document) \subseteq {c}
    /\ filing' = [filing EXCEPT ![r] =
         Filing(c, Merge([customer[c] EXCEPT !.active = TRUE], document, phone, active), active)]
    /\ UNCHANGED customer

\* The document is looked up when it changes.
StartUpdateCustomer(r, c, document, phone, active) ==
    /\ Step(r, "idle", "writeCustomer")
    /\ c \in Filed
    /\ Holders(document) \subseteq {c}
    /\ filing' = [filing EXCEPT ![r] =
         Filing(c, Merge(customer[c], document, phone, active), active)]
    /\ UNCHANGED customer

\* One UPDATE of every field, as merged with the row read.
WriteCustomer(r) ==
    LET f == filing[r]
    IN  /\ Step(r, "writeCustomer", "idle")
        /\ Holders(f.row.document) \subseteq {f.id}
        /\ customer' = [customer EXCEPT ![f.id] = f.row]
        /\ filing' = [filing EXCEPT ![r] = None]

\* setStatus and deactivate: the row is read, then isActive alone is written.
StartCustomerStatus(r, c, active) ==
    /\ Step(r, "idle", "writeCustomerStatus")
    /\ c \in Filed
    /\ filing' = [filing EXCEPT ![r] = Filing(c, Merge(customer[c], None, None, active), active)]
    /\ UNCHANGED customer

WriteCustomerStatus(r) ==
    /\ Step(r, "writeCustomerStatus", "idle")
    /\ customer' = [customer EXCEPT ![filing[r].id].active = filing[r].row.active]
    /\ filing' = [filing EXCEPT ![r] = None]

CustomerLabel == {"insertCustomer", "writeCustomer", "writeCustomerStatus"}

AbortCustomer(r) ==
    /\ pc[r] \in CustomerLabel
    /\ pc' = [pc EXCEPT ![r] = "idle"]
    /\ filing' = [filing EXCEPT ![r] = None]
    /\ UNCHANGED customer

StartCustomer(r) ==
    \/ \E d \in Document, p \in Phone, active \in BOOLEAN : StartCreateCustomer(r, d, p, active)
    \/ \E c \in Customer :
         \/ \E d \in Document \cup {None}, p \in Phone \cup {None}, active \in BOOLEAN \cup {None} :
              StartUpdateCustomer(r, c, d, p, active)
         \/ \E active \in BOOLEAN : StartCustomerStatus(r, c, active)

CustomerStep(r) ==
    \/ \E c \in Customer : InsertCustomer(r, c)
    \/ WriteCustomer(r) \/ WriteCustomerStatus(r) \/ AbortCustomer(r)

CustomersInit ==
    /\ customer = [c \in Customer |-> NoCustomer]
    /\ filing = [r \in Request |-> None]

-----------------------------------------------------------------------------
(* Properties *)

\* An edit that says nothing about it never brings a deactivated customer back,
\* nor the reverse: true while one request at a time changes customers, since
\* the edit writes back the isActive it read.
EditsKeepStatus ==
    \A r \in Request : pc[r] = "writeCustomer" /\ pc'[r] = "idle" /\ ~filing[r].states =>
      \A c \in Filed : customer'[c].active = customer[c].active
=============================================================================

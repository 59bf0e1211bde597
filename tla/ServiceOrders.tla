---------------------------- MODULE ServiceOrders ----------------------------
(***************************************************************************)
(* ServiceOrdersService: create, update, changeStatus, deliver, cancel,    *)
(* addItem, removeItem, addPhotos and deletePhoto.  Every handler first    *)
(* reads the order outside any transaction (ensureEditable) and writes     *)
(* what it computed from that read.                                        *)
(***************************************************************************)
EXTENDS ProductRows, FiniteSets, Sequences, Functions

CONSTANTS
    Part,           \* AddServiceOrderItemDto values: [product, quantity, price]
    Cost,           \* labour costs and discounts an administrator may set
    Photos,         \* numbers of photos a request may bring
    MaxOrders,      \* bound: service orders ever received
    MaxItems        \* bound: items an order has when one more is added

\* An item may be a part of the catalogue or something typed in by hand.
ASSUME ServiceOrderAssumption ==
    /\ Part \subseteq [product: Product \cup {None}, quantity: Nat \ {0}, price: Nat]
    /\ None \notin Product
    /\ Cost \subseteq Nat /\ None \notin Nat
    /\ Photos \subseteq 1..6
    /\ MaxOrders \in Nat /\ MaxItems \in Nat

VARIABLES
    workOrder,      \* committed ServiceOrder rows by the number in OT-000001...
    repairing       \* the local variables of the handler of r, or None

workVars == <<workOrder, repairing>>

WorkNumber == 1..MaxOrders

PhotoLimit == 6

NoContents ==
    [labor |-> 0, parts |-> 0, discount |-> 0, total |-> 0, items |-> <<>>, photos |-> 0]

NoWorkOrder == [status |-> "NONE", delivered |-> FALSE, contents |-> NoContents]

Subtotal(part) == part.quantity * part.price

CalculateTotal(labor, parts, discount) ==
    IF labor + parts > discount THEN labor + parts - discount ELSE 0

WorkStatus == {"RECEIVED", "DIAGNOSIS", "IN_PROGRESS", "READY", "DELIVERED", "CANCELLED"}

AllowedTransitions(status) ==
    CASE status = "RECEIVED"    -> {"DIAGNOSIS", "CANCELLED"}
      [] status = "DIAGNOSIS"   -> {"IN_PROGRESS", "CANCELLED"}
      [] status = "IN_PROGRESS" -> {"READY", "CANCELLED"}
      [] status = "READY"       -> {"DELIVERED"}
      [] OTHER                  -> {}

WorkReceived == {n \in WorkNumber : workOrder[n].status # "NONE"}

\* ensureEditable.
Editable(n) == workOrder[n].status \notin {"NONE", "DELIVERED", "CANCELLED"}

\* The handler of r works on order n with the costs it read and the data `what'
\* of its request.
Begin(r, n, what) ==
    LET c == workOrder[n].contents
    IN  repairing' = [repairing EXCEPT ![r] =
          [number |-> n, what |-> what, seen |-> 0,
           labor |-> c.labor, parts |-> c.parts, discount |-> c.discount]]

Finish(r) == repairing' = [repairing EXCEPT ![r] = None]

\* Transactions that hold the row of order n.
HoldsWorkOrder(q, n) ==
    pc[q] \in {"commitStage", "commitPart"} /\ repairing[q].number = n

FreeWorkOrder(n) == \A q \in Request : ~HoldsWorkOrder(q, n)

-----------------------------------------------------------------------------
(* create *)

\* The customer is read and generateCode counts the orders.
StartWorkOrder(r, photos) ==
    /\ Step(r, "idle", "insertWorkOrder")
    /\ Cardinality(WorkReceived) < MaxOrders
    /\ repairing' = [repairing EXCEPT ![r] =
         [number |-> Cardinality(WorkReceived) + 1, what |-> photos, seen |-> 0,
          labor |-> 0, parts |-> 0, discount |-> 0]]
    /\ UNCHANGED <<rowVars, workOrder>>

\* The unique index on ServiceOrder.code.
InsertWorkOrder(r) ==
    /\ Step(r, "insertWorkOrder", "commitWorkOrder")
    /\ repairing[r].number \notin WorkReceived
    /\ \A q \in Request :
         pc[q] = "commitWorkOrder" => repairing[q].number # repairing[r].number
    /\ UNCHANGED <<rowVars, workVars>>

CommitWorkOrder(r) ==
    /\ Step(r, "commitWorkOrder", "idle")
    /\ workOrder' = [workOrder EXCEPT ![repairing[r].number] =
         [status |-> "RECEIVED", delivered |-> FALSE,
          contents |-> [NoContents EXCEPT !.photos = repairing[r].what]]]
    /\ Finish(r)
    /\ UNCHANGED rowVars

-----------------------------------------------------------------------------
(* update *)

\* Only an administrator may state labour or discount; None is a field the
\* request leaves out.
StartUpdateOrder(r, n, labor, discount) ==
    /\ Step(r, "idle", "writeOrder")
    /\ Editable(n)
    /\ labor # None \/ discount # None => userOf[r] \in Admin
    /\ Begin(r, n, [labor |-> labor, discount |-> discount])
    /\ UNCHANGED <<rowVars, workOrder>>

Stated(value, default) == IF value = None THEN default ELSE value

\* One UPDATE: the fields stated, and a total computed from the costs read.
WriteOrder(r) ==
    LET b == repairing[r]
        c == workOrder[b.number].contents
        labor == Stated(b.what.labor, b.labor)
        discount == Stated(b.what.discount, b.discount)
    IN  /\ Step(r, "writeOrder", "idle")
        /\ FreeWorkOrder(b.number)
        /\ workOrder' = [workOrder EXCEPT ![b.number].contents =
             [c EXCEPT !.labor = Stated(b.what.labor, c.labor),
                       !.discount = Stated(b.what.discount, c.discount),
                       !.total = CalculateTotal(labor, b.parts, discount)]]
        /\ Finish(r)
        /\ UNCHANGED rowVars

-----------------------------------------------------------------------------
(* changeStatus, deliver, cancel *)

\* Faulty variant: ensureEditable alone decides.
FaultyStartStage(r, n, status, deliver) ==
    /\ Step(r, "idle", "writeStage")
    /\ Editable(n)
    /\ deliver => status = "DELIVERED"
    /\ Begin(r, n, [status |-> status, deliver |-> deliver])
    /\ UNCHANGED <<rowVars, workOrder>>

\* The transition is checked on the status just read.  deliver and cancel call
\* this handler; PATCH status reaches every status it reaches, for every role.
StartStage(r, n, status, deliver) ==
    /\ Step(r, "idle", "writeStage")
    /\ Editable(n)
    /\ status \in AllowedTransitions(workOrder[n].status)
    /\ deliver => status = "DELIVERED"
    /\ Begin(r, n, [status |-> status, deliver |-> deliver])
    /\ UNCHANGED <<rowVars, workOrder>>

\* The update names the id only.
WriteStage(r) ==
    /\ Step(r, "writeStage", "commitStage")
    /\ FreeWorkOrder(repairing[r].number)
    /\ UNCHANGED <<rowVars, workVars>>

CommitStage(r) ==
    LET b == repairing[r]
    IN  /\ pc[r] = "commitStage"
        /\ workOrder' = [workOrder EXCEPT ![b.number].status = b.what.status]
        /\ \/ /\ b.what.deliver
              /\ Step(r, "commitStage", "writeDelivered")
              /\ UNCHANGED repairing
           \/ /\ ~b.what.deliver
              /\ Step(r, "commitStage", "idle")
              /\ Finish(r)
        /\ UNCHANGED rowVars

\* deliver writes deliveredAt in a statement of its own, after the commit.
WriteDelivered(r) ==
    /\ Step(r, "writeDelivered", "idle")
    /\ FreeWorkOrder(repairing[r].number)
    /\ workOrder' = [workOrder EXCEPT ![repairing[r].number].delivered = TRUE]
    /\ Finish(r)
    /\ UNCHANGED rowVars

-----------------------------------------------------------------------------
(* addItem *)

StartPart(r, n, part) ==
    /\ Step(r, "idle", IF part.product = None THEN "writePart" ELSE "readPart")
    /\ Editable(n)
    /\ Len(workOrder[n].contents.items) < MaxItems
    /\ Begin(r, n, part)
    /\ UNCHANGED <<rowVars, workOrder>>

ReadPart(r) ==
    LET part == repairing[r].what
    IN  /\ Step(r, "readPart", "storePart")
        /\ active[part.product]
        /\ Visible(r, part.product) >= part.quantity
        /\ repairing' = [repairing EXCEPT ![r].seen = Visible(r, part.product)]
        /\ UNCHANGED <<rowVars, workOrder>>

\* The stock is overwritten with the value read minus the quantity.
StorePart(r) ==
    LET b == repairing[r]
    IN  /\ Step(r, "storePart", "writePart")
        /\ WriteStock(r, b.what.product, b.seen - b.what.quantity, -b.what.quantity)
        /\ UNCHANGED workVars

WritePart(r) ==
    /\ Step(r, "writePart", "commitPart")
    /\ FreeWorkOrder(repairing[r].number)
    /\ UNCHANGED <<rowVars, workVars>>

\* Faulty variant: the total is that of the parts before this one.
FaultyCommitPart(r) ==
    LET b == repairing[r]
        c == workOrder[b.number].contents
    IN  /\ Step(r, "commitPart", "idle")
        /\ workOrder' = [workOrder EXCEPT ![b.number].contents =
             [c EXCEPT !.items = Append(c.items, [part |-> b.what, kept |-> TRUE]),
                       !.parts = b.parts]]
        /\ CommitRows(r)
        /\ Finish(r)

\* The item, and costs computed from the order as first read.
CommitPart(r) ==
    LET b == repairing[r]
        c == workOrder[b.number].contents
        parts == b.parts + Subtotal(b.what)
    IN  /\ Step(r, "commitPart", "idle")
        /\ workOrder' = [workOrder EXCEPT ![b.number].contents =
             [c EXCEPT !.items = Append(c.items, [part |-> b.what, kept |-> TRUE]),
                       !.parts = parts,
                       !.total = CalculateTotal(b.labor, parts, b.discount)]]
        /\ CommitRows(r)
        /\ Finish(r)

-----------------------------------------------------------------------------
(* removeItem: four statements, each committed at once; the part is gone *)

StartRemoveItem(r, n, i) ==
    /\ Step(r, "idle", "deleteItem")
    /\ Editable(n)
    /\ workOrder[n].contents.items[i].kept
    /\ Begin(r, n, i)
    /\ UNCHANGED <<rowVars, workOrder>>

\* Deleting a row that is gone throws.
DeleteItem(r) ==
    LET b == repairing[r]
    IN  /\ Step(r, "deleteItem", "writeRemoved")
        /\ workOrder[b.number].contents.items[b.what].kept
        /\ workOrder' = [workOrder EXCEPT ![b.number].contents.items[b.what].kept = FALSE]
        /\ UNCHANGED <<rowVars, repairing>>

WriteRemoved(r) ==
    LET b == repairing[r]
        c == workOrder[b.number].contents
        subtotal == Subtotal(c.items[b.what].part)
        parts == IF b.parts > subtotal THEN b.parts - subtotal ELSE 0
    IN  /\ Step(r, "writeRemoved", "idle")
        /\ FreeWorkOrder(b.number)
        /\ workOrder' = [workOrder EXCEPT ![b.number].contents =
             [c EXCEPT !.parts = parts,
                       !.total = CalculateTotal(b.labor, parts, b.discount)]]
        /\ Finish(r)
        /\ UNCHANGED rowVars

-----------------------------------------------------------------------------
(* addPhotos, deletePhoto *)

StartPhotos(r, n, photos) ==
    /\ Step(r, "idle", "countPhotos")
    /\ Editable(n)
    /\ Begin(r, n, photos)
    /\ UNCHANGED <<rowVars, workOrder>>

\* "La orden solo puede tener hasta 6 fotos de evidencia."
CountPhotos(r) ==
    /\ Step(r, "countPhotos", "commitPhotos")
    /\ workOrder[repairing[r].number].contents.photos + repairing[r].what <= PhotoLimit
    /\ UNCHANGED <<rowVars, workVars>>

CommitPhotos(r) ==
    LET b == repairing[r]
    IN  /\ Step(r, "commitPhotos", "idle")
        /\ workOrder' = [workOrder EXCEPT ![b.number].contents.photos = @ + b.what]
        /\ Finish(r)
        /\ UNCHANGED rowVars

StartDeletePhoto(r, n) ==
    /\ Step(r, "idle", "deletePhoto")
    /\ Editable(n)
    /\ workOrder[n].contents.photos > 0
    /\ Begin(r, n, 1)
    /\ UNCHANGED <<rowVars, workOrder>>

DeletePhoto(r) ==
    LET b == repairing[r]
    IN  /\ Step(r, "deletePhoto", "idle")
        /\ workOrder[b.number].contents.photos > 0
        /\ workOrder' = [workOrder EXCEPT ![b.number].contents.photos = @ - 1]
        /\ Finish(r)
        /\ UNCHANGED rowVars

-----------------------------------------------------------------------------
WorkLabel ==
    {"insertWorkOrder", "commitWorkOrder", "writeOrder", "writeStage", "commitStage",
     "writeDelivered", "readPart", "storePart", "writePart", "commitPart",
     "deleteItem", "writeRemoved", "countPhotos", "commitPhotos", "deletePhoto"}

\* A throw, a failed statement, a timeout or a crash of the server: what the
\* handler has committed stays, the rest never happens.
RollbackWork(r) ==
    /\ pc[r] \in WorkLabel
    /\ pc' = [pc EXCEPT ![r] = "idle"]
    /\ RollbackRows(r)
    /\ Finish(r)
    /\ UNCHANGED workOrder

WorkStep(r) ==
    \/ InsertWorkOrder(r) \/ CommitWorkOrder(r) \/ WriteOrder(r)
    \/ WriteStage(r) \/ CommitStage(r) \/ WriteDelivered(r)
    \/ ReadPart(r) \/ StorePart(r) \/ WritePart(r) \/ CommitPart(r)
    \/ DeleteItem(r) \/ WriteRemoved(r)
    \/ CountPhotos(r) \/ CommitPhotos(r) \/ DeletePhoto(r)

\* A request about order n.
StartWork(r, n) ==
    \/ \E labor, discount \in Cost \cup {None} : StartUpdateOrder(r, n, labor, discount)
    \/ \E status \in WorkStatus, deliver \in BOOLEAN : StartStage(r, n, status, deliver)
    \/ \E part \in Part : StartPart(r, n, part)
    \/ \E i \in DOMAIN workOrder[n].contents.items : StartRemoveItem(r, n, i)
    \/ \E photos \in Photos : StartPhotos(r, n, photos)
    \/ StartDeletePhoto(r, n)

WorkNext ==
    \E r \in Request :
        \/ \E photos \in Photos \cup {0} : StartWorkOrder(r, photos)
        \/ \E n \in WorkReceived : StartWork(r, n)
        \/ WorkStep(r)
        \/ RollbackWork(r)

\* Nobody else is at work on the order: one technician per order, who waits
\* for each answer.  The API does not enforce it.
Attended(n) == \E q \in Request : pc[q] # "idle" /\ repairing[q].number = n

OneTechnicianNext ==
    \E r \in Request :
        \/ \E photos \in Photos \cup {0} : StartWorkOrder(r, photos)
        \/ \E n \in WorkReceived : ~Attended(n) /\ StartWork(r, n)
        \/ WorkStep(r)
        \/ RollbackWork(r)

WorkInit ==
    /\ workOrder = [n \in WorkNumber |-> NoWorkOrder]
    /\ repairing = [r \in Request |-> None]

benchVars == <<pc, rowVars, workVars>>

BenchInit ==
    /\ pc = [r \in Request |-> "idle"]
    /\ RowsInit
    /\ WorkInit

BenchSpec == BenchInit /\ [][OneTechnicianNext]_benchVars

-----------------------------------------------------------------------------
(* Properties *)

\* With one technician per order, orders go through their stages in order and
\* a delivered or cancelled order never changes ("No se puede modificar una
\* orden finalizada"), whatever fails half way.
Lifecycle == INSTANCE OrderLifecycle
               WITH Slip <- WorkNumber, Blank <- NoContents,
                    stage <- [n \in WorkNumber |-> workOrder[n].status],
                    contents <- [n \in WorkNumber |-> workOrder[n].contents]

OrdersFollowLifecycle == Lifecycle!Spec

\* The total is what labour, parts and discount give.
TotalFollowsCosts ==
    \A n \in WorkReceived :
        LET c == workOrder[n].contents
        IN  c.total = CalculateTotal(c.labor, c.parts, c.discount)

\* What the items still on an order cost.
PartsCost(items) ==
    SumFunctionOnSet([i \in DOMAIN items |-> Subtotal(items[i].part)],
                     {i \in DOMAIN items : items[i].kept})

\* No part that is on an order is missing from its partsCost.
PartsAreCharged ==
    \A n \in WorkReceived :
        workOrder[n].contents.parts >= PartsCost(workOrder[n].contents.items)

\* Whatever fails half way, no part that is on the order is missing from its
\* partsCost, and the total is what labour, parts and discount give: a removal
\* interrupted after the item was deleted charges too much, nothing charges too
\* little.
ChargesAddUp == PartsAreCharged /\ TotalFollowsCosts
=============================================================================

------------------------------- MODULE Suppliers -------------------------------
(***************************************************************************)
(* SuppliersService: suppliers and the catalogue of what each one offers.  *)
(* An update that states a catalogue deletes the old rows and inserts the  *)
(* new ones in one transaction; a catalogue row alone is looked up first   *)
(* and written by a statement of its own.                                  *)
(***************************************************************************)
EXTENDS Requests, Functions

CONSTANTS
    Supplier,   \* ids of Supplier rows
    Ruc,        \* tax numbers
    Item,       \* ids of SupplierProduct rows; none is used twice
    Offer,      \* what an item offers: a product of the inventory or a free name
    Stocked,    \* the offers that are products of the inventory
    Stated,     \* the catalogues a request may state: offers, active or not
    ItemAtStart \* the first items: <<supplier, offer>> by id

ASSUME SupplierAssumption ==
    /\ Stocked \subseteq Offer
    /\ \A c \in Stated : DOMAIN c \subseteq Offer /\ \A o \in DOMAIN c : c[o] \in BOOLEAN
    /\ DOMAIN ItemAtStart \subseteq Item
    /\ \A i \in DOMAIN ItemAtStart : ItemAtStart[i] \in Supplier \X Offer
    /\ None \notin Supplier \cup Ruc \cup Offer

VARIABLES
    supplier,   \* committed Supplier rows
    item,       \* committed SupplierProduct rows
    supplying   \* the supplier handler of r: its arguments and the rows it deletes

supplierVars == <<supplier, item, supplying>>

ItemRow(row, s, o, active) == [row |-> row, of |-> s, offer |-> o, active |-> active]
Entry(s, o, active) == ItemRow("stored", s, o, active)
NoItem == ItemRow("unused", None, None, FALSE)
DeletedItem == ItemRow("deleted", None, None, FALSE)

Known == {s \in Supplier : supplier[s].known}
Unused == {i \in Item : item[i].row = "unused"}
Catalogue(s) == {i \in Item : item[i].row = "stored" /\ item[i].of = s}
Entries(s, o) == {i \in Catalogue(s) : item[i].offer = o}

\* The arguments of a handler; seen are the rows that deleteMany found.
Arguments(s, ruc, offers, i, o, active) ==
    [id |-> s, ruc |-> ruc, offers |-> offers, seen |-> {}, item |-> i, offer |-> o,
     active |-> active]

Begin(r, arguments) == supplying' = [supplying EXCEPT ![r] = arguments]
End(r) == supplying' = [supplying EXCEPT ![r] = None]

\* Rows locked by a transaction that has not committed.
LocksItem(q, i) == pc[q] \in {"updateSupplier", "commitSupplier"} /\ i \in supplying[q].seen
LocksSupplier(q, s) == pc[q] = "commitSupplier" /\ supplying[q].id = s

\* The unique index on Supplier.ruc, with the rows of other transactions.
RucIsFree(r, ruc) ==
    ruc # None =>
      /\ \A s \in Known \ {supplying[r].id} : supplier[s].ruc # ruc
      /\ \A q \in Request \ {r} : pc[q] = "commitSupplier" => supplying[q].ruc # ruc

\* The unique index on (supplierId, productId), which free names escape.
Insertable(o, rows) == o \in Stocked => \A i \in rows : item[i].offer # o

-----------------------------------------------------------------------------
(* create: the supplier and its catalogue in one nested insertion *)

StartCreateSupplier(r, ruc, offers) ==
    /\ Step(r, "idle", "insertSupplier")
    /\ ruc = None \/ \A s \in Known : supplier[s].ruc # ruc
    /\ Begin(r, Arguments(None, ruc, offers, None, None, TRUE))
    /\ UNCHANGED <<supplier, item>>

\* item, once the rows of `seen' are deleted and the offers of s inserted: f is
\* the offer of each row that is used for it.
Replace(s, seen, offers) ==
    \E rows \in SUBSET Unused : \E f \in Bijection(rows, DOMAIN offers) :
      item' = [i \in Item |-> CASE i \in rows -> Entry(s, f[i], offers[f[i]])
                              [] i \in seen \ rows -> DeletedItem
                              [] OTHER -> item[i]]

InsertSupplier(r, s) ==
    LET c == supplying[r]
    IN  /\ Step(r, "insertSupplier", "idle")
        /\ s \notin Known /\ RucIsFree(r, c.ruc)
        /\ supplier' = [supplier EXCEPT ![s] = [known |-> TRUE, ruc |-> c.ruc, active |-> TRUE]]
        /\ Replace(s, {}, c.offers)
        /\ End(r)

-----------------------------------------------------------------------------
(* update; a request that states no catalogue changes no item *)

StartUpdateSupplier(r, s, ruc, offers) ==
    /\ Step(r, "idle", IF offers = None THEN "updateSupplier" ELSE "findCatalogue")
    /\ s \in Known
    /\ ruc \in {None, supplier[s].ruc} \/ \A t \in Known : supplier[t].ruc # ruc
    /\ Begin(r, Arguments(s, ruc, offers, None, None, TRUE))
    /\ UNCHANGED <<supplier, item>>

\* deleteMany finds its rows when it begins, and waits for those another
\* transaction has deleted.
FindCatalogue(r) ==
    /\ Step(r, "findCatalogue", "deleteCatalogue")
    /\ supplying' = [supplying EXCEPT ![r].seen = Catalogue(supplying[r].id)]
    /\ UNCHANGED <<supplier, item>>

DeleteCatalogue(r) ==
    /\ Step(r, "deleteCatalogue", "updateSupplier")
    /\ \A q \in Request, i \in supplying[r].seen : ~LocksItem(q, i)
    /\ UNCHANGED supplierVars

UpdateSupplier(r) ==
    LET c == supplying[r]
    IN  /\ Step(r, "updateSupplier", "commitSupplier")
        /\ \A q \in Request : ~LocksSupplier(q, c.id)
        /\ RucIsFree(r, c.ruc)
        /\ UNCHANGED supplierVars

\* The new rows and the COMMIT.
CommitSupplier(r) ==
    LET c == supplying[r]
    IN  /\ Step(r, "commitSupplier", "idle")
        /\ supplier' = [supplier EXCEPT ![c.id].ruc = IF c.ruc = None THEN @ ELSE c.ruc]
        /\ \/ c.offers = None /\ UNCHANGED item
           \/ /\ c.offers # None
              /\ \A o \in DOMAIN c.offers : Insertable(o, Catalogue(c.id) \ c.seen)
              /\ Replace(c.id, c.seen, c.offers)
        /\ End(r)

-----------------------------------------------------------------------------
(* addProduct, updateProduct, deactivateProduct, deactivate *)

\* ensureCatalogItemIsUnique.
StartAddItem(r, s, o) ==
    /\ Step(r, "idle", "insertItem")
    /\ s \in Known /\ Entries(s, o) = {}
    /\ Begin(r, Arguments(s, None, None, None, o, TRUE))
    /\ UNCHANGED <<supplier, item>>

InsertItem(r, i) ==
    LET c == supplying[r]
    IN  /\ Step(r, "insertItem", "idle")
        /\ i \in Unused
        /\ Insertable(c.offer, Catalogue(c.id))
        /\ item' = [item EXCEPT ![i] = Entry(c.id, c.offer, TRUE)]
        /\ End(r)
        /\ UNCHANGED supplier

\* Faulty variant: the row itself is not left out, nor any other looked for.
FaultyStartUpdateItem(r, s, i, o, active) ==
    /\ Step(r, "idle", "writeItem")
    /\ s \in Known /\ item[i].row # "unused"
    /\ Begin(r, Arguments(s, None, None, i, o, active))
    /\ UNCHANGED <<supplier, item>>

\* isActive is TRUE when the request does not state it.
StartUpdateItem(r, s, i, o, active) ==
    /\ Step(r, "idle", "writeItem")
    /\ s \in Known /\ item[i].row # "unused"
    /\ Entries(s, o) \subseteq {i}
    /\ Begin(r, Arguments(s, None, None, i, o, active))
    /\ UNCHANGED <<supplier, item>>

\* deactivateProduct keeps the offer.
StartDeactivateItem(r, s, i) ==
    /\ Step(r, "idle", "writeItem")
    /\ s \in Known /\ item[i].row # "unused"
    /\ Begin(r, Arguments(s, None, None, i, None, FALSE))
    /\ UNCHANGED <<supplier, item>>

\* updateMany of the id and the supplier: a row that was replaced meanwhile, or
\* that is another supplier's, is not found, and the answer is the same.
WriteItem(r) ==
    LET c == supplying[r]
        offer == IF c.offer = None THEN item[c.item].offer ELSE c.offer
    IN  /\ Step(r, "writeItem", "idle")
        /\ \A q \in Request : ~LocksItem(q, c.item)
        /\ \/ /\ c.item \in Catalogue(c.id)
              /\ Insertable(offer, Catalogue(c.id) \ {c.item})
              /\ item' = [item EXCEPT ![c.item] = Entry(c.id, offer, c.active)]
           \/ /\ c.item \notin Catalogue(c.id)
              /\ UNCHANGED item
        /\ End(r)
        /\ UNCHANGED supplier

\* No operation makes a supplier active again.
StartDeactivateSupplier(r, s) ==
    /\ Step(r, "idle", "deactivateSupplier")
    /\ s \in Known
    /\ Begin(r, Arguments(s, None, None, None, None, FALSE))
    /\ UNCHANGED <<supplier, item>>

DeactivateSupplier(r) ==
    LET s == supplying[r].id
    IN  /\ Step(r, "deactivateSupplier", "idle")
        /\ \A q \in Request : ~LocksSupplier(q, s)
        /\ supplier' = [supplier EXCEPT ![s].active = FALSE]
        /\ End(r)
        /\ UNCHANGED item

-----------------------------------------------------------------------------
SupplierLabel ==
    {"insertSupplier", "findCatalogue", "deleteCatalogue", "updateSupplier", "commitSupplier",
     "insertItem", "writeItem", "deactivateSupplier"}

AbortSupplier(r) ==
    /\ pc[r] \in SupplierLabel
    /\ pc' = [pc EXCEPT ![r] = "idle"]
    /\ End(r)
    /\ UNCHANGED <<supplier, item>>

StartSupplier(r) ==
    \/ \E ruc \in Ruc \cup {None}, offers \in Stated : StartCreateSupplier(r, ruc, offers)
    \/ \E s \in Supplier :
         \/ \E ruc \in Ruc \cup {None}, offers \in Stated \cup {None} :
              StartUpdateSupplier(r, s, ruc, offers)
         \/ \E o \in Offer : StartAddItem(r, s, o)
         \/ \E i \in Item : \/ StartDeactivateItem(r, s, i)
                            \/ \E o \in Offer, active \in BOOLEAN : StartUpdateItem(r, s, i, o, active)
         \/ StartDeactivateSupplier(r, s)

SupplierStep(r) ==
    \/ \E s \in Supplier : InsertSupplier(r, s)
    \/ FindCatalogue(r) \/ DeleteCatalogue(r) \/ UpdateSupplier(r) \/ CommitSupplier(r)
    \/ \E i \in Item : InsertItem(r, i)
    \/ WriteItem(r) \/ DeactivateSupplier(r) \/ AbortSupplier(r)

SuppliersInit ==
    /\ item = [i \in Item |-> IF i \in DOMAIN ItemAtStart
                              THEN Entry(ItemAtStart[i][1], ItemAtStart[i][2], TRUE) ELSE NoItem]
    /\ supplier = [s \in Supplier |->
         LET known == \E i \in DOMAIN ItemAtStart : ItemAtStart[i][1] = s
         IN  [known |-> known, ruc |-> None, active |-> known]]
    /\ supplying = [r \in Request |-> None]
=============================================================================

------------------------------ MODULE PurchaseForm ------------------------------
(***************************************************************************)
(* PurchaseOrderForm, and the checks of PurchasesService.create against    *)
(* the catalogue of the supplier.  The form asks for a catalogue whenever  *)
(* another supplier is chosen and shows each answer as it comes: the       *)
(* answers may come in another order than they were asked for, and         *)
(* catalogues and products change while the form is open.                  *)
(***************************************************************************)
EXTENDS Suppliers, SequencesExt

CONSTANTS
    Load,       \* the requests for a catalogue that one form may have in flight
    MaxCalls    \* bound: requests of one history

ASSUME FormAssumption == MaxCalls \in Nat

VARIABLES
    form,       \* the state hooks of the open form
    load,       \* the supplier each request asked for and the answer, or None
    placing,    \* the order that the create handler of r checks, or None
    placed,     \* the orders registered
    available,  \* the products that are active
    patient,    \* the clients wait for every answer before they ask again
    calls       \* requests made so far

formVars == <<form, load, placing, placed>>
buyingVars == <<pc, supplierVars, formVars, available, patient, calls>>

NewForm == [supplier |-> None, catalogue |-> {}, items |-> <<>>, loading |-> FALSE,
            saving |-> None]
NoLoads == [l \in Load |-> None]

\* findProducts: what the supplier offers from the inventory now.
OfferedNow(s) ==
    {p \in Stocked : p \in available /\ \E i \in Entries(s, p) : item[i].active}

-----------------------------------------------------------------------------
(* The form *)

\* handleSupplierChange: the draft is emptied, and nothing cancels the loads
\* of the suppliers chosen before.
ChooseSupplier(s, l) ==
    /\ load[l] = None
    /\ s \in Known
    /\ form' = [form EXCEPT !.supplier = s, !.catalogue = {}, !.items = <<>>, !.loading = TRUE]
    /\ load' = [load EXCEPT ![l] = [supplier |-> s, answer |-> None]]
    /\ UNCHANGED <<placing, placed>>

ReadCatalogue(l) ==
    /\ load[l] # None /\ load[l].answer = None
    /\ load' = [load EXCEPT ![l].answer = OfferedNow(load[l].supplier)]
    /\ UNCHANGED <<form, placing, placed>>

\* The answer is shown, or nothing when the request failed.  Whichever load
\* ends, the form no longer counts as loading.
EndLoad(l) ==
    /\ load[l] # None
    /\ \E shown \in {load[l].answer, {}} \ {None} :
         form' = [form EXCEPT !.catalogue = shown, !.loading = FALSE]
    /\ load' = [load EXCEPT ![l] = None]
    /\ UNCHANGED <<placing, placed>>

\* The option of no supplier: what is loading goes on.
ChooseNobody ==
    /\ form.supplier # None
    /\ form' = [form EXCEPT !.supplier = None, !.catalogue = {}, !.items = <<>>]
    /\ UNCHANGED <<load, placing, placed>>

\* What the form shows once a supplier is chosen and nothing is loading.
Shown == IF form.supplier # None /\ ~form.loading THEN form.catalogue ELSE {}

AddCatalogProduct(p) ==
    /\ p \in Shown /\ ~Contains(form.items, p)
    /\ form' = [form EXCEPT !.items = Append(@, p)]
    /\ UNCHANGED <<load, placing, placed>>

\* The items of the order stand beside the catalogue.
RemoveItem(n) ==
    /\ Shown # {} /\ n \in DOMAIN form.items
    /\ form' = [form EXCEPT !.items = RemoveAt(@, n)]
    /\ UNCHANGED <<load, placing, placed>>

\* What a closed form still waits for is dropped.
CloseForm ==
    /\ form # NewForm
    /\ form' = NewForm
    /\ load' = NoLoads
    /\ UNCHANGED <<placing, placed>>

-----------------------------------------------------------------------------
(* handleSubmit, and the handler that it reaches at slot r *)

\* validate: the items are of the catalogue shown.  create refuses a supplier
\* that is not active.
SubmitForm(r) ==
    /\ Step(r, "idle", "checkProduct")
    /\ form.items # <<>> /\ ToSet(form.items) \subseteq Shown
    /\ form.saving = None
    /\ supplier[form.supplier].active
    /\ form' = [form EXCEPT !.saving = r]
    /\ placing' = [placing EXCEPT ![r] =
         [supplier |-> form.supplier, items |-> form.items, at |-> 1]]
    /\ UNCHANGED <<load, placed>>

\* Faulty variant: that the product exists is enough.
FaultyCheckProduct(r) ==
    /\ Step(r, "checkProduct", "checkProduct")
    /\ placing[r].at <= Len(placing[r].items)
    /\ placing' = [placing EXCEPT ![r].at = @ + 1]
    /\ UNCHANGED <<form, load, placed>>

\* "Producto no disponible", "Este producto no pertenece al catálogo del
\* proveedor seleccionado".
CheckProduct(r) ==
    LET o == placing[r]
    IN  /\ Step(r, "checkProduct", "checkProduct")
        /\ o.at <= Len(o.items)
        /\ o.items[o.at] \in OfferedNow(o.supplier)
        /\ placing' = [placing EXCEPT ![r].at = @ + 1]
        /\ UNCHANGED <<form, load, placed>>

\* The form, if still open, may be sent again.
Unsaved(r) == [form EXCEPT !.saving = IF @ = r THEN None ELSE @]

\* The order is inserted, and the page closes the form, unless the answer is
\* lost on its way.
PlaceOrder(r) ==
    LET o == placing[r]
    IN  /\ Step(r, "checkProduct", "idle")
        /\ o.at > Len(o.items)
        /\ placed' = placed \cup {[supplier |-> o.supplier, items |-> ToSet(o.items)]}
        /\ placing' = [placing EXCEPT ![r] = None]
        /\ \/ form' = NewForm /\ load' = NoLoads
           \/ form' = Unsaved(r) /\ UNCHANGED load

\* A refusal, or a failed statement.
RefuseOrder(r) ==
    /\ Step(r, "checkProduct", "idle")
    /\ placing' = [placing EXCEPT ![r] = None]
    /\ form' = Unsaved(r)
    /\ UNCHANGED <<load, placed>>

-----------------------------------------------------------------------------
\* The buyer at the form, and the loads it waits for.
FormStep ==
    \/ \E l \in Load : ReadCatalogue(l) \/ EndLoad(l)
    \/ \E p \in Stocked : AddCatalogProduct(p)
    \/ \E n \in DOMAIN form.items : RemoveItem(n)
    \/ ChooseNobody \/ CloseForm

OrderStep(r) == CheckProduct(r) \/ PlaceOrder(r) \/ RefuseOrder(r)

\* A request arrives at slot r.  The writing handlers are for administrators,
\* the catalogues for everyone.
Arrive(r) ==
    /\ patient => \A q \in Request : Idle(q)
    /\ userOf[r] \in Admin
    /\ \/ StartSupplier(r) /\ UNCHANGED formVars
       \/ SubmitForm(r) /\ UNCHANGED supplierVars

\* DELETE /inventory/products/:id: nothing makes the product active again.
DeactivateProduct(p) ==
    /\ patient => \A q \in Request : Idle(q)
    /\ available' = available \ {p}
    /\ UNCHANGED <<pc, supplierVars, formVars>>

BuyingNext ==
    \/ /\ calls < MaxCalls
       /\ calls' = calls + 1
       /\ UNCHANGED patient
       /\ \/ (\E r \in Request : Arrive(r)) /\ UNCHANGED available
          \/ \E s \in Supplier, l \in Load :
               ChooseSupplier(s, l) /\ UNCHANGED <<pc, supplierVars, available>>
          \/ \E p \in available : DeactivateProduct(p)
    \/ /\ UNCHANGED <<available, patient, calls>>
       /\ \/ FormStep /\ UNCHANGED <<pc, supplierVars>>
          \/ \E r \in Request : SupplierStep(r) /\ UNCHANGED formVars
          \/ \E r \in Request : OrderStep(r) /\ UNCHANGED supplierVars

BuyingInit ==
    /\ pc = [r \in Request |-> "idle"]
    /\ SuppliersInit
    /\ form = NewForm
    /\ load = NoLoads
    /\ placing = [r \in Request |-> None]
    /\ placed = {}
    /\ available = Stocked
    /\ patient \in BOOLEAN
    /\ calls = 0

BuyingSpec == BuyingInit /\ [][BuyingNext]_buyingVars

-----------------------------------------------------------------------------
(* Properties *)

\* A purchase order is registered only for an active supplier and for active
\* products that its catalogue offers, whatever catalogue the form was showing: true
\* while the requests do not overlap, since the rows checked are not locked.
OrdersAreOfTheCatalogue ==
    [][patient =>
         \A o \in placed' \ placed :
           supplier[o.supplier].active /\ o.items \subseteq OfferedNow(o.supplier)]_buyingVars

\* The catalogue of a supplier names nothing twice, neither a product nor a
\* free name, so that a cost has one row to stand in: true while the requests
\* do not overlap, since no index covers the free names.
SuppliersOfferOnce ==
    patient =>
      \A s \in Supplier, o \in Offer, i, j \in Item : {i, j} \subseteq Entries(s, o) => i = j

-----------------------------------------------------------------------------
(* A small instance for TLC: one supplier of a product and one of a free   *)
(* name, a third to create, and two administrators who edit them while a   *)
(* purchase is made out.                                                   *)

CONSTANTS r1, r2, ana, beto, s1, s2, i1, i2, i3, i4, i5, l1, l2

MCUserOf == [r \in Request |-> IF r = r1 THEN ana ELSE beto]
MCItems == i1 :> <<s1, "ram">> @@ i2 :> <<s2, "cable">>
MCStated == {"ram" :> TRUE, "cable" :> FALSE, "ram" :> TRUE @@ "cable" :> TRUE}
\* Rows not used at first differ in nothing but their ids, and so do loads.
MCAlike == Permutations({i3, i4, i5}) \cup Permutations({l1, l2})
=============================================================================

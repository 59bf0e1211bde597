-------------------------- MODULE PurchaseForm_proofs --------------------------
(***************************************************************************)
(* Suppliers' catalogues, and the purchase orders that are checked against *)
(* them: what holds, for any suppliers, catalogues and forms, while every  *)
(* client waits for its answer before another asks.  The argument is that  *)
(* what a handler read is still so when it writes.                         *)
(***************************************************************************)
EXTENDS PurchaseForm, TLAPS

\* The rows that are there at first were entered as the service has them.
ItemsAtStartDiffer ==
    \A i, j \in DOMAIN ItemAtStart : ItemAtStart[i] = ItemAtStart[j] => i = j

-----------------------------------------------------------------------------
(* The inductive invariant *)

ArgumentsType ==
    [id: Supplier \cup {None}, ruc: Ruc \cup {None}, offers: Stated \cup {None},
     seen: SUBSET Item, item: Item \cup {None}, offer: Offer \cup {None}, active: BOOLEAN]

FormType ==
    [supplier: Supplier \cup {None}, catalogue: SUBSET Stocked, items: Seq(Stocked),
     loading: BOOLEAN, saving: Request \cup {None}]

OrderType ==
    [supplier: Supplier \cup {None}, items: Seq(Stocked), at: Nat \ {0}]

LoadType == [supplier: Supplier, answer: (SUBSET Stocked) \cup {None}]

SupplierType == [known: BOOLEAN, ruc: Ruc \cup {None}, active: BOOLEAN]

\* Of pc only the slots are fixed; the slots of a handler at work have its
\* arguments, or its order.
BuyingTypeOK ==
    /\ DOMAIN pc = Request
    /\ supplier \in [Supplier -> SupplierType]
    /\ DOMAIN item = Item
    /\ supplying \in [Request -> ArgumentsType \cup {None}]
    /\ form \in FormType
    /\ load \in [Load -> LoadType \cup {None}]
    /\ placing \in [Request -> OrderType \cup {None}]

\* A client that waits has the server to itself.
OneAtATime ==
    patient => \A q, r \in Request : pc[q] # "idle" /\ pc[r] # "idle" => q = r

\* A catalogue belongs to a supplier that was created, and so does the handler
\* that changes it: suppliers are never deleted.
StoredAreKnown == \A i \in Item : item[i].row = "stored" => item[i].of \in Known

HandlerIsKnown(r) ==
    /\ pc[r] \in SupplierLabel => supplying[r] \in ArgumentsType
    /\ pc[r] \in SupplierLabel \ {"insertSupplier"} => supplying[r].id \in Known
    /\ pc[r] = "writeItem" => supplying[r].item \in Item
    /\ pc[r] = "checkProduct" => placing[r] \in OrderType

\* What the handler of r read is so: the offer is of no row, or of the row to be
\* written; the rows to be deleted are the whole catalogue; the supplier is
\* active and offers the products checked so far.
AdditionHolds(r) ==
    pc[r] = "insertItem" => Entries(supplying[r].id, supplying[r].offer) = {}

ChangeHolds(r) ==
    pc[r] = "writeItem" =>
        \/ supplying[r].offer = None
        \/ Entries(supplying[r].id, supplying[r].offer) \subseteq {supplying[r].item}

ReplacementHolds(r) ==
    pc[r] \in {"deleteCatalogue", "updateSupplier", "commitSupplier"} =>
        \/ supplying[r].offers = None
        \/ Catalogue(supplying[r].id) \subseteq supplying[r].seen

OrderHolds(r) ==
    pc[r] = "checkProduct" =>
        /\ supplier[placing[r].supplier].active
        /\ \A n \in DOMAIN placing[r].items :
             n < placing[r].at => placing[r].items[n] \in OfferedNow(placing[r].supplier)

ReadsHold(r) == AdditionHolds(r) /\ ChangeHolds(r) /\ ReplacementHolds(r) /\ OrderHolds(r)

OffersOnce == \A s \in Supplier, o \in Offer : \A i, j \in Entries(s, o) : i = j

BuyingInv ==
    /\ BuyingTypeOK
    /\ OneAtATime
    /\ StoredAreKnown
    /\ \A r \in Request : HandlerIsKnown(r)
    /\ patient => OffersOnce /\ \A r \in Request : ReadsHold(r)

-----------------------------------------------------------------------------
(* Lemmas *)

\* A step of slot r alone that changes no row: a handler begins or goes on.
LEMMA HandlerGoesOn ==
    ASSUME BuyingInv, NEW r \in Request, UNCHANGED <<supplier, item, patient, available>>,
           BuyingTypeOK', OneAtATime', HandlerIsKnown(r)',
           \A q \in Request \ {r} : /\ pc'[q] = pc[q] /\ supplying'[q] = supplying[q]
                                    /\ placing'[q] = placing[q],
           patient => ReadsHold(r)'
    PROVE  BuyingInv'
<1>1. StoredAreKnown' /\ (patient' => OffersOnce')
  BY DEF BuyingInv, StoredAreKnown, OffersOnce, Known, Entries, Catalogue
<1>2. \A q \in Request \ {r} : HandlerIsKnown(q)'
  BY DEF BuyingInv, HandlerIsKnown, Known
<1>3. ASSUME patient, NEW q \in Request \ {r}
      PROVE  ReadsHold(q)'
  <2>1. ReadsHold(q)
    BY <1>3 DEF BuyingInv
  <2>2. AdditionHolds(q)' /\ ChangeHolds(q)' /\ ReplacementHolds(q)'
    BY <1>3, <2>1 DEF ReadsHold, AdditionHolds, ChangeHolds, ReplacementHolds, Entries, Catalogue
  <2>3. OrderHolds(q)'
    BY <1>3, <2>1 DEF ReadsHold, OrderHolds, OfferedNow, Entries, Catalogue
  <2>4. QED
    BY <2>2, <2>3 DEF ReadsHold
<1>4. QED
  BY <1>1, <1>2, <1>3 DEF BuyingInv

\* The handler of r ends, having written what it had to: a client that waits
\* leaves the server idle.
LEMMA HandlerEnds ==
    ASSUME BuyingInv, NEW r \in Request, pc[r] # "idle", pc' = [pc EXCEPT ![r] = "idle"],
           patient' = patient, BuyingTypeOK', StoredAreKnown', Known \subseteq Known',
           \A q \in Request \ {r} : supplying'[q] = supplying[q] /\ placing'[q] = placing[q],
           patient => OffersOnce'
    PROVE  BuyingInv'
<1>1. DOMAIN pc = Request /\ pc'[r] = "idle" /\ \A q \in Request \ {r} : pc'[q] = pc[q]
  BY DEF BuyingInv, BuyingTypeOK
<1>2. OneAtATime'
  BY <1>1 DEF BuyingInv, OneAtATime
<1>3. ASSUME NEW q \in Request
      PROVE  HandlerIsKnown(q)'
  <2>1. CASE q = r
    BY <1>1, <2>1 DEF HandlerIsKnown, SupplierLabel
  <2>2. CASE q # r
    BY <1>1, <2>2 DEF BuyingInv, HandlerIsKnown
  <2>3. QED
    BY <2>1, <2>2
<1>4. ASSUME patient, NEW q \in Request
      PROVE  ReadsHold(q)'
  <2>1. pc'[q] = "idle"
    BY <1>1, <1>4 DEF BuyingInv, OneAtATime
  <2>2. QED
    BY <2>1 DEF ReadsHold, AdditionHolds, ChangeHolds, ReplacementHolds, OrderHolds
<1>5. QED
  BY <1>2, <1>3, <1>4 DEF BuyingInv

\* A handler that begins at r, or goes on.
LEMMA BeginningKeepsOne ==
    ASSUME BuyingInv, NEW r \in Request, NEW from, NEW to, Step(r, from, to),
           patient' = patient,
           from # "idle" \/ (patient => \A q \in Request : Idle(q))
    PROVE  /\ OneAtATime'
           /\ DOMAIN pc' = Request /\ pc[r] = from /\ pc'[r] = to
           /\ \A q \in Request \ {r} : pc'[q] = pc[q]
<1>1. DOMAIN pc = Request
  BY DEF BuyingInv, BuyingTypeOK
<1>2. /\ DOMAIN pc' = Request /\ pc[r] = from /\ pc'[r] = to
      /\ \A q \in Request \ {r} : pc'[q] = pc[q]
  BY <1>1 DEF Step
<1>3. OneAtATime'
  BY <1>2 DEF BuyingInv, OneAtATime, Idle
<1>4. QED
  BY <1>2, <1>3

-----------------------------------------------------------------------------
(* Requests arrive *)

\* The handler that begins at r has read what its arguments say.
LEMMA HandlerBegins ==
    ASSUME BuyingInv, NEW r \in Request, NEW to \in SupplierLabel, NEW a \in ArgumentsType,
           Step(r, "idle", to), Begin(r, a),
           UNCHANGED <<supplier, item, formVars, patient, available>>,
           patient => \A q \in Request : Idle(q),
           to \notin {"deleteCatalogue", "commitSupplier"},
           to # "insertSupplier" => a.id \in Known,
           to = "writeItem" => /\ a.item \in Item
                               /\ a.offer = None \/ Entries(a.id, a.offer) \subseteq {a.item},
           to = "insertItem" => Entries(a.id, a.offer) = {},
           to = "updateSupplier" => a.offers = None
    PROVE  BuyingInv'
<1>1. BuyingTypeOK /\ form' = form /\ load' = load /\ placing' = placing
  BY DEF BuyingInv, formVars
<1>2. /\ OneAtATime'
      /\ DOMAIN pc' = Request /\ pc'[r] = to
      /\ \A q \in Request \ {r} : pc'[q] = pc[q]
  BY BeginningKeepsOne
<1>3. /\ supplying' \in [Request -> ArgumentsType \cup {None}]
      /\ supplying'[r] = a
      /\ \A q \in Request \ {r} : supplying'[q] = supplying[q]
  BY <1>1 DEF Begin, BuyingTypeOK
<1>4. BuyingTypeOK'
  BY <1>1, <1>2, <1>3 DEF BuyingTypeOK
<1>5. to # "idle" /\ to # "checkProduct"
  BY DEF SupplierLabel
<1>6. HandlerIsKnown(r)'
  BY <1>2, <1>3, <1>5 DEF HandlerIsKnown, Known
<1>7. ReadsHold(r)'
  <2>1. AdditionHolds(r)'
    BY <1>2, <1>3 DEF AdditionHolds, Entries, Catalogue
  <2>2. ChangeHolds(r)'
    BY <1>2, <1>3 DEF ChangeHolds, Entries, Catalogue
  <2>3. ReplacementHolds(r)' /\ OrderHolds(r)'
    BY <1>2, <1>3, <1>5 DEF ReplacementHolds, OrderHolds
  <2>4. QED
    BY <2>1, <2>2, <2>3 DEF ReadsHold
<1>8. QED
  BY <1>1, <1>2, <1>3, <1>4, <1>6, <1>7, HandlerGoesOn

LEMMA StartSupplierKeepsInv ==
    ASSUME BuyingInv, NEW r \in Request, StartSupplier(r),
           UNCHANGED <<formVars, patient, available>>,
           patient => \A q \in Request : Idle(q)
    PROVE  BuyingInv'
<1>1. CASE \E ruc \in Ruc \cup {None}, offers \in Stated : StartCreateSupplier(r, ruc, offers)
  <2>1. PICK ruc \in Ruc \cup {None}, offers \in Stated : StartCreateSupplier(r, ruc, offers)
    BY <1>1
  <2>2. Arguments(None, ruc, offers, None, None, TRUE) \in ArgumentsType
    BY DEF Arguments, ArgumentsType
  <2>3. QED
    BY <2>1, <2>2, HandlerBegins DEF StartCreateSupplier, SupplierLabel
<1>2. CASE \E s \in Supplier, ruc \in Ruc \cup {None}, offers \in Stated \cup {None} :
             StartUpdateSupplier(r, s, ruc, offers)
  <2>1. PICK s \in Supplier, ruc \in Ruc \cup {None}, offers \in Stated \cup {None} :
               StartUpdateSupplier(r, s, ruc, offers)
    BY <1>2
  <2>2. PICK a : a = Arguments(s, ruc, offers, None, None, TRUE)
    OBVIOUS
  <2>3. a \in ArgumentsType /\ a.id = s /\ a.offers = offers
    BY <2>2 DEF Arguments, ArgumentsType
  <2>4. PICK to : to = IF offers = None THEN "updateSupplier" ELSE "findCatalogue"
    OBVIOUS
  <2>5. Step(r, "idle", to) /\ Begin(r, a) /\ s \in Known /\ UNCHANGED <<supplier, item>>
    BY <2>1, <2>2, <2>4 DEF StartUpdateSupplier
  <2>6. to \in SupplierLabel /\ (to = "updateSupplier" => offers = None)
        /\ to \in {"updateSupplier", "findCatalogue"}
    BY <2>4 DEF SupplierLabel
  <2>7. QED
    BY <2>3, <2>5, <2>6, HandlerBegins
<1>3. CASE \E s \in Supplier, o \in Offer : StartAddItem(r, s, o)
  <2>1. PICK s \in Supplier, o \in Offer : StartAddItem(r, s, o)
    BY <1>3
  <2>2. PICK a : a = Arguments(s, None, None, None, o, TRUE)
    OBVIOUS
  <2>3. a \in ArgumentsType /\ a.id = s /\ a.offer = o
    BY <2>2 DEF Arguments, ArgumentsType
  <2>4. /\ Step(r, "idle", "insertItem") /\ Begin(r, a) /\ s \in Known /\ Entries(s, o) = {}
        /\ UNCHANGED <<supplier, item>>
    BY <2>1, <2>2 DEF StartAddItem
  <2>5. QED
    BY <2>3, <2>4, HandlerBegins DEF SupplierLabel
<1>4. CASE \E s \in Supplier, i \in Item : StartDeactivateItem(r, s, i)
  <2>1. PICK s \in Supplier, i \in Item : StartDeactivateItem(r, s, i)
    BY <1>4
  <2>2. PICK a : a = Arguments(s, None, None, i, None, FALSE)
    OBVIOUS
  <2>3. a \in ArgumentsType /\ a.id = s /\ a.offer = None /\ a.item = i
    BY <2>2 DEF Arguments, ArgumentsType
  <2>4. /\ Step(r, "idle", "writeItem") /\ Begin(r, a) /\ s \in Known
        /\ UNCHANGED <<supplier, item>>
    BY <2>1, <2>2 DEF StartDeactivateItem
  <2>5. QED
    BY <2>3, <2>4, HandlerBegins DEF SupplierLabel
<1>5. CASE \E s \in Supplier, i \in Item, o \in Offer, on \in BOOLEAN : StartUpdateItem(r, s, i, o, on)
  <2>1. PICK s \in Supplier, i \in Item, o \in Offer, on \in BOOLEAN : StartUpdateItem(r, s, i, o, on)
    BY <1>5
  <2>2. PICK a : a = Arguments(s, None, None, i, o, on)
    OBVIOUS
  <2>3. a \in ArgumentsType /\ a.id = s /\ a.offer = o /\ a.item = i
    BY <2>2 DEF Arguments, ArgumentsType
  <2>4. /\ Step(r, "idle", "writeItem") /\ Begin(r, a) /\ s \in Known
        /\ Entries(s, o) \subseteq {i} /\ UNCHANGED <<supplier, item>>
    BY <2>1, <2>2 DEF StartUpdateItem
  <2>5. QED
    BY <2>3, <2>4, HandlerBegins DEF SupplierLabel
<1>6. CASE \E s \in Supplier : StartDeactivateSupplier(r, s)
  <2>1. PICK s \in Supplier : StartDeactivateSupplier(r, s)
    BY <1>6
  <2>2. PICK a : a = Arguments(s, None, None, None, None, FALSE)
    OBVIOUS
  <2>3. a \in ArgumentsType /\ a.id = s
    BY <2>2 DEF Arguments, ArgumentsType
  <2>4. /\ Step(r, "idle", "deactivateSupplier") /\ Begin(r, a) /\ s \in Known
        /\ UNCHANGED <<supplier, item>>
    BY <2>1, <2>2 DEF StartDeactivateSupplier
  <2>5. QED
    BY <2>3, <2>4, HandlerBegins DEF SupplierLabel
<1>7. QED
  BY <1>1, <1>2, <1>3, <1>4, <1>5, <1>6 DEF StartSupplier

\* A form is sent with products that the form showed, of an active supplier.
LEMMA SubmitFormKeepsInv ==
    ASSUME BuyingInv, NEW r \in Request, SubmitForm(r),
           UNCHANGED <<supplierVars, patient, available>>,
           patient => \A q \in Request : Idle(q)
    PROVE  BuyingInv'
<1>1. BuyingTypeOK /\ supplier' = supplier /\ item' = item /\ supplying' = supplying
  BY DEF BuyingInv, supplierVars
<1>2. /\ OneAtATime'
      /\ DOMAIN pc' = Request /\ pc'[r] = "checkProduct"
      /\ \A q \in Request \ {r} : pc'[q] = pc[q]
  BY BeginningKeepsOne DEF SubmitForm
<1>3. PICK o : o = [supplier |-> form.supplier, items |-> form.items, at |-> 1]
  OBVIOUS
<1>4. o \in OrderType /\ o.supplier = form.supplier /\ o.at = 1 /\ o.items \in Seq(Stocked)
  BY <1>1, <1>3 DEF OrderType, BuyingTypeOK, FormType
<1>5. /\ placing' \in [Request -> OrderType \cup {None}]
      /\ placing'[r] = o
      /\ \A q \in Request \ {r} : placing'[q] = placing[q]
  BY <1>1, <1>3, <1>4 DEF SubmitForm, BuyingTypeOK
<1>6. form' \in FormType /\ load' = load
  BY <1>1 DEF SubmitForm, BuyingTypeOK, FormType
<1>7. BuyingTypeOK'
  BY <1>1, <1>2, <1>5, <1>6 DEF BuyingTypeOK
<1>8. HandlerIsKnown(r)'
  BY <1>2, <1>4, <1>5 DEF HandlerIsKnown, SupplierLabel
<1>9. ReadsHold(r)'
  <2>1. supplier[o.supplier].active
    BY <1>4 DEF SubmitForm
  <2>2. \A n \in DOMAIN o.items : ~(n < o.at)
    BY <1>4
  <2>3. OrderHolds(r)'
    BY <1>1, <1>5, <2>1, <2>2 DEF OrderHolds
  <2>4. QED
    BY <1>2, <2>3 DEF ReadsHold, AdditionHolds, ChangeHolds, ReplacementHolds
<1>10. QED
  BY <1>1, <1>2, <1>5, <1>7, <1>8, <1>9, HandlerGoesOn

-----------------------------------------------------------------------------
(* What the handlers of the suppliers do *)

\* A handler that ends without having written a row.
LEMMA HandlerGivesUp ==
    ASSUME BuyingInv, NEW r \in Request, pc[r] # "idle", pc' = [pc EXCEPT ![r] = "idle"],
           UNCHANGED <<supplier, item, patient, available>>, BuyingTypeOK',
           \A q \in Request \ {r} : supplying'[q] = supplying[q] /\ placing'[q] = placing[q]
    PROVE  BuyingInv'
<1>1. StoredAreKnown' /\ Known \subseteq Known' /\ (patient => OffersOnce')
  BY DEF BuyingInv, StoredAreKnown, OffersOnce, Known, Entries, Catalogue
<1>2. QED
  BY <1>1, HandlerEnds

\* The variables of the form, and the arguments of the other handlers, are not
\* a supplier handler's.
LEMMA SupplierHandlerTypes ==
    ASSUME BuyingInv, NEW r \in Request, UNCHANGED formVars,
           DOMAIN pc' = Request, supplier' \in [Supplier -> SupplierType], DOMAIN item' = Item,
           \/ End(r)
           \/ \E a \in ArgumentsType : supplying' = [supplying EXCEPT ![r] = a]
           \/ UNCHANGED supplying
    PROVE  /\ BuyingTypeOK'
           /\ \A q \in Request \ {r} : supplying'[q] = supplying[q] /\ placing'[q] = placing[q]
  BY DEF BuyingInv, BuyingTypeOK, formVars, End

LEMMA AbortKeepsInv ==
    ASSUME BuyingInv, NEW r \in Request, AbortSupplier(r),
           UNCHANGED <<formVars, patient, available>>
    PROVE  BuyingInv'
<1>1. /\ pc[r] # "idle" /\ pc' = [pc EXCEPT ![r] = "idle"] /\ End(r)
      /\ UNCHANGED <<supplier, item>>
  BY DEF AbortSupplier, SupplierLabel
<1>2. DOMAIN pc' = Request /\ supplier' \in [Supplier -> SupplierType] /\ DOMAIN item' = Item
  BY <1>1 DEF BuyingInv, BuyingTypeOK
<1>3. QED
  BY <1>1, <1>2, SupplierHandlerTypes, HandlerGivesUp

\* deleteMany finds the whole catalogue.
LEMMA FindCatalogueKeepsInv ==
    ASSUME BuyingInv, NEW r \in Request, FindCatalogue(r),
           UNCHANGED <<formVars, patient, available>>
    PROVE  BuyingInv'
<1>1. /\ OneAtATime'
      /\ DOMAIN pc' = Request /\ pc[r] = "findCatalogue" /\ pc'[r] = "deleteCatalogue"
      /\ \A q \in Request \ {r} : pc'[q] = pc[q]
  BY BeginningKeepsOne DEF FindCatalogue
<1>2. /\ supplying[r] \in ArgumentsType /\ supplying[r].id \in Known
      /\ BuyingTypeOK /\ UNCHANGED <<supplier, item>>
  BY <1>1 DEF BuyingInv, HandlerIsKnown, SupplierLabel, FindCatalogue
<1>3. PICK a : a = [supplying[r] EXCEPT !.seen = Catalogue(supplying[r].id)]
  OBVIOUS
<1>4. Catalogue(supplying[r].id) \subseteq Item
  BY DEF Catalogue
<1>5. a \in ArgumentsType /\ a.id = supplying[r].id /\ a.seen = Catalogue(a.id)
  BY <1>2, <1>3, <1>4 DEF ArgumentsType
<1>6. supplying' = [supplying EXCEPT ![r] = a]
  BY <1>2, <1>3 DEF FindCatalogue
<1>7. /\ BuyingTypeOK' /\ supplying'[r] = a
      /\ \A q \in Request \ {r} : supplying'[q] = supplying[q] /\ placing'[q] = placing[q]
  <2>1. supplier' \in [Supplier -> SupplierType] /\ DOMAIN item' = Item
    BY <1>2 DEF BuyingTypeOK
  <2>2. supplying'[r] = a
    BY <1>2, <1>6 DEF BuyingTypeOK
  <2>3. QED
    BY <1>1, <1>5, <1>6, <2>1, <2>2, SupplierHandlerTypes
<1>8. HandlerIsKnown(r)'
  BY <1>1, <1>2, <1>5, <1>7 DEF HandlerIsKnown, SupplierLabel, Known
<1>9. ReadsHold(r)'
  <2>1. ReplacementHolds(r)'
    BY <1>2, <1>5, <1>7 DEF ReplacementHolds, Catalogue
  <2>2. QED
    BY <1>1, <2>1 DEF ReadsHold, AdditionHolds, ChangeHolds, OrderHolds
<1>10. QED
  BY <1>1, <1>2, <1>7, <1>8, <1>9, HandlerGoesOn

\* deleteMany and the update go on with what was found.
LEMMA UpdateGoesOn ==
    ASSUME BuyingInv, NEW r \in Request, UNCHANGED <<formVars, patient, available>>,
           DeleteCatalogue(r) \/ UpdateSupplier(r)
    PROVE  BuyingInv'
<1>1. PICK from \in {"deleteCatalogue", "updateSupplier"},
           to \in {"updateSupplier", "commitSupplier"} :
             Step(r, from, to) /\ UNCHANGED supplierVars
  BY DEF DeleteCatalogue, UpdateSupplier
<1>2. /\ OneAtATime'
      /\ DOMAIN pc' = Request /\ pc[r] = from /\ pc'[r] = to
      /\ \A q \in Request \ {r} : pc'[q] = pc[q]
  BY <1>1, BeginningKeepsOne
<1>3. /\ UNCHANGED <<supplier, item, supplying, placing>>
      /\ BuyingTypeOK /\ HandlerIsKnown(r) /\ (patient => ReadsHold(r))
  BY <1>1 DEF BuyingInv, supplierVars, formVars
<1>4. BuyingTypeOK'
  BY <1>2, <1>3 DEF BuyingTypeOK, formVars
<1>5. HandlerIsKnown(r)'
  BY <1>2, <1>3 DEF HandlerIsKnown, SupplierLabel, Known
<1>6. patient => ReadsHold(r)'
  <2>1. patient => ReplacementHolds(r)'
    BY <1>2, <1>3 DEF ReadsHold, ReplacementHolds, Catalogue
  <2>2. QED
    BY <1>2, <2>1 DEF ReadsHold, AdditionHolds, ChangeHolds, OrderHolds
<1>7. QED
  BY <1>2, <1>3, <1>4, <1>5, <1>6, HandlerGoesOn

\* A catalogue that takes the place of all the rows there were names nothing
\* twice: each offer has one new row.
LEMMA ReplaceKeepsOnce ==
    ASSUME BuyingInv, NEW s \in Supplier, NEW seen \in SUBSET Item, NEW offers,
           Replace(s, seen, offers), s \in Known', Known \subseteq Known'
    PROVE  /\ DOMAIN item' = Item /\ StoredAreKnown'
           /\ OffersOnce /\ Catalogue(s) \subseteq seen => OffersOnce'
<1>0. PICK rows \in SUBSET Unused : \E f \in Bijection(rows, DOMAIN offers) :
             item' = [i \in Item |-> CASE i \in rows -> Entry(s, f[i], offers[f[i]])
                                     [] i \in seen \ rows -> DeletedItem
                                     [] OTHER -> item[i]]
  BY DEF Replace
<1>1. PICK f \in Bijection(rows, DOMAIN offers) :
             item' = [i \in Item |-> CASE i \in rows -> Entry(s, f[i], offers[f[i]])
                                     [] i \in seen \ rows -> DeletedItem
                                     [] OTHER -> item[i]]
  BY <1>0
<1>2. \A i, j \in rows : f[i] = f[j] => i = j
  BY DEF Bijection, Injection, IsInjective
<1>3. DOMAIN item' = Item /\ rows \subseteq Item
  BY <1>1 DEF Unused
<1>4. ASSUME NEW i \in rows
      PROVE  item'[i].row = "stored" /\ item'[i].of = s /\ item'[i].offer = f[i]
  <2>1. item'[i] = Entry(s, f[i], offers[f[i]])
    BY <1>1, <1>3
  <2>2. QED
    BY <2>1 DEF Entry, ItemRow
<1>5. ASSUME NEW i \in Item \ rows, item'[i].row = "stored"
      PROVE  item'[i] = item[i] /\ i \notin seen
  <2>1. CASE i \in seen
    <3>1. item'[i] = DeletedItem
      BY <1>1, <2>1
    <3>2. item'[i].row = "deleted"
      BY <3>1 DEF DeletedItem, ItemRow
    <3>3. QED
      BY <1>5, <3>2
  <2>2. CASE i \notin seen
    BY <1>1, <2>2
  <2>3. QED
    BY <2>1, <2>2
<1>6. StoredAreKnown'
  BY <1>4, <1>5 DEF BuyingInv, StoredAreKnown
<1>7. ASSUME OffersOnce, Catalogue(s) \subseteq seen
      PROVE  OffersOnce'
  <2>1. SUFFICES ASSUME NEW t \in Supplier, NEW o \in Offer, NEW i \in Item, NEW j \in Item,
                        i \in Entries(t, o)', j \in Entries(t, o)'
                 PROVE  i = j
    BY DEF OffersOnce, Entries, Catalogue
  <2>2. /\ item'[i].row = "stored" /\ item'[i].of = t /\ item'[i].offer = o
        /\ item'[j].row = "stored" /\ item'[j].of = t /\ item'[j].offer = o
    BY <2>1 DEF Entries, Catalogue
  <2>3. CASE i \in rows /\ j \in rows
    BY <1>2, <1>4, <2>2, <2>3
  <2>4. CASE i \notin rows /\ j \notin rows
    <3>1. item'[i] = item[i] /\ item'[j] = item[j]
      BY <1>5, <2>2, <2>4
    <3>2. i \in Entries(t, o) /\ j \in Entries(t, o)
      BY <2>2, <3>1 DEF Entries, Catalogue
    <3>3. QED
      BY <1>7, <3>2 DEF OffersOnce
  <2>5. ASSUME NEW k \in rows, NEW l \in Item \ rows, item'[l].row = "stored"
        PROVE  item'[k].of # item'[l].of
    <3>1. item'[l] = item[l] /\ l \notin Catalogue(s)
      BY <1>5, <1>7, <2>5
    <3>2. QED
      BY <1>4, <2>5, <3>1 DEF Catalogue
  <2>6. QED
    BY <2>2, <2>3, <2>4, <2>5
<1>8. QED
  BY <1>3, <1>6, <1>7

\* A supplier is created: it had no catalogue.
LEMMA InsertSupplierKeepsInv ==
    ASSUME BuyingInv, NEW r \in Request, NEW s \in Supplier, InsertSupplier(r, s),
           UNCHANGED <<formVars, patient, available>>
    PROVE  BuyingInv'
<1>1. PICK ruc : ruc = supplying[r].ruc
  OBVIOUS
<1>2. PICK offers : offers = supplying[r].offers
  OBVIOUS
<1>3. /\ pc[r] = "insertSupplier" /\ pc' = [pc EXCEPT ![r] = "idle"]
      /\ s \notin Known
      /\ supplier' = [supplier EXCEPT ![s] = [known |-> TRUE, ruc |-> ruc, active |-> TRUE]]
      /\ Replace(s, {}, offers) /\ End(r)
  BY <1>1, <1>2 DEF InsertSupplier, Step
<1>4. ruc \in Ruc \cup {None}
  BY <1>1, <1>3 DEF BuyingInv, HandlerIsKnown, SupplierLabel, ArgumentsType
<1>5. PICK new : new = [known |-> TRUE, ruc |-> ruc, active |-> TRUE]
  OBVIOUS
<1>6. new \in SupplierType /\ new.known
  BY <1>4, <1>5 DEF SupplierType
<1>7. supplier \in [Supplier -> SupplierType] /\ DOMAIN pc = Request
  BY DEF BuyingInv, BuyingTypeOK
<1>8. supplier' \in [Supplier -> SupplierType] /\ s \in Known' /\ Known \subseteq Known'
  BY <1>3, <1>5, <1>6, <1>7 DEF Known
<1>9. Catalogue(s) \subseteq {}
  BY <1>3 DEF BuyingInv, StoredAreKnown, Catalogue
<1>10. DOMAIN item' = Item /\ StoredAreKnown' /\ (OffersOnce => OffersOnce')
  BY <1>3, <1>8, <1>9, ReplaceKeepsOnce
<1>11. DOMAIN pc' = Request
  BY <1>3, <1>7
<1>12. /\ BuyingTypeOK'
       /\ \A q \in Request \ {r} : supplying'[q] = supplying[q] /\ placing'[q] = placing[q]
  BY <1>3, <1>8, <1>10, <1>11, SupplierHandlerTypes
<1>13. patient => OffersOnce'
  BY <1>10 DEF BuyingInv
<1>14. pc[r] # "idle"
  BY <1>3
<1>15. QED
  BY <1>3, <1>8, <1>10, <1>12, <1>13, <1>14, HandlerEnds

LEMMA CommitSupplierKeepsInv ==
    ASSUME BuyingInv, NEW r \in Request, CommitSupplier(r),
           UNCHANGED <<formVars, patient, available>>
    PROVE  BuyingInv'
<1>1. PICK c : c = supplying[r]
  OBVIOUS
<1>2. /\ pc[r] = "commitSupplier" /\ pc' = [pc EXCEPT ![r] = "idle"]
      /\ supplier' = [supplier EXCEPT ![c.id].ruc = IF c.ruc = None THEN @ ELSE c.ruc]
      /\ \/ c.offers = None /\ UNCHANGED item
         \/ c.offers # None /\ Replace(c.id, c.seen, c.offers)
      /\ End(r)
  BY <1>1 DEF CommitSupplier, Step
<1>3. c \in ArgumentsType /\ c.id \in Known
  BY <1>1, <1>2 DEF BuyingInv, HandlerIsKnown, SupplierLabel
<1>4. c.id \in Supplier /\ c.ruc \in Ruc \cup {None} /\ c.seen \in SUBSET Item
  BY <1>3 DEF ArgumentsType, Known
<1>5. supplier \in [Supplier -> SupplierType] /\ DOMAIN pc = Request /\ DOMAIN item = Item
  BY DEF BuyingInv, BuyingTypeOK
<1>6. supplier' \in [Supplier -> SupplierType] /\ \A t \in Supplier : supplier'[t].known = supplier[t].known
  <2>1. PICK row : row = [supplier[c.id] EXCEPT !.ruc = IF c.ruc = None THEN @ ELSE c.ruc]
    OBVIOUS
  <2>2. row \in SupplierType /\ row.known = supplier[c.id].known
    BY <1>4, <1>5, <2>1 DEF SupplierType
  <2>3. supplier' = [supplier EXCEPT ![c.id] = row]
    BY <1>2, <2>1
  <2>4. QED
    BY <1>4, <1>5, <2>2, <2>3
<1>7. Known' = Known
  BY <1>6 DEF Known
<1>8. DOMAIN item' = Item /\ StoredAreKnown' /\ (patient => OffersOnce')
  <2>1. CASE UNCHANGED item
    BY <1>5, <1>7, <2>1 DEF BuyingInv, StoredAreKnown, OffersOnce, Entries, Catalogue
  <2>2. CASE c.offers # None /\ Replace(c.id, c.seen, c.offers)
    <3>1. patient => Catalogue(c.id) \subseteq c.seen
      BY <1>1, <1>2, <2>2 DEF BuyingInv, ReadsHold, ReplacementHolds
    <3>2. QED
      BY <1>3, <1>4, <1>7, <2>2, <3>1, ReplaceKeepsOnce DEF BuyingInv
  <2>3. QED
    BY <1>2, <2>1, <2>2
<1>9. DOMAIN pc' = Request
  BY <1>2, <1>5
<1>10. /\ BuyingTypeOK'
       /\ \A q \in Request \ {r} : supplying'[q] = supplying[q] /\ placing'[q] = placing[q]
  BY <1>2, <1>6, <1>8, <1>9, SupplierHandlerTypes
<1>11. pc[r] # "idle" /\ Known \subseteq Known'
  BY <1>2, <1>7
<1>12. QED
  BY <1>2, <1>8, <1>10, <1>11, HandlerEnds

LEMMA DeactivateSupplierKeepsInv ==
    ASSUME BuyingInv, NEW r \in Request, DeactivateSupplier(r),
           UNCHANGED <<formVars, patient, available>>
    PROVE  BuyingInv'
<1>1. PICK s : s = supplying[r].id
  OBVIOUS
<1>2. /\ pc[r] = "deactivateSupplier" /\ pc' = [pc EXCEPT ![r] = "idle"]
      /\ supplier' = [supplier EXCEPT ![s].active = FALSE]
      /\ End(r) /\ UNCHANGED item
  BY <1>1 DEF DeactivateSupplier, Step
<1>3. supplier \in [Supplier -> SupplierType] /\ DOMAIN pc = Request /\ DOMAIN item = Item
  BY DEF BuyingInv, BuyingTypeOK
<1>4. s \in Supplier
  BY <1>1, <1>2 DEF BuyingInv, HandlerIsKnown, SupplierLabel, Known
<1>5. supplier' \in [Supplier -> SupplierType] /\ \A t \in Supplier : supplier'[t].known = supplier[t].known
  <2>1. PICK row : row = [supplier[s] EXCEPT !.active = FALSE]
    OBVIOUS
  <2>2. row \in SupplierType /\ row.known = supplier[s].known
    BY <1>3, <1>4, <2>1 DEF SupplierType
  <2>3. supplier' = [supplier EXCEPT ![s] = row]
    BY <1>2, <2>1
  <2>4. QED
    BY <1>3, <1>4, <2>2, <2>3
<1>6. Known' = Known
  BY <1>5 DEF Known
<1>7. StoredAreKnown' /\ (patient => OffersOnce') /\ DOMAIN item' = Item
  BY <1>2, <1>3, <1>6 DEF BuyingInv, StoredAreKnown, OffersOnce, Entries, Catalogue
<1>8. DOMAIN pc' = Request
  BY <1>2, <1>3
<1>9. /\ BuyingTypeOK'
      /\ \A q \in Request \ {r} : supplying'[q] = supplying[q] /\ placing'[q] = placing[q]
  BY <1>2, <1>5, <1>7, <1>8, SupplierHandlerTypes
<1>10. pc[r] # "idle" /\ Known \subseteq Known'
  BY <1>2, <1>6
<1>11. QED
  BY <1>2, <1>7, <1>9, <1>10, HandlerEnds

\* A row written for an offer that no other row of the supplier has.
LEMMA EntryKeepsOnce ==
    ASSUME BuyingInv, NEW i \in Item, NEW s \in Known, NEW o, NEW active,
           item' = [item EXCEPT ![i] = Entry(s, o, active)], UNCHANGED supplier
    PROVE  /\ DOMAIN item' = Item /\ StoredAreKnown'
           /\ OffersOnce /\ Entries(s, o) \subseteq {i} => OffersOnce'
<1>1. DOMAIN item = Item /\ Known' = Known
  BY DEF BuyingInv, BuyingTypeOK, Known
<1>2. /\ DOMAIN item' = Item
      /\ item'[i].row = "stored" /\ item'[i].of = s /\ item'[i].offer = o
      /\ \A j \in Item \ {i} : item'[j] = item[j]
  <2>1. PICK e : e = Entry(s, o, active)
    OBVIOUS
  <2>2. e.row = "stored" /\ e.of = s /\ e.offer = o
    BY <2>1 DEF Entry, ItemRow
  <2>3. QED
    BY <1>1, <2>1, <2>2
<1>3. StoredAreKnown'
  BY <1>1, <1>2 DEF BuyingInv, StoredAreKnown
<1>4. ASSUME OffersOnce, Entries(s, o) \subseteq {i}
      PROVE  OffersOnce'
  <2>1. SUFFICES ASSUME NEW t \in Supplier, NEW p \in Offer, NEW j \in Item, NEW k \in Item,
                        j \in Entries(t, p)', k \in Entries(t, p)'
                 PROVE  j = k
    BY DEF OffersOnce, Entries, Catalogue
  <2>2. /\ item'[j].row = "stored" /\ item'[j].of = t /\ item'[j].offer = p
        /\ item'[k].row = "stored" /\ item'[k].of = t /\ item'[k].offer = p
    BY <2>1 DEF Entries, Catalogue
  <2>3. CASE j # i /\ k # i
    <3>1. j \in Entries(t, p) /\ k \in Entries(t, p)
      BY <1>2, <2>2, <2>3 DEF Entries, Catalogue
    <3>2. QED
      BY <1>4, <3>1 DEF OffersOnce
  <2>4. ASSUME NEW l \in Item \ {i}, item'[l].row = "stored", item'[l].of = s, item'[l].offer = o
        PROVE  FALSE
    <3>1. l \in Entries(s, o)
      BY <1>2, <2>4 DEF Entries, Catalogue
    <3>2. QED
      BY <1>4, <3>1
  <2>5. QED
    BY <1>2, <2>2, <2>3, <2>4
<1>5. QED
  BY <1>2, <1>3, <1>4

LEMMA InsertItemKeepsInv ==
    ASSUME BuyingInv, NEW r \in Request, NEW i \in Item, InsertItem(r, i),
           UNCHANGED <<formVars, patient, available>>
    PROVE  BuyingInv'
<1>1. PICK c : c = supplying[r]
  OBVIOUS
<1>2. /\ pc[r] = "insertItem" /\ pc' = [pc EXCEPT ![r] = "idle"]
      /\ item' = [item EXCEPT ![i] = Entry(c.id, c.offer, TRUE)]
      /\ End(r) /\ UNCHANGED supplier
  BY <1>1 DEF InsertItem, Step
<1>3. c.id \in Known /\ DOMAIN pc = Request /\ supplier \in [Supplier -> SupplierType]
  BY <1>1, <1>2 DEF BuyingInv, BuyingTypeOK, HandlerIsKnown, SupplierLabel
<1>4. patient => Entries(c.id, c.offer) \subseteq {i}
  BY <1>1, <1>2 DEF BuyingInv, ReadsHold, AdditionHolds
<1>5. DOMAIN item' = Item /\ StoredAreKnown' /\ (patient => OffersOnce')
  BY <1>2, <1>3, <1>4, EntryKeepsOnce DEF BuyingInv
<1>6. DOMAIN pc' = Request /\ supplier' \in [Supplier -> SupplierType]
  BY <1>2, <1>3
<1>7. /\ BuyingTypeOK'
      /\ \A q \in Request \ {r} : supplying'[q] = supplying[q] /\ placing'[q] = placing[q]
  BY <1>2, <1>5, <1>6, SupplierHandlerTypes
<1>8. pc[r] # "idle" /\ Known \subseteq Known'
  BY <1>2 DEF Known
<1>9. QED
  BY <1>2, <1>5, <1>7, <1>8, HandlerEnds

\* A row that is written keeps its offer, or gets one that no other row has.
LEMMA WriteItemKeepsInv ==
    ASSUME BuyingInv, NEW r \in Request, WriteItem(r),
           UNCHANGED <<formVars, patient, available>>
    PROVE  BuyingInv'
<1>1. PICK c : c = supplying[r]
  OBVIOUS
<1>2. PICK offer : offer = IF c.offer = None THEN item[c.item].offer ELSE c.offer
  OBVIOUS
<1>3. /\ pc[r] = "writeItem" /\ pc' = [pc EXCEPT ![r] = "idle"]
      /\ \/ /\ c.item \in Catalogue(c.id)
            /\ item' = [item EXCEPT ![c.item] = Entry(c.id, offer, c.active)]
         \/ UNCHANGED item
      /\ End(r) /\ UNCHANGED supplier
  BY <1>1, <1>2 DEF WriteItem, Step
<1>4. /\ c.id \in Known /\ c.item \in Item /\ c \in ArgumentsType
      /\ DOMAIN pc = Request /\ DOMAIN item = Item /\ supplier \in [Supplier -> SupplierType]
  BY <1>1, <1>3 DEF BuyingInv, BuyingTypeOK, HandlerIsKnown, SupplierLabel
<1>5. DOMAIN item' = Item /\ StoredAreKnown' /\ (patient => OffersOnce')
  <2>1. CASE UNCHANGED item
    BY <1>3, <1>4, <2>1 DEF BuyingInv, StoredAreKnown, OffersOnce, Entries, Catalogue, Known
  <2>2. CASE /\ c.item \in Catalogue(c.id)
             /\ item' = [item EXCEPT ![c.item] = Entry(c.id, offer, c.active)]
    <3>1. /\ DOMAIN item' = Item /\ StoredAreKnown'
          /\ OffersOnce /\ Entries(c.id, offer) \subseteq {c.item} => OffersOnce'
      BY <1>3, <1>4, <2>2, EntryKeepsOnce
    <3>2. CASE c.offer # None
      <4>1. patient => Entries(c.id, offer) \subseteq {c.item}
        BY <1>1, <1>2, <1>3, <3>2 DEF BuyingInv, ReadsHold, ChangeHolds
      <4>2. QED
        BY <3>1, <4>1 DEF BuyingInv
    <3>3. CASE c.offer = None
      <4>1. c.item \in Entries(c.id, offer) /\ c.id \in Supplier
        BY <1>2, <1>4, <2>2, <3>3 DEF Entries, Known
      <4>2. CASE offer \in Offer
        <5>1. OffersOnce => Entries(c.id, offer) \subseteq {c.item}
          BY <4>1, <4>2 DEF OffersOnce
        <5>2. QED
          BY <3>1, <5>1 DEF BuyingInv
      <4>3. CASE offer \notin Offer
        <5>1. ASSUME NEW t \in Supplier, NEW p \in Offer
              PROVE  Entries(t, p)' \subseteq Entries(t, p)
          <6>1. SUFFICES ASSUME NEW j \in Item, item'[j].row = "stored", item'[j].of = t,
                                item'[j].offer = p
                         PROVE  j \in Entries(t, p)
            BY DEF Entries, Catalogue
          <6>2. PICK e : e = Entry(c.id, offer, c.active)
            OBVIOUS
          <6>3. e.offer = offer
            BY <6>2 DEF Entry, ItemRow
          <6>4. j # c.item
            BY <1>4, <2>2, <4>3, <6>1, <6>2, <6>3
          <6>5. item'[j] = item[j]
            BY <1>4, <2>2, <6>4
          <6>6. QED
            BY <6>1, <6>5 DEF Entries, Catalogue
        <5>2. OffersOnce => OffersOnce'
          BY <5>1 DEF OffersOnce
        <5>3. QED
          BY <3>1, <5>2 DEF BuyingInv
      <4>4. QED
        BY <4>2, <4>3
    <3>4. QED
      BY <3>2, <3>3
  <2>3. QED
    BY <1>3, <2>1, <2>2
<1>6. DOMAIN pc' = Request /\ supplier' \in [Supplier -> SupplierType]
  BY <1>3, <1>4
<1>7. /\ BuyingTypeOK'
      /\ \A q \in Request \ {r} : supplying'[q] = supplying[q] /\ placing'[q] = placing[q]
  BY <1>3, <1>5, <1>6, SupplierHandlerTypes
<1>8. pc[r] # "idle" /\ Known \subseteq Known'
  BY <1>3 DEF Known
<1>9. QED
  BY <1>3, <1>5, <1>7, <1>8, HandlerEnds

LEMMA SupplierStepKeepsInv ==
    ASSUME BuyingInv, NEW r \in Request, SupplierStep(r),
           UNCHANGED <<formVars, patient, available>>
    PROVE  BuyingInv'
  BY InsertSupplierKeepsInv, FindCatalogueKeepsInv, UpdateGoesOn, CommitSupplierKeepsInv,
     InsertItemKeepsInv, WriteItemKeepsInv, DeactivateSupplierKeepsInv, AbortKeepsInv
     DEF SupplierStep

-----------------------------------------------------------------------------
(* What the handler of an order does *)

\* One more product is found in the catalogue.
LEMMA CheckProductKeepsInv ==
    ASSUME BuyingInv, NEW r \in Request, CheckProduct(r),
           UNCHANGED <<supplierVars, patient, available>>
    PROVE  BuyingInv'
<1>1. BuyingTypeOK /\ UNCHANGED <<supplier, item, supplying, form, load>>
  BY DEF BuyingInv, supplierVars, CheckProduct
<1>2. /\ OneAtATime'
      /\ DOMAIN pc' = Request /\ pc[r] = "checkProduct" /\ pc'[r] = "checkProduct"
      /\ \A q \in Request \ {r} : pc'[q] = pc[q]
  BY BeginningKeepsOne DEF CheckProduct
<1>3. PICK o : o = placing[r]
  OBVIOUS
<1>4. PICK next : next = [o EXCEPT !.at = @ + 1]
  OBVIOUS
<1>5. /\ o \in OrderType /\ o.items[o.at] \in OfferedNow(o.supplier)
      /\ placing' = [placing EXCEPT ![r] = next]
  BY <1>2, <1>3, <1>4 DEF BuyingInv, HandlerIsKnown, CheckProduct
<1>6. next \in OrderType /\ next.at = o.at + 1 /\ next.items = o.items /\ next.supplier = o.supplier
  BY <1>4, <1>5 DEF OrderType
<1>7. /\ placing' \in [Request -> OrderType \cup {None}]
      /\ placing'[r] = next
      /\ \A q \in Request \ {r} : placing'[q] = placing[q]
  BY <1>1, <1>5, <1>6 DEF BuyingTypeOK
<1>8. BuyingTypeOK'
  BY <1>1, <1>2, <1>7 DEF BuyingTypeOK
<1>9. HandlerIsKnown(r)'
  BY <1>2, <1>6, <1>7 DEF HandlerIsKnown, SupplierLabel
<1>10. ASSUME patient
       PROVE  ReadsHold(r)'
  <2>1. /\ supplier[o.supplier].active
        /\ \A n \in DOMAIN o.items : n < o.at => o.items[n] \in OfferedNow(o.supplier)
    BY <1>2, <1>3, <1>10 DEF BuyingInv, ReadsHold, OrderHolds
  <2>2. \A n \in DOMAIN o.items : n < next.at => n < o.at \/ n = o.at
    BY <1>5, <1>6 DEF OrderType
  <2>3. \A n \in DOMAIN next.items : n < next.at => next.items[n] \in OfferedNow(next.supplier)
    BY <1>5, <1>6, <2>1, <2>2
  <2>4. OfferedNow(next.supplier)' = OfferedNow(next.supplier)
    BY <1>1 DEF OfferedNow, Entries, Catalogue
  <2>5. placing'[r] = next
    BY <1>7
  <2>6. OrderHolds(r)'
    BY <1>1, <1>6, <2>1, <2>3, <2>5 DEF OrderHolds, OfferedNow, Entries, Catalogue
  <2>7. QED
    BY <1>2, <2>6 DEF ReadsHold, AdditionHolds, ChangeHolds, ReplacementHolds
<1>11. QED
  BY <1>1, <1>2, <1>7, <1>8, <1>9, <1>10, HandlerGoesOn

\* The order is registered or refused.
LEMMA OrderEndKeepsInv ==
    ASSUME BuyingInv, NEW r \in Request, PlaceOrder(r) \/ RefuseOrder(r),
           UNCHANGED <<supplierVars, patient, available>>
    PROVE  BuyingInv'
<1>1. BuyingTypeOK /\ UNCHANGED <<supplier, item, supplying>>
  BY DEF BuyingInv, supplierVars
<1>2. /\ pc[r] # "idle" /\ pc' = [pc EXCEPT ![r] = "idle"]
      /\ placing' = [placing EXCEPT ![r] = None]
      /\ \/ form' = NewForm /\ load' = NoLoads
         \/ form' = Unsaved(r) /\ UNCHANGED load
  BY DEF PlaceOrder, RefuseOrder, Step
<1>3. form' \in FormType /\ load' \in [Load -> LoadType \cup {None}]
  <2>1. NewForm \in FormType
    BY DEF NewForm, FormType
  <2>2. Unsaved(r) \in FormType
    BY <1>1 DEF Unsaved, BuyingTypeOK, FormType
  <2>3. QED
    BY <1>1, <1>2, <2>1, <2>2 DEF BuyingTypeOK, NoLoads
<1>4. BuyingTypeOK' /\ \A q \in Request \ {r} : placing'[q] = placing[q]
  BY <1>1, <1>2, <1>3 DEF BuyingTypeOK
<1>5. QED
  BY <1>1, <1>2, <1>4, HandlerGivesUp

-----------------------------------------------------------------------------
(* The form *)

\* What happens at the form alone changes no row and no handler.
LEMMA FormGoesOn ==
    ASSUME BuyingInv, UNCHANGED <<pc, supplierVars, placing, patient, available>>,
           form' \in FormType, load' \in [Load -> LoadType \cup {None}]
    PROVE  BuyingInv'
<1>1. UNCHANGED <<pc, supplier, item, supplying, placing, patient, available>>
  BY DEF supplierVars
<1>2. BuyingTypeOK' /\ OneAtATime' /\ StoredAreKnown' /\ (patient => OffersOnce')
  BY <1>1 DEF BuyingInv, BuyingTypeOK, OneAtATime, StoredAreKnown, OffersOnce, Known, Entries,
              Catalogue
<1>3. \A r \in Request : HandlerIsKnown(r)'
  BY <1>1 DEF BuyingInv, HandlerIsKnown, Known
<1>4. ASSUME patient, NEW r \in Request
      PROVE  ReadsHold(r)'
  <2>1. ReadsHold(r)
    BY <1>4 DEF BuyingInv
  <2>2. AdditionHolds(r)' /\ ChangeHolds(r)' /\ ReplacementHolds(r)'
    BY <1>1, <2>1 DEF ReadsHold, AdditionHolds, ChangeHolds, ReplacementHolds, Entries, Catalogue
  <2>3. OrderHolds(r)'
    BY <1>1, <2>1 DEF ReadsHold, OrderHolds, OfferedNow, Entries, Catalogue
  <2>4. QED
    BY <2>2, <2>3 DEF ReadsHold
<1>5. QED
  BY <1>1, <1>2, <1>3, <1>4 DEF BuyingInv

LEMMA ChooseSupplierKeepsTypes ==
    ASSUME BuyingTypeOK, NEW s \in Supplier, NEW l \in Load, ChooseSupplier(s, l)
    PROVE  form' \in FormType /\ load' \in [Load -> LoadType \cup {None}]
<1>1. PICK asked : asked = [supplier |-> s, answer |-> None]
  OBVIOUS
<1>2. asked \in LoadType
  BY <1>1 DEF LoadType
<1>3. load' = [load EXCEPT ![l] = asked]
  BY <1>1 DEF ChooseSupplier
<1>4. load' \in [Load -> LoadType \cup {None}]
  BY <1>2, <1>3 DEF BuyingTypeOK
<1>5. form' \in FormType
  <2>1. PICK empty \in Seq(Stocked) : empty = <<>>
    <3>1. <<>> \in Seq(Stocked)
      OBVIOUS
    <3>2. QED
      BY <3>1
  <2>2. PICK none \in SUBSET Stocked : none = {}
    <3>1. {} \in SUBSET Stocked
      OBVIOUS
    <3>2. QED
      BY <3>1
  <2>3. form' = [form EXCEPT !.supplier = s, !.catalogue = none, !.items = empty, !.loading = TRUE]
    BY <2>1, <2>2 DEF ChooseSupplier
  <2>4. QED
    BY <2>1, <2>2, <2>3 DEF BuyingTypeOK, FormType
<1>6. QED
  BY <1>4, <1>5

LEMMA FormStepKeepsTypes ==
    ASSUME BuyingTypeOK, FormStep
    PROVE  form' \in FormType /\ load' \in [Load -> LoadType \cup {None}]
<1>1. ASSUME NEW l \in Load, ReadCatalogue(l)
      PROVE  form' \in FormType /\ load' \in [Load -> LoadType \cup {None}]
  <2>1. PICK read : read = [load[l] EXCEPT !.answer = OfferedNow(load[l].supplier)]
    OBVIOUS
  <2>2. OfferedNow(load[l].supplier) \in SUBSET Stocked /\ load[l] \in LoadType
    BY <1>1 DEF OfferedNow, ReadCatalogue, BuyingTypeOK
  <2>3. read \in LoadType
    BY <2>1, <2>2 DEF LoadType
  <2>4. load' = [load EXCEPT ![l] = read] /\ form' = form
    BY <1>1, <2>1 DEF ReadCatalogue
  <2>5. QED
    BY <2>3, <2>4 DEF BuyingTypeOK
<1>2. ASSUME NEW l \in Load, EndLoad(l)
      PROVE  form' \in FormType /\ load' \in [Load -> LoadType \cup {None}]
  <2>1. load[l] \in LoadType /\ load' = [load EXCEPT ![l] = None]
    BY <1>2 DEF EndLoad, BuyingTypeOK
  <2>2. PICK shown \in {load[l].answer, {}} \ {None} :
               form' = [form EXCEPT !.catalogue = shown, !.loading = FALSE]
    BY <1>2 DEF EndLoad
  <2>3. shown \in SUBSET Stocked
    <3>1. load[l].answer \in (SUBSET Stocked) \cup {None}
      BY <2>1 DEF LoadType
    <3>2. {} \in SUBSET Stocked
      OBVIOUS
    <3>3. QED
      BY <2>2, <3>1, <3>2
  <2>4. form' \in FormType
    BY <2>2, <2>3 DEF BuyingTypeOK, FormType
  <2>5. QED
    BY <2>1, <2>4 DEF BuyingTypeOK
<1>3. ASSUME NEW p \in Stocked, AddCatalogProduct(p)
      PROVE  form' \in FormType /\ load' \in [Load -> LoadType \cup {None}]
  <2>1. PICK items : items = Append(form.items, p)
    OBVIOUS
  <2>2. items \in Seq(Stocked)
    BY <1>3, <2>1 DEF BuyingTypeOK, FormType
  <2>3. form' = [form EXCEPT !.items = items] /\ load' = load
    BY <1>3, <2>1 DEF AddCatalogProduct
  <2>4. QED
    BY <2>2, <2>3 DEF BuyingTypeOK, FormType
<1>4. ASSUME NEW n \in DOMAIN form.items, RemoveItem(n)
      PROVE  form' \in FormType /\ load' \in [Load -> LoadType \cup {None}]
  <2>1. form.items \in Seq(Stocked) /\ n \in 1..Len(form.items)
    BY <1>4 DEF BuyingTypeOK, FormType
  <2>2. PICK items : items = RemoveAt(form.items, n)
    OBVIOUS
  <2>3. items \in Seq(Stocked)
    BY <2>1, <2>2 DEF RemoveAt
  <2>4. form' = [form EXCEPT !.items = items] /\ load' = load
    BY <1>4, <2>2 DEF RemoveItem
  <2>5. QED
    BY <2>3, <2>4 DEF BuyingTypeOK, FormType
<1>5. CASE ChooseNobody
  <2>1. PICK empty \in Seq(Stocked) : empty = <<>>
    <3>1. <<>> \in Seq(Stocked)
      OBVIOUS
    <3>2. QED
      BY <3>1
  <2>2. PICK none \in SUBSET Stocked : none = {}
    <3>1. {} \in SUBSET Stocked
      OBVIOUS
    <3>2. QED
      BY <3>1
  <2>3. PICK nobody \in Supplier \cup {None} : nobody = None
    <3>1. None \in Supplier \cup {None}
      OBVIOUS
    <3>2. QED
      BY <3>1
  <2>4. /\ form' = [form EXCEPT !.supplier = nobody, !.catalogue = none, !.items = empty]
        /\ load' = load
    BY <1>5, <2>1, <2>2, <2>3 DEF ChooseNobody
  <2>5. QED
    BY <2>1, <2>2, <2>3, <2>4 DEF BuyingTypeOK, FormType
<1>6. CASE CloseForm
  BY <1>6 DEF CloseForm, NewForm, NoLoads, BuyingTypeOK, FormType
<1>7. QED
  BY <1>1, <1>2, <1>3, <1>4, <1>5, <1>6 DEF FormStep

\* A product is switched off: a client that waits finds the server idle.
LEMMA DeactivateProductKeepsInv ==
    ASSUME BuyingInv, NEW p, DeactivateProduct(p), UNCHANGED patient
    PROVE  BuyingInv'
<1>1. UNCHANGED <<pc, supplier, item, supplying, form, load, placing, patient>>
  BY DEF DeactivateProduct, supplierVars, formVars
<1>2. BuyingTypeOK' /\ OneAtATime' /\ StoredAreKnown' /\ (patient => OffersOnce')
  BY <1>1 DEF BuyingInv, BuyingTypeOK, OneAtATime, StoredAreKnown, OffersOnce, Known, Entries,
              Catalogue
<1>3. \A r \in Request : HandlerIsKnown(r)'
  BY <1>1 DEF BuyingInv, HandlerIsKnown, Known
<1>4. ASSUME patient, NEW r \in Request
      PROVE  ReadsHold(r)'
  <2>1. pc'[r] = "idle"
    BY <1>1, <1>4 DEF DeactivateProduct, Idle
  <2>2. QED
    BY <2>1 DEF ReadsHold, AdditionHolds, ChangeHolds, ReplacementHolds, OrderHolds
<1>5. QED
  BY <1>1, <1>2, <1>3, <1>4 DEF BuyingInv

-----------------------------------------------------------------------------
(* The theorems *)

LEMMA BuyingInvInit ==
    ASSUME BuyingInit, ItemsAtStartDiffer
    PROVE  BuyingInv
<1>1. BuyingTypeOK
  <2>1. NewForm \in FormType
    BY DEF NewForm, FormType
  <2>2. ASSUME NEW s \in Supplier, NEW known \in BOOLEAN
        PROVE  [known |-> known, ruc |-> None, active |-> known] \in SupplierType
    BY DEF SupplierType
  <2>3. supplier \in [Supplier -> SupplierType]
    BY <2>2 DEF BuyingInit, SuppliersInit
  <2>4. QED
    BY <2>1, <2>3 DEF BuyingInit, SuppliersInit, BuyingTypeOK, NoLoads
<1>2. \A r \in Request : pc[r] = "idle"
  BY DEF BuyingInit
<1>3. OneAtATime /\ \A r \in Request : HandlerIsKnown(r) /\ ReadsHold(r)
  BY <1>2 DEF OneAtATime, HandlerIsKnown, ReadsHold, AdditionHolds, ChangeHolds,
              ReplacementHolds, OrderHolds, SupplierLabel
<1>4. ASSUME NEW i \in Item, item[i].row = "stored"
      PROVE  /\ i \in DOMAIN ItemAtStart
             /\ item[i].of = ItemAtStart[i][1] /\ item[i].offer = ItemAtStart[i][2]
  <2>1. item[i] = IF i \in DOMAIN ItemAtStart
                  THEN Entry(ItemAtStart[i][1], ItemAtStart[i][2], TRUE) ELSE NoItem
    BY DEF BuyingInit, SuppliersInit
  <2>2. i \in DOMAIN ItemAtStart
    <3>1. NoItem.row = "unused"
      BY DEF NoItem, ItemRow
    <3>2. QED
      BY <1>4, <2>1, <3>1
  <2>3. QED
    BY <2>1, <2>2 DEF Entry, ItemRow
<1>5. StoredAreKnown
  <2>1. SUFFICES ASSUME NEW i \in Item, item[i].row = "stored"
                 PROVE  item[i].of \in Known
    BY DEF StoredAreKnown
  <2>2. i \in DOMAIN ItemAtStart /\ item[i].of = ItemAtStart[i][1] /\ ItemAtStart[i][1] \in Supplier
    BY <1>4, <2>1, SupplierAssumption
  <2>3. PICK s \in Supplier : s = ItemAtStart[i][1]
    BY <2>2
  <2>4. PICK known : known = (\E j \in DOMAIN ItemAtStart : ItemAtStart[j][1] = s)
    OBVIOUS
  <2>5. supplier[s].known
    BY <2>2, <2>3 DEF BuyingInit, SuppliersInit
  <2>6. QED
    BY <2>2, <2>3, <2>5 DEF Known
<1>6. OffersOnce
  <2>1. SUFFICES ASSUME NEW s \in Supplier, NEW o \in Offer, NEW i \in Item, NEW j \in Item,
                        i \in Entries(s, o), j \in Entries(s, o)
                 PROVE  i = j
    BY DEF OffersOnce, Entries, Catalogue
  <2>2. /\ i \in DOMAIN ItemAtStart /\ ItemAtStart[i][1] = s /\ ItemAtStart[i][2] = o
        /\ j \in DOMAIN ItemAtStart /\ ItemAtStart[j][1] = s /\ ItemAtStart[j][2] = o
    BY <1>4, <2>1 DEF Entries, Catalogue
  <2>3. ItemAtStart[i] \in Supplier \X Offer /\ ItemAtStart[j] \in Supplier \X Offer
    BY <2>2, SupplierAssumption
  <2>4. ItemAtStart[i] = ItemAtStart[j]
    BY <2>2, <2>3
  <2>5. QED
    BY <2>2, <2>4 DEF ItemsAtStartDiffer
<1>7. QED
  BY <1>1, <1>3, <1>5, <1>6 DEF BuyingInv

LEMMA BuyingInvStep ==
    ASSUME BuyingInv, [BuyingNext]_buyingVars
    PROVE  BuyingInv'
<1>1. ASSUME NEW r \in Request, Arrive(r), UNCHANGED <<patient, available>>
      PROVE  BuyingInv'
  BY <1>1, StartSupplierKeepsInv, SubmitFormKeepsInv DEF Arrive
<1>2. ASSUME NEW s \in Supplier, NEW l \in Load, ChooseSupplier(s, l),
             UNCHANGED <<pc, supplierVars, patient, available>>
      PROVE  BuyingInv'
  <2>1. form' \in FormType /\ load' \in [Load -> LoadType \cup {None}]
    BY <1>2, ChooseSupplierKeepsTypes DEF BuyingInv
  <2>2. UNCHANGED placing
    BY <1>2 DEF ChooseSupplier
  <2>3. QED
    BY <1>2, <2>1, <2>2, FormGoesOn
<1>3. CASE FormStep /\ UNCHANGED <<pc, supplierVars, patient, available>>
  <2>1. form' \in FormType /\ load' \in [Load -> LoadType \cup {None}]
    BY <1>3, FormStepKeepsTypes DEF BuyingInv
  <2>2. UNCHANGED placing
    BY <1>3 DEF FormStep, ReadCatalogue, EndLoad, AddCatalogProduct, RemoveItem, ChooseNobody,
                CloseForm
  <2>3. QED
    BY <1>3, <2>1, <2>2, FormGoesOn
<1>4. ASSUME NEW r \in Request, SupplierStep(r), UNCHANGED <<formVars, patient, available>>
      PROVE  BuyingInv'
  BY <1>4, SupplierStepKeepsInv
<1>5. ASSUME NEW r \in Request, OrderStep(r), UNCHANGED <<supplierVars, patient, available>>
      PROVE  BuyingInv'
  BY <1>5, CheckProductKeepsInv, OrderEndKeepsInv DEF OrderStep
<1>6. ASSUME NEW p \in available, DeactivateProduct(p), UNCHANGED patient
      PROVE  BuyingInv'
  BY <1>6, DeactivateProductKeepsInv
<1>7. CASE UNCHANGED buyingVars
  <2>1. UNCHANGED <<pc, supplierVars, placing, patient, available, form, load>>
    BY <1>7 DEF buyingVars, formVars
  <2>2. form' \in FormType /\ load' \in [Load -> LoadType \cup {None}]
    BY <2>1 DEF BuyingInv, BuyingTypeOK
  <2>3. QED
    BY <2>1, <2>2, FormGoesOn
<1>8. QED
  BY <1>1, <1>2, <1>3, <1>4, <1>5, <1>6, <1>7 DEF BuyingNext

\* A client that waits for its answers has the server to itself, and what a
\* handler read stays so until it writes: catalogues name each offer once, and
\* an order is checked against a catalogue that does not change.
THEOREM BuyingIsInvariant ==
    ASSUME ItemsAtStartDiffer
    PROVE  BuyingSpec => []BuyingInv
<1>1. BuyingInit => BuyingInv
  BY BuyingInvInit
<1>2. BuyingInv /\ [BuyingNext]_buyingVars => BuyingInv'
  BY BuyingInvStep
<1>3. QED
  BY <1>1, <1>2, PTL DEF BuyingSpec

\* The catalogue of a supplier names nothing twice, neither a product nor a
\* free name, while the requests do not overlap (ensureCatalogItemIsUnique).
THEOREM CataloguesOfferOnce ==
    ASSUME ItemsAtStartDiffer
    PROVE  BuyingSpec => []SuppliersOfferOnce
<1>1. BuyingInv => SuppliersOfferOnce
  BY DEF BuyingInv, OffersOnce, SuppliersOfferOnce
<1>2. QED
  BY <1>1, BuyingIsInvariant, PTL

\* A purchase order is registered only for an active supplier and for active
\* products that its catalogue offers then, while the requests do not overlap
\* (PurchasesService.create).
THEOREM PurchasesAreOfTheCatalogue ==
    ASSUME ItemsAtStartDiffer
    PROVE  BuyingSpec => OrdersAreOfTheCatalogue
<1>1. ASSUME BuyingInv, patient, NEW r \in Request, PlaceOrder(r), NEW o \in placed' \ placed
      PROVE  supplier[o.supplier].active /\ o.items \subseteq OfferedNow(o.supplier)
  <2>1. PICK p : p = placing[r]
    OBVIOUS
  <2>2. pc[r] = "checkProduct" /\ p.at > Len(p.items)
    BY <1>1, <2>1 DEF PlaceOrder, Step
  <2>3. o = [supplier |-> p.supplier, items |-> ToSet(p.items)]
    BY <1>1, <2>1 DEF PlaceOrder
  <2>4. o.supplier = p.supplier /\ o.items = ToSet(p.items)
    BY <2>3
  <2>5. p \in OrderType
    BY <1>1, <2>1, <2>2 DEF BuyingInv, HandlerIsKnown
  <2>6. /\ supplier[p.supplier].active
        /\ \A n \in DOMAIN p.items : n < p.at => p.items[n] \in OfferedNow(p.supplier)
    BY <1>1, <2>1, <2>2 DEF BuyingInv, ReadsHold, OrderHolds
  <2>7. \A n \in DOMAIN p.items : n < p.at
    BY <2>2, <2>5 DEF OrderType
  <2>8. ToSet(p.items) \subseteq OfferedNow(p.supplier)
    BY <2>6, <2>7 DEF ToSet
  <2>9. QED
    BY <2>4, <2>6, <2>8
<1>2. ASSUME [BuyingNext]_buyingVars, placed' # placed
      PROVE  \E r \in Request : PlaceOrder(r)
  BY <1>2 DEF BuyingNext, DeactivateProduct, buyingVars, formVars, Arrive, SubmitForm,
              ChooseSupplier, FormStep,
              ReadCatalogue, EndLoad, AddCatalogProduct, RemoveItem, ChooseNobody, CloseForm,
              OrderStep, CheckProduct, RefuseOrder
<1>3. BuyingInv /\ [BuyingNext]_buyingVars =>
        [patient => \A o \in placed' \ placed :
           supplier[o.supplier].active /\ o.items \subseteq OfferedNow(o.supplier)]_buyingVars
  BY <1>1, <1>2
<1>4. QED
  BY <1>3, BuyingIsInvariant, PTL DEF BuyingSpec, OrdersAreOfTheCatalogue
=============================================================================

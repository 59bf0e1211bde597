------------------------------ MODULE Catalogue ------------------------------
(***************************************************************************)
(* InventoryService: products and their categories, the stock aside; and   *)
(* QuickServicesService: the services and theirs.  The handlers read and   *)
(* check first and write last, and an update writes what it states.  The   *)
(* first InventoryMovement of a product is stored with it and is left out. *)
(***************************************************************************)
EXTENDS Requests

CONSTANTS
    Category,       \* ids of ProductCategory rows
    Name,           \* names of categories
    normalized,     \* normalizeCategoryName
    Product,        \* ids of Product rows
    Code,           \* values of sku, and of barcode
    Text,           \* stands for every field without a constraint
    QuickCategory,  \* ids of QuickServiceCategory rows
    QuickService    \* ids of QuickService rows

ASSUME CatalogueAssumption ==
    /\ normalized \in [Name -> Name]
    /\ \A n \in Name : normalized[normalized[n]] = normalized[n]
    /\ None \notin Category \cup Name \cup Product \cup Code \cup Text
    /\ None \notin QuickCategory \cup QuickService

VARIABLES
    category,       \* committed ProductCategory rows
    product,        \* committed Product rows
    quickCategory,  \* committed QuickServiceCategory rows
    quickService,   \* committed QuickService rows
    cataloguing     \* the catalogue handler of r: the row it works on and what it states

catalogueVars == <<category, product, quickCategory, quickService, cataloguing>>

NoCategory == [name |-> None, active |-> FALSE]
NoProduct ==
    [category |-> None, sku |-> None, barcode |-> None, text |-> None,
     search |-> None, active |-> FALSE]
NoService == [category |-> None, text |-> None, active |-> FALSE]

Categories == {c \in Category : category[c].name # None}
Listed == {p \in Product : product[p].sku # None}
Services == {q \in QuickService : quickService[q].text # None}

Named(name) == {c \in Categories : category[c].name = name}
Carriers(sku, barcode) ==
    {p \in Listed : \/ sku # None /\ product[p].sku = sku
                    \/ barcode # None /\ product[p].barcode = barcode}

Available(c) == c \in Categories /\ category[c].active

\* What a request states of a product; None is left out.
Description(c, sku, barcode, text) ==
    [category |-> c, sku |-> sku, barcode |-> barcode, text |-> text]

Open(r, id, row) == cataloguing' = [cataloguing EXCEPT ![r] = [id |-> id, row |-> row]]
Close(r) == cataloguing' = [cataloguing EXCEPT ![r] = None]

UpdatedRow(row, stated) ==
    [f \in DOMAIN row |->
       IF f \in DOMAIN stated /\ stated[f] # None THEN stated[f] ELSE row[f]]

-----------------------------------------------------------------------------
(* Categories of products.  A name is looked up among all rows, those of *)
(* deactivated categories included; a unique index guards it again.      *)

StartCreateCategory(r, name) ==
    /\ Step(r, "idle", "insertCategory")
    /\ Named(normalized[name]) = {}
    /\ Open(r, None, [name |-> normalized[name]])
    /\ UNCHANGED <<category, product, quickCategory, quickService>>

InsertCategory(r, c) ==
    /\ Step(r, "insertCategory", "idle")
    /\ c \notin Categories
    /\ Named(cataloguing[r].row.name) = {}
    /\ category' = [category EXCEPT ![c] = [name |-> cataloguing[r].row.name, active |-> TRUE]]
    /\ Close(r)
    /\ UNCHANGED <<product, quickCategory, quickService>>

\* Faulty variant: the new name is stored as it was typed.
FaultyStartUpdateCategory(r, c, name) ==
    /\ Step(r, "idle", "writeCategory")
    /\ c \in Categories
    /\ Named(name) \subseteq {c}
    /\ Open(r, c, [name |-> name])
    /\ UNCHANGED <<category, product, quickCategory, quickService>>

StartUpdateCategory(r, c, name) ==
    /\ Step(r, "idle", "writeCategory")
    /\ c \in Categories
    /\ Named(normalized[name]) \subseteq {c}
    /\ Open(r, c, [name |-> normalized[name]])
    /\ UNCHANGED <<category, product, quickCategory, quickService>>

\* deactivateCategory leaves the products of the category as they are, and
\* nothing makes it active again.
StartDeactivateCategory(r, c) ==
    /\ Step(r, "idle", "writeCategory")
    /\ c \in Categories
    /\ Open(r, c, [active |-> FALSE])
    /\ UNCHANGED <<category, product, quickCategory, quickService>>

WriteCategory(r) ==
    LET w == cataloguing[r]
    IN  /\ Step(r, "writeCategory", "idle")
        /\ "name" \in DOMAIN w.row => Named(w.row.name) \subseteq {w.id}
        /\ category' = [category EXCEPT ![w.id] = UpdatedRow(@, w.row)]
        /\ Close(r)
        /\ UNCHANGED <<product, quickCategory, quickService>>

-----------------------------------------------------------------------------
(* Products.  buildTechnicalSpecsSearch takes its text from the request, so *)
(* that an update which states none stores none.                            *)

StartCreateProduct(r, d) ==
    /\ Step(r, "idle", "insertProduct")
    /\ Available(d.category)
    /\ Carriers(d.sku, d.barcode) = {}
    /\ Open(r, None, d)
    /\ UNCHANGED <<category, product, quickCategory, quickService>>

InsertProduct(r, p) ==
    LET d == cataloguing[r].row
    IN  /\ Step(r, "insertProduct", "idle")
        /\ p \notin Listed
        /\ Carriers(d.sku, d.barcode) = {}
        /\ product' = [product EXCEPT ![p] =
             [UpdatedRow(NoProduct, d) EXCEPT !.search = d.text, !.active = TRUE]]
        /\ Close(r)
        /\ UNCHANGED <<category, quickCategory, quickService>>

\* Both codes are looked up when one of them changes, and then the row that
\* already carries the other one is found too.
StartUpdateProduct(r, p, d) ==
    /\ Step(r, "idle", "writeProduct")
    /\ p \in Listed
    /\ d.category # None => Available(d.category)
    /\ \/ d.sku \in {None, product[p].sku} /\ d.barcode \in {None, product[p].barcode}
       \/ Carriers(d.sku, d.barcode) = {}
    /\ Open(r, p, d)
    /\ UNCHANGED <<category, product, quickCategory, quickService>>

\* One UPDATE, of the fields stated and of technicalSpecsSearch.
WriteProduct(r) ==
    LET w == cataloguing[r]
    IN  /\ Step(r, "writeProduct", "idle")
        /\ Carriers(w.row.sku, w.row.barcode) \subseteq {w.id}
        /\ product' = [product EXCEPT ![w.id] =
             [UpdatedRow(@, w.row) EXCEPT !.search = w.row.text]]
        /\ Close(r)
        /\ UNCHANGED <<category, quickCategory, quickService>>

StartDeactivateProduct(r, p) ==
    /\ Step(r, "idle", "dropProduct")
    /\ p \in Listed
    /\ Open(r, p, <<>>)
    /\ UNCHANGED <<category, product, quickCategory, quickService>>

DropProduct(r) ==
    /\ Step(r, "dropProduct", "idle")
    /\ product' = [product EXCEPT ![cataloguing[r].id].active = FALSE]
    /\ Close(r)
    /\ UNCHANGED <<category, quickCategory, quickService>>

-----------------------------------------------------------------------------
(* Quick services.  Their categories are written by single statements, under *)
(* a unique index on the name; ensureCategory runs when a request states one. *)

WriteQuickCategory(r, c, name) ==
    /\ Idle(r)
    /\ \A k \in QuickCategory \ {c} : quickCategory[k].name # name
    /\ quickCategory' = [quickCategory EXCEPT ![c] =
         [name |-> name, active |-> @.name = None \/ @.active]]
    /\ UNCHANGED <<pc, category, product, quickService, cataloguing>>

DeactivateQuickCategory(r, c) ==
    /\ Idle(r)
    /\ quickCategory[c].name # None
    /\ quickCategory' = [quickCategory EXCEPT ![c].active = FALSE]
    /\ UNCHANGED <<pc, category, product, quickService, cataloguing>>

StartService(r, q, c, text) ==
    /\ Step(r, "idle", "writeService")
    /\ c # None => quickCategory[c].active
    /\ Open(r, q, [category |-> c, text |-> text])
    /\ UNCHANGED <<category, product, quickCategory, quickService>>

\* A creation, which takes an unused row, or an update.
WriteService(r) ==
    LET w == cataloguing[r]
    IN  /\ Step(r, "writeService", "idle")
        /\ \E q \in QuickService :
             /\ IF w.id = None THEN q \notin Services ELSE q = w.id
             /\ quickService' = [quickService EXCEPT ![q] =
                  [UpdatedRow(@, w.row) EXCEPT !.active = w.id = None \/ @]]
        /\ Close(r)
        /\ UNCHANGED <<category, product, quickCategory>>

DeactivateService(r, q) ==
    /\ Idle(r)
    /\ q \in Services
    /\ quickService' = [quickService EXCEPT ![q].active = FALSE]
    /\ UNCHANGED <<pc, category, product, quickCategory, cataloguing>>

-----------------------------------------------------------------------------
CatalogueLabel ==
    {"insertCategory", "writeCategory", "insertProduct", "writeProduct", "dropProduct",
     "writeService"}

\* A unique index, a failed statement or a crash ends the request.
AbortCatalogue(r) ==
    /\ pc[r] \in CatalogueLabel
    /\ pc' = [pc EXCEPT ![r] = "idle"]
    /\ Close(r)
    /\ UNCHANGED <<category, product, quickCategory, quickService>>

StartCatalogue(r) ==
    \/ \E n \in Name :
         StartCreateCategory(r, n) \/ \E c \in Category : StartUpdateCategory(r, c, n)
    \/ \E c \in Category : StartDeactivateCategory(r, c)
    \/ \E c \in Category, s \in Code, b \in Code \cup {None}, t \in Text :
         StartCreateProduct(r, Description(c, s, b, t))
    \/ \E p \in Product :
         \/ \E c \in Category \cup {None}, s, b \in Code \cup {None}, t \in Text \cup {None} :
              StartUpdateProduct(r, p, Description(c, s, b, t))
         \/ StartDeactivateProduct(r, p)
    \/ \E c \in QuickCategory :
         \/ \E n \in Name : WriteQuickCategory(r, c, n)
         \/ DeactivateQuickCategory(r, c)
         \/ \E t \in Text : StartService(r, None, c, t)
    \/ \E q \in Services :
         \/ \E c \in QuickCategory \cup {None}, t \in Text \cup {None} : StartService(r, q, c, t)
         \/ DeactivateService(r, q)

CatalogueStep(r) ==
    \/ \E c \in Category : InsertCategory(r, c)
    \/ \E p \in Product : InsertProduct(r, p)
    \/ WriteCategory(r) \/ WriteProduct(r) \/ DropProduct(r) \/ WriteService(r)
    \/ AbortCatalogue(r)

CatalogueInit ==
    /\ category = [c \in Category |-> NoCategory]
    /\ product = [p \in Product |-> NoProduct]
    /\ quickCategory = [c \in QuickCategory |-> NoCategory]
    /\ quickService = [q \in QuickService |-> NoService]
    /\ cataloguing = [r \in Request |-> None]

-----------------------------------------------------------------------------
(* Properties *)

\* However creations and renamings race, no two categories are one and the same
\* once their names are normalised: the pages merge categories by that name.
CategoriesAreDistinct ==
    \A c, d \in Categories :
        normalized[category[c].name] = normalized[category[d].name] => c = d

\* Edits of one product that race both count: what an edit does not state, its
\* isActive included, stays as it is in the table, whatever the handler read.
ProductEditsKeepTheRest ==
    \A r \in Request, p \in Listed :
        pc[r] = "writeProduct" /\ pc'[r] = "idle" /\ cataloguing[r].id = p =>
          LET d == cataloguing[r].row
          IN  /\ product'[p].active = product[p].active
              /\ \A f \in DOMAIN d : d[f] = None => product'[p][f] = product[p][f]
=============================================================================

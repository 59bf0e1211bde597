--------------------------------- MODULE Forms ---------------------------------
(***************************************************************************)
(* The forms of the pages and what becomes of what is entered in them: an  *)
(* entry passes the browser's own validation of the inputs, then the       *)
(* page's checks; what the page and its client service make of it is the   *)
(* body of a request, which passes the server's pipe and is merged with    *)
(* the row; reopened, the form shows the row.                              *)
(*                                                                         *)
(* A form is a record: the values that each input displayed accepts of the *)
(* user, whether the page's checks pass, the body it sends and the DTO of  *)
(* the route.  It depends on the entry e and on the row k being edited,    *)
(* NoRow in a form that creates.  What is entered while a request is under *)
(* way is lost with the form: a request and its answer are one step.       *)
(***************************************************************************)
EXTENDS Pipe, SequencesExt

CONSTANT MaxTouches     \* bound: inputs that the user changes in one history

VARIABLES
    form,       \* the form on display, "" before
    shown,      \* what its inputs show
    edited,     \* the row it edits, as committed
    original,   \* that row when the form opened
    touches,    \* inputs changed
    lookup,     \* the document number looked up and not answered yet, "" for none
    stage,      \* of the form: closed, open, refused, saved
    refused     \* the keys that the server refused

formVars == <<form, shown, edited, original, touches, lookup, stage, refused>>

NoRow == [key \in {} |-> "null"]

-----------------------------------------------------------------------------
(* Inputs and the texts that pages make of them *)

TextInput == {"", " ", "Lenovo"}
RequiredInput == TextInput \ {""}
EmailInput == {"", "ana@site", "ana@site.pe"}
AmountInput == {"", "zero", "half", "one"}
CountInput == {"", "zero", "one"}
PhoneInput == {"", "12345678", "987654321", "51987654321"}
Texts(keys) == [key \in keys |-> TextInput]

\* value ?? '', value.trim() || undefined, Number(value) of a number input.
OrEmpty(v) == IF v = "null" THEN "" ELSE v
OrAbsent(v) == IF Trim(v) = "" THEN "absent" ELSE v
NumberOf(v) == IF v \in Number THEN v ELSE "zero"
Floor(v) == CASE v = "half" -> "zero" [] v = "oneAndHalf" -> "one" [] OTHER -> v
AtLeastOne(v) == IF Twice[v] < 2 THEN "one" ELSE v

\* Prisma skips what is undefined: a new row has null there, another keeps it.
Over(k, data) ==
    IF k = NoRow
    THEN [key \in DOMAIN data |-> IF data[key] = "absent" THEN "null" ELSE data[key]]
    ELSE [key \in DOMAIN k |->
            IF ValueOf(data, key) = "absent" THEN k[key] ELSE data[key]]
-----------------------------------------------------------------------------
(* Customers *)

BlankCustomer ==
    [key \in {"documentNumber", "firstName", "lastName", "businessName", "tradeName",
              "legalRepresentative", "phone", "email", "address", "businessLine", "notes"} |-> ""]
        ++ [customerType |-> "NATURAL", documentType |-> "DNI", isActive |-> "true"]

CustomerForm(e, k) ==
    LET company == e.customerType = "COMPANY"
        routes == CustomersService(e.customerType)
    IN  [inputs |->
            Texts({"phone", "address", "notes"})
            ++ [customerType |-> Enum.customerType, email |-> EmailInput, isActive |-> Boolean]
            ++ IF company
               THEN Texts({"tradeName", "legalRepresentative", "businessLine"})
                    ++ [documentNumber |-> {"12345678", "10456789012"},
                        businessName |-> RequiredInput]
               ELSE [documentType |-> (Enum.documentType \ {"RUC"}) \cup {e.documentType},
                     documentNumber |->
                        IF e.documentType = "DNI" THEN {"12345678"} ELSE Digits \cup {" "},
                     firstName |-> RequiredInput, lastName |-> TextInput],
         checks |->
            IF company
            THEN Len(Trim(e.documentNumber)) = 11 /\ Trim(e.businessName) # ""
            ELSE Trim(e.documentNumber) # "" /\ Trim(e.firstName) # "",
         body |->
            [e EXCEPT !.documentType = IF company THEN "RUC" ELSE @]
            ++ [fullName |-> IF company THEN e.businessName ELSE e.firstName],
         dto |-> IF k = NoRow THEN routes.create ELSE routes.update]

\* Faulty variant: the kind of document and its number stay.
FaultyChangeType(e, type) == [e EXCEPT !.customerType = type]

\* changeType forgets the document.
ChangeType(e, type) ==
    [e EXCEPT !.customerType = type, !.documentNumber = "",
              !.documentType = IF type = "COMPANY" THEN "RUC" ELSE "DNI"]

\* The answer about a document is laid over the form as it is then.
CustomerFound(e, number) ==
    IF number \in DigitsOfLength(11)
    THEN [e EXCEPT !.documentType = "RUC", !.documentNumber = number,
                   !.businessName = "Lenovo", !.address = "Lenovo", !.businessLine = "Lenovo",
                   !.isActive = "true"]
    ELSE [e EXCEPT !.documentType = "DNI", !.documentNumber = number, !.firstName = "Ana",
                   !.lastName = "Ana", !.address = "Ana"]

\* The buttons are enabled for a whole number of the right kind.
CustomerAsks(e) ==
    \/ e.customerType = "COMPANY" /\ e.documentNumber \in DigitsOfLength(11)
    \/ /\ e.customerType = "NATURAL" /\ e.documentType = "DNI"
       /\ e.documentNumber \in DigitsOfLength(8)

\* normalizePayload: names are those of the type, a blank text is undefined.
NormalizeCustomer(body) ==
    LET natural == body.customerType = "NATURAL"
        For(type, v) == IF type THEN Trim(v) ELSE "absent"
    IN  [key \in {"tradeName", "legalRepresentative", "phone", "email", "address",
                  "businessLine", "notes"} |-> OrAbsent(body[key])]
        ++ [firstName |-> For(natural, body.firstName),
            lastName |-> For(natural, body.lastName),
            businessName |-> For(~natural, body.businessName)]
        ++ [key \in {"customerType", "documentType", "documentNumber", "isActive"} |->
                Trim(body[key])]
StoredCustomer(k, body) == Over(k, NormalizeCustomer(body))

-----------------------------------------------------------------------------
(* Suppliers *)

SupplierText ==
    {"address", "department", "province", "district", "reference", "contactName",
     "contactRole", "sunatStatus", "sunatCondition", "notes"}
BlankSupplier == [key \in SupplierText \cup {"name", "ruc", "phone", "whatsapp", "email"} |-> ""]

\* normalizePhone: digits, with the country's prefix.
NormalizePhone(v) == IF v = "987654321" THEN "51987654321" ELSE Trim(v)

\* cleanPayload leaves out what is empty.
CleanPayload(body) == [key \in DOMAIN body |-> IF body[key] = "" THEN "absent" ELSE body[key]]

SupplierForm(e, k) ==
    LET sends == [e EXCEPT !.phone = NormalizePhone(@), !.whatsapp = NormalizePhone(@)]
    IN  [inputs |->
            Texts(SupplierText)
            ++ [name |-> {" ", "x", "HP"}, ruc |-> {"", "12345678", "10456789012"},
                phone |-> PhoneInput, whatsapp |-> PhoneInput,
                email |-> {"", "ana@site", "a@b.c", "ana@site.pe"}],
         checks |->
            /\ Len(Trim(e.name)) >= 2
            /\ e.ruc = "" \/ Len(e.ruc) = 11
            /\ e.email \notin {"ana@site"}
            /\ {sends.phone, sends.whatsapp} \subseteq {"", "51987654321"},
         body |-> CleanPayload(sends),
         dto |-> IF k = NoRow THEN SuppliersService.create ELSE SuppliersService.update]

\* The button needs eleven digits.
SupplierAsks(e) == e.ruc \in DigitsOfLength(11)

SupplierFound(e, number) ==
    [key \in DOMAIN e |->
        CASE key = "ruc" -> number
          [] key \in {"name", "address", "department", "province", "district", "sunatStatus",
                      "sunatCondition"} -> "Lenovo"
          [] OTHER -> e[key]]

\* A line of the catalogue that a supplier's form sends along.  The list of
\* products to choose from is asked for with a limit of two hundred.
BlankLine ==
    [productId |-> "", name |-> "", category |-> "", unit |-> "Lenovo", supplierSku |-> "",
     referencePrice |-> "absent", minOrderQuantity |-> "one", deliveryTime |-> "",
     availability |-> "Lenovo", notes |-> "", isPreferred |-> "false", isActive |-> "true"]

SupplierLineForm(e, k) ==
    [inputs |->
        Texts({"name", "supplierSku", "deliveryTime", "notes"})
        ++ [key \in {"unit", "availability"} |-> {"Lenovo"}]
        ++ [category |-> {"", "Lenovo"},
            referencePrice |-> (AmountInput \ {""}) \cup {"absent"},
            minOrderQuantity |-> {"one", "ten"}, isPreferred |-> Boolean, isActive |-> Boolean],
     checks |->
        /\ e.productId # "" \/ Trim(e.name) # ""
        /\ Trim(e.category) # "" /\ Trim(e.unit) # "",
     body |->
        [key \in DOMAIN e |->
            CASE key = "productId" -> OrAbsent(e[key])
              [] key = "minOrderQuantity" -> AtLeastOne(e[key])
              [] OTHER -> Trim(e[key])],
     dto |-> SuppliersService.addProduct]

-----------------------------------------------------------------------------
(* Products *)

ProductText == {"description", "barcode", "brand", "model", "warranty", "recommendedUse", "salesNotes"}
BlankProduct ==
    [key \in ProductText \cup {"name", "sku"} |-> ""]
        ++ [imageUrl |-> "null", technicalSpecs |-> "{}", categoryId |-> "id",
            purchasePrice |-> "zero", salePrice |-> "zero", stock |-> "zero",
            minStock |-> "zero", unit |-> "Lenovo"]

\* The stock is on display, disabled, and sent all the same when a product is
\* edited.  The picture of the product's name takes the place of none.
ProductForm(e, k) ==
    [inputs |->
        Texts(ProductText)
        ++ [key \in {"name", "sku", "unit"} |-> RequiredInput]
        ++ [key \in {"purchasePrice", "salePrice"} |-> AmountInput \ {""}]
        ++ [imageUrl |-> Picture \cup {"null"}, technicalSpecs |-> {"{}"}, categoryId |-> Key,
            minStock |-> {"zero", "one"}]
        ++ (IF k = NoRow THEN [stock |-> {"zero", "one"}] ELSE NoRow),
     checks |-> TRUE,
     body |->
        [key \in DOMAIN e |->
            CASE key \in ProductText -> OrAbsent(e[key])
              [] key = "imageUrl" /\ e.imageUrl = "null" -> "/images/x.png"
              [] key \in {"stock", "minStock"} -> Floor(NumberOf(e[key]))
              [] key \in {"purchasePrice", "salePrice"} -> NumberOf(e[key])
              [] OTHER -> e[key]],
     dto |-> IF k = NoRow THEN InventoryService.createProduct ELSE InventoryService.updateProduct]

\* normalizeProductPayload: a blank text is undefined, be it a required one.
StoredProduct(k, body) ==
    Over(k, [key \in DOMAIN body |->
                IF key \in ProductText \cup {"name", "sku", "unit"}
                THEN OrAbsent(body[key]) ELSE body[key]])

\* A correction takes what there is to the number counted.
AdjustStockForm(e, k) ==
    LET quantity == NumberOf(e.quantity)
    IN  [inputs |-> [type |-> Enum.adjustment, quantity |-> CountInput \ {""},
                     reason |-> {" ", "Ana", "Lenovo"}],
         checks |->
            /\ Twice[quantity] > 0
            /\ Len(Trim(e.reason)) >= 5
            /\ ~(e.type = "OUT" /\ Twice[quantity] > Twice[k.stock]),
         body |-> [type |-> e.type, quantity |-> quantity, reason |-> Trim(e.reason)],
         dto |-> InventoryService.adjustStock]

-----------------------------------------------------------------------------
(* Cash *)

\* An amount left empty is Number(''), zero.
OpenCashForm(e, k) ==
    [inputs |-> [openingAmount |-> AmountInput, notes |-> TextInput],
     checks |-> TRUE,
     body |-> [openingAmount |-> NumberOf(e.openingAmount), notes |-> OrAbsent(e.notes)],
     dto |-> CashService.open]

CloseCashForm(e, k) ==
    [inputs |-> [realCashAmount |-> AmountInput, notes |-> TextInput],
     checks |-> TRUE,
     body |-> [realCashAmount |-> NumberOf(e.realCashAmount), notes |-> OrAbsent(e.notes)],
     dto |-> CashService.close]

CashMovementForm(e, k) ==
    [inputs |->
        Texts({"reference", "notes"})
        ++ [type |-> {"INCOME", "EXPENSE", "ADJUSTMENT"}, paymentMethod |-> Enum.method \ {"MIXED"},
            concept |-> TextInput \cup {"HP"}, amount |-> {"", "half", "one"}],
     checks |-> Trim(e.concept) # "" /\ Twice[NumberOf(e.amount)] > 0,
     body |->
        [type |-> e.type, paymentMethod |-> e.paymentMethod, concept |-> Trim(e.concept),
         amount |-> NumberOf(e.amount), reference |-> OrAbsent(e.reference),
         notes |-> OrAbsent(e.notes)],
     dto |-> CashService.createMovement]


-----------------------------------------------------------------------------
(* Service orders *)

OrderText ==
    {"equipmentType", "brand", "model", "serialNumber", "color", "physicalCondition",
     "accessoriesReceived", "initialDiagnosis", "receptionNotes"}
BlankOrder ==
    [key \in OrderText \cup {"customerId", "reportedIssue", "estimatedDeliveryDate", "notes"} |-> ""]
        ++ [photos |-> "[]"]

ServiceOrderForm(e, k) ==
    [inputs |->
        Texts(OrderText)
        ++ [customerId |-> {"", "id"}, reportedIssue |-> {"", "Lenovo", "password"},
            estimatedDeliveryDate |-> {""} \cup Date, photos |-> List],
     checks |->
        /\ e.customerId # ""
        /\ \A key \in {"equipmentType", "brand", "model"} : Trim(e[key]) # ""
        /\ Len(Trim(e.reportedIssue)) >= 8,
     body |-> CleanPayload(e),
     dto |-> ServiceOrdersService.create]

\* A blank text is undefined; the diagnosis fills the other columns.
StoredOrder(k, body) ==
    Over(k, [key \in DOMAIN body |-> OrAbsent(body[key])])
        ++ [technicalDiagnosis |-> "null", solutionApplied |-> "null", laborCost |-> "zero",
            discount |-> "zero"]

\* A picture of two megabytes at most; it may be empty.
PhotoForm(e, k) ==
    [inputs |-> [sizeBytes |-> {"zero", "thousand"}], checks |-> TRUE,
     body |->
        [imageData |-> "Lenovo", fileName |-> "Lenovo", mimeType |-> "/images/x.png",
         sizeBytes |-> e.sizeBytes],
     dto |-> ServiceOrderPhotoDto]

BlankDiagnosis ==
    [key \in {"technicalDiagnosis", "solutionApplied", "laborCost", "discount", "notes"} |-> ""]

TechnicalDiagnosisForm(e, k) ==
    [inputs |->
        Texts({"technicalDiagnosis", "solutionApplied", "notes"})
        ++ [key \in {"laborCost", "discount"} |-> AmountInput],
     checks |-> TRUE,
     body |->
        [technicalDiagnosis |-> Trim(e.technicalDiagnosis),
         solutionApplied |-> Trim(e.solutionApplied), laborCost |-> NumberOf(e.laborCost),
         discount |-> NumberOf(e.discount), notes |-> OrAbsent(e.notes)],
     dto |-> ServiceOrdersService.update]

\* A part: one unit of the product chosen is left.
OrderItemForm(e, k) ==
    LET quantity == IF e.quantity = "" THEN "zero" ELSE e.quantity
    IN  [inputs |->
            [productId |-> {"", "id"}, description |-> RequiredInput,
             quantity |-> {"", "one", "ten"}, unitPrice |-> AmountInput],
         checks |->
            /\ Trim(e.description) # "" /\ quantity # "zero"
            /\ e.productId = "id" => Twice["one"] >= Twice[quantity],
         body |->
            [productId |-> OrAbsent(e.productId), description |-> Trim(e.description),
             quantity |-> quantity, unitPrice |-> NumberOf(e.unitPrice)],
         dto |-> ServiceOrdersService.addItem]

\* A product chosen gives its name and price; none leaves them.
SelectPart(e, id) ==
    [e EXCEPT !.productId = id,
              !.description = IF id = "" THEN @ ELSE "Lenovo",
              !.unitPrice = IF id = "" THEN @ ELSE "one"]

OrderStatusForm(e, k) ==
    [inputs |-> [status |-> {"DIAGNOSIS", "IN_PROGRESS", "READY"}, comment |-> TextInput],
     checks |-> TRUE,
     body |-> [e EXCEPT !.comment = OrAbsent(@)],
     dto |-> ServiceOrdersService.changeStatus]

\* A prompt, which goes on with any text that is not empty.
CancelOrderForm(e, k) ==
    [inputs |-> [reason |-> TextInput], checks |-> e.reason # "", body |-> e,
     dto |-> ServiceOrdersService.cancel]

-----------------------------------------------------------------------------
(* Quick services *)

ServiceCategoryForm(e, k) ==
    [inputs |-> [name |-> TextInput],
     checks |-> Trim(e.name) # "",
     body |-> [name |-> Trim(e.name)],
     dto |->
        IF k = NoRow
        THEN QuickServicesService.createCategory ELSE QuickServicesService.updateCategory]

\* A number input emptied is zero at once; the description is not on display.
BlankQuickService ==
    [name |-> "", categoryId |-> "", unit |-> "Lenovo", unitPrice |-> "zero",
     costPrice |-> "zero", description |-> ""]

QuickServiceForm(e, k) ==
    LET new == k = NoRow
        cost == NumberOf(e.costPrice)
    IN  [inputs |->
            Texts({"name", "unit"})
            ++ [key \in {"unitPrice", "costPrice"} |-> AmountInput \ {""}]
            ++ [categoryId |-> IF new THEN {"", "id"} ELSE {"id"}],
         checks |->
            /\ Trim(e.name) # ""
            /\ new => e.categoryId # "" /\ Twice[e.unitPrice] > 0,
         body |->
            [e EXCEPT !.name = Trim(@),
                      !.costPrice = IF new /\ cost = "zero" THEN "absent" ELSE cost,
                      !.description = IF new THEN OrAbsent(@) ELSE @],
         dto |->
            IF new THEN QuickServicesService.createService ELSE QuickServicesService.updateService]

\* The cart holds one service, worth one.
QuickSaleForm(e, k) ==
    [inputs |->
        [customerId |-> {"", "id"}, paymentMethod |-> Enum.method \ {"MIXED"},
         paymentReference |-> TextInput, discount |-> {"", "zero", "half", "one", "ten"}],
     checks |->
        /\ Twice[NumberOf(e.discount)] <= Twice["one"]
        /\ e.paymentMethod # "CASH" => Trim(e.paymentReference) # "",
     body |->
        [customerId |-> OrAbsent(e.customerId), items |-> "[_]",
         discount |-> NumberOf(e.discount), paymentMethod |-> e.paymentMethod,
         paymentReference |-> e.paymentReference],
     dto |-> QuickServicesService.createSale]

\* A line of the cart: a quantity that is not whole is sent as it is.
QuickItemForm(e, k) ==
    [inputs |-> [quantity |-> {"", "half", "one", "oneAndHalf", "ten"}],
     checks |-> TRUE,
     body |-> [quickServiceId |-> "id", quantity |-> AtLeastOne(NumberOf(e.quantity))],
     dto |-> QuickServiceSaleItemDto]

-----------------------------------------------------------------------------
(* Point of sale *)

\* The cart and the payments are lists, with forms of their own.
SaleForm(e, k) ==
    [inputs |-> [customerId |-> {"", "id"}], checks |-> TRUE,
     body |-> [customerId |-> OrAbsent(e.customerId), items |-> "[_]", payments |-> "[_]"],
     dto |-> PosService.createSale]

\* updateQuantity: a whole number, one at least.
SaleItemForm(e, k) ==
    [inputs |-> [quantity |-> {"", "half", "one", "oneAndHalf", "ten"}],
     checks |-> TRUE,
     body |->
        [productId |-> "id", itemType |-> "PRODUCT", discount |-> "zero",
         quantity |-> AtLeastOne(Floor(NumberOf(e.quantity)))],
     dto |-> SaleItemDto]

\* The only payment of a sale of one: all is to be paid.
PaymentForm(e, k) ==
    [inputs |->
        [method |-> Enum.method \ {"MIXED"}, amount |-> AmountInput, reference |-> TextInput],
     checks |->
        /\ Twice[NumberOf(e.amount)] >= Twice["one"]
        /\ e.method # "CASH" => Trim(e.reference) # "",
     body |-> [e EXCEPT !.amount = NumberOf(@), !.reference = Trim(@)],
     dto |-> PaymentDto]

\* A receipt goes to a telephone; its link may go to none.
ReceiptPhone(v) == Len(NormalizePhone(v)) >= 11

ReceiptForm(e, k) ==
    [inputs |-> [phone |-> PhoneInput], checks |-> ReceiptPhone(e.phone),
     body |-> [type |-> "SALE", id |-> "id", phone |-> e.phone],
     dto |-> WhatsappReceiptService.sendReceipt]

ReceiptLinkForm(e, k) ==
    [inputs |-> [phone |-> PhoneInput], checks |-> TRUE,
     body |->
        [type |-> "SALE", id |-> "id", phone |-> IF ReceiptPhone(e.phone) THEN e.phone ELSE "absent"],
     dto |-> WhatsappReceiptService.createReceiptLink]

-----------------------------------------------------------------------------
(* Users and sessions *)

BlankUser == [fullName |-> "", email |-> "", roleId |-> "uuid", password |-> ""]

UserForm(e, k) ==
    [inputs |->
        [fullName |-> RequiredInput \cup {"x"}, email |-> EmailInput \ {""}, roleId |-> {"uuid"}]
        ++ (IF k = NoRow THEN [password |-> {"password"}] ELSE NoRow),
     checks |-> TRUE,
     body |-> [e EXCEPT !.password = IF @ = "" THEN "absent" ELSE @],
     dto |-> IF k = NoRow THEN UsersService.create ELSE UsersService.update]

\* The password is kept apart, hashed: update() leaves it out.
StoredUser(k, body) == Over(k, Omit(body, "password"))

ChangePasswordForm(e, k) ==
    [inputs |-> [password |-> {"password"}], checks |-> TRUE, body |-> e,
     dto |-> UsersService.changePassword]

LoginForm(e, k) ==
    [inputs |-> [email |-> EmailInput, password |-> {"", " ", "x", "password"}],
     checks |-> Trim(e.email) # "" /\ Trim(e.password) # "",
     body |-> [e EXCEPT !.email = Trim(@)],
     dto |-> AuthService.login]

-----------------------------------------------------------------------------
(* Settings *)

BusinessRow ==
    [key \in {"businessName", "ruc", "phone", "address", "currency"} |-> "Lenovo"]
        ++ [id |-> "id", email |-> "ana@site.pe", logoUrl |-> "null", applyIgv |-> "false", taxPercentage |-> "ten",
            createdAt |-> "2026-07-01", updatedAt |-> "2026-07-01"]

\* The percentage cannot be changed while the tax is not applied.
TaxForm(e, k) ==
    [inputs |->
        [applyIgv |-> Boolean,
         taxPercentage |->
            IF e.applyIgv = "true" THEN {"zero", "ten", "hundred"} ELSE {e.taxPercentage}],
     checks |-> TRUE,
     body |-> e,
     dto |-> SettingsService.updateTax]

\* The whole row is sent back.
BusinessForm(e, k) ==
    [inputs |-> Texts({"businessName", "ruc", "phone", "address"}) ++ [email |-> EmailInput],
     checks |-> TRUE,
     body |-> e,
     dto |-> SettingsService.updateBusiness]

-----------------------------------------------------------------------------
(* Receptions, cancellations and other short forms *)

BlankPurchase ==
    [supplierId |-> "", discount |-> "zero", paymentStatus |-> "PENDING", paymentMethod |-> "CASH",
     reference |-> "", expectedDate |-> "", payFromCash |-> "false", notes |-> ""]

PurchaseOrderForm(e, k) ==
    [inputs |->
        Texts({"reference", "notes"})
        ++ [supplierId |-> {"", "id"}, discount |-> AmountInput \ {""},
            paymentStatus |-> {"PENDING", "PAID", "PARTIAL"}, expectedDate |-> {""} \cup Date,
            paymentMethod |->
                IF e.paymentStatus = "PENDING"
                THEN {e.paymentMethod} ELSE Enum.method \ {"MIXED"},
            payFromCash |-> Boolean],
     checks |-> e.supplierId # "" /\ (e.payFromCash = "true" => e.paymentStatus = "PAID"),
     body |->
        [key \in {"reference", "expectedDate", "notes"} |-> OrAbsent(e[key])]
        ++ [e EXCEPT !.paymentMethod = IF e.paymentStatus = "PENDING" THEN "absent" ELSE @]
        ++ [items |-> "[_]"],
     dto |-> PurchasesService.create]

PurchaseItemForm(e, k) ==
    [inputs |-> [quantity |-> {"one", "ten"}, unitCost |-> AmountInput \ {""}],
     checks |-> TRUE,
     body |-> [productId |-> "id"] ++ e,
     dto |-> PurchaseOrderItemDto]

\* The only line is received or not; lines of which nothing came are left out.
ReceiveForm(e, k) ==
    [inputs |-> [received |-> {"zero", "one"}, notes |-> TextInput],
     checks |-> TRUE,
     body |-> [items |-> IF e.received = "zero" THEN "[]" ELSE "[_]", notes |-> e.notes],
     dto |-> PurchasesService.receive]

ReceiveItemForm(e, k) ==
    [inputs |-> [receivedQuantity |-> {"zero", "one", "ten"}],
     checks |-> e.receivedQuantity # "zero",
     body |-> [itemId |-> "id"] ++ e,
     dto |-> ReceivePurchaseItemDto]

\* Faulty variant: any reason will do.
FaultyCancelForm(e, dto) ==
    [inputs |-> [reason |-> RequiredInput], checks |-> TRUE, body |-> e, dto |-> dto]

\* Five characters at least, says the browser.
Reason == {"Lenovo", "password"}
CancelForm(e, dto) == [inputs |-> [reason |-> Reason], checks |-> TRUE, body |-> e, dto |-> dto]
CancelPurchaseForm(e, k) == CancelForm(e, PurchasesService.cancel)
CancelSaleForm(e, k) == CancelForm(e, SalesService.cancel)
CancelQuickSaleForm(e, k) == CancelForm(e, QuickServicesService.cancel)

ProductCategoryForm(e, k) ==
    [inputs |-> [name |-> RequiredInput, description |-> TextInput],
     checks |-> TRUE,
     body |-> e,
     dto |-> InventoryService.createCategory]

\* An amount that is no number goes as null.
PaymentLinkForm(e, k) ==
    [inputs |-> [amount |-> AmountInput \cup {"Lenovo"}, description |-> TextInput],
     checks |-> e.amount # "" /\ Trim(e.description) # "",
     body |-> [e EXCEPT !.amount = IF @ \in Number THEN @ ELSE "null"],
     dto |-> PaymentsService.createLink]

AiQuestionForm(e, k) ==
    [inputs |-> [question |-> {"", " ", "x", "Lenovo"}],
     checks |-> Trim(e.question) # "",
     body |-> [question |-> Trim(e.question)],
     dto |-> AiAnalyticsService.ask]

-----------------------------------------------------------------------------
(* What the lists ask for: a search or filters are a form of their own.     *)

FilterForm(inputs, query, dto) == [inputs |-> inputs, checks |-> TRUE, body |-> query, dto |-> dto]
OrAll(S) == S \cup {""}

SalesQuery(e, k) ==
    FilterForm([search |-> TextInput, status |-> OrAll(Enum.saleStatus)],
               CleanPayload(e) ++ [page |-> "one", limit |-> "ten"], SalesService.findAll)
CustomersQuery(e, k) ==
    FilterForm([search |-> TextInput, customerType |-> OrAll(Enum.customerType),
                isActive |-> OrAll(Boolean)],
               [search |-> e.search, page |-> "one", limit |-> "hundred",
                customerType |-> OrAbsent(e.customerType), isActive |-> OrAbsent(e.isActive)],
               CustomersService("NATURAL").findAll)
ProductsQuery(e, k) ==
    FilterForm(NoRow, [page |-> "one", limit |-> "hundred"], InventoryService.findProducts)
SupplierProductsQuery(e, k) ==
    FilterForm(NoRow, [page |-> "one", limit |-> "thousand"], InventoryService.findProducts)
ServiceOrdersQuery(e, k) ==
    FilterForm([search |-> TextInput, status |-> OrAll(Enum.orderStatus)],
               CleanPayload(e) ++ [page |-> "one", limit |-> "ten"],
               ServiceOrdersService.findAll)
PurchasesQuery(e, k) ==
    FilterForm([search |-> TextInput, status |-> OrAll(Enum.purchaseStatus)],
               [search |-> e.search, status |-> OrAbsent(e.status), limit |-> "ten"],
               PurchasesService.findAll)
SuppliersQuery(e, k) ==
    FilterForm([search |-> TextInput], [search |-> e.search, limit |-> "ten"],
               SuppliersService.findAll)
CashQuery(e, k) ==
    FilterForm([type |-> OrAll(Enum.movement), paymentMethod |-> OrAll(Enum.method \ {"MIXED"})],
               [key \in DOMAIN e |-> OrAbsent(e[key])], CashService.movements)
NotificationsQuery(e, k) == FilterForm(NoRow, [limit |-> "ten"], NotificationsService.findAll)
AuditQuery(e, k) ==
    FilterForm(Texts({"module", "action"}) ++ [key \in {"startDate", "endDate"} |-> OrAll(Date)],
               CleanPayload(e), AuditService.findAll)
ProfitabilityQuery(e, k) ==
    FilterForm([key \in {"startDate", "endDate"} |-> OrAll(Date)], CleanPayload(e),
               ProfitabilityService.summary)

\* One set of filters for all the reports; the status is a free text.
ReportsQuery(e, k) ==
    FilterForm([key \in {"startDate", "endDate"} |-> OrAll(Date)]
                    ++ [paymentMethod |-> OrAll(Enum.method \ {"MIXED"}), search |-> TextInput,
                        status |-> {"", "Lenovo", "COMPLETED", "READY", "CANCELLED"}],
               CleanPayload(e), ReportsService.sales)

-----------------------------------------------------------------------------
(* The forms by name *)

Blanks(keys) == [key \in keys |-> ""]

\* What a form shows that is opened to create.
Blank ==
    [customer |-> BlankCustomer, supplier |-> BlankSupplier, supplierLine |-> BlankLine,
     product |-> BlankProduct, serviceOrder |-> BlankOrder, diagnosis |-> BlankDiagnosis,
     quickService |-> BlankQuickService, user |-> BlankUser,
     serviceCategory |-> Blanks({"name"}),
     adjustStock |-> [type |-> "IN", quantity |-> "", reason |-> ""],
     openCash |-> Blanks({"openingAmount", "notes"}),
     closeCash |-> Blanks({"realCashAmount", "notes"}),
     cashMovement |->
        [type |-> "INCOME", paymentMethod |-> "CASH", concept |-> "", amount |-> "",
         reference |-> "", notes |-> ""],
     orderItem |-> [productId |-> "", description |-> "", quantity |-> "one", unitPrice |-> ""],
     orderStatus |-> [status |-> "DIAGNOSIS", comment |-> ""],
     quickSale |->
        [customerId |-> "", paymentMethod |-> "CASH", paymentReference |-> "",
         discount |-> "zero"],
     password |-> Blanks({"password"}), login |-> Blanks({"email", "password"}),
     tax |-> [applyIgv |-> "false", taxPercentage |-> "ten"], business |-> BusinessRow,
     receive |-> [received |-> "one", notes |-> ""], receiveItem |-> [receivedQuantity |-> "one"],
     purchase |-> BlankPurchase, purchaseItem |-> [quantity |-> "one", unitCost |-> "one"],
     sale |-> Blanks({"customerId"}), payment |-> [method |-> "CASH", amount |-> "", reference |-> ""],
     receipt |-> Blanks({"phone"}), receiptLink |-> Blanks({"phone"}),
     photo |-> [sizeBytes |-> "thousand"],
     category |-> Blanks({"name", "description"}),
     paymentLink |-> Blanks({"amount", "description"}), question |-> Blanks({"question"}),
     customers |-> Blanks({"search", "customerType", "isActive"}),
     suppliers |-> Blanks({"search"}), cash |-> Blanks({"type", "paymentMethod"}),
     audit |-> Blanks({"module", "action", "startDate", "endDate"}),
     profitability |-> Blanks({"startDate", "endDate"}),
     reports |-> Blanks({"startDate", "endDate", "paymentMethod", "search", "status"})]
        ++ [f \in {"cancelOrder", "cancelPurchase", "cancelSale", "cancelQuickSale"} |->
                Blanks({"reason"})]
        ++ [f \in {"saleItem", "quickItem"} |-> [quantity |-> "one"]]
        ++ [f \in {"sales", "orders", "purchases"} |-> Blanks({"search", "status"})]
        ++ [f \in {"products", "supplierProducts", "notifications"} |-> NoRow]

FormOf(f, e, k) ==
    CASE f = "customer" -> CustomerForm(e, k)
      [] f = "supplier" -> SupplierForm(e, k)
      [] f = "supplierLine" -> SupplierLineForm(e, k)
      [] f = "product" -> ProductForm(e, k)
      [] f = "adjustStock" -> AdjustStockForm(e, k)
      [] f = "category" -> ProductCategoryForm(e, k)
      [] f = "openCash" -> OpenCashForm(e, k)
      [] f = "closeCash" -> CloseCashForm(e, k)
      [] f = "cashMovement" -> CashMovementForm(e, k)
      [] f = "serviceOrder" -> ServiceOrderForm(e, k)
      [] f = "diagnosis" -> TechnicalDiagnosisForm(e, k)
      [] f = "orderItem" -> OrderItemForm(e, k)
      [] f = "orderStatus" -> OrderStatusForm(e, k)
      [] f = "cancelOrder" -> CancelOrderForm(e, k)
      [] f = "serviceCategory" -> ServiceCategoryForm(e, k)
      [] f = "quickService" -> QuickServiceForm(e, k)
      [] f = "quickSale" -> QuickSaleForm(e, k)
      [] f = "user" -> UserForm(e, k)
      [] f = "password" -> ChangePasswordForm(e, k)
      [] f = "login" -> LoginForm(e, k)
      [] f = "tax" -> TaxForm(e, k)
      [] f = "business" -> BusinessForm(e, k)
      [] f = "photo" -> PhotoForm(e, k)
      [] f = "quickItem" -> QuickItemForm(e, k)
      [] f = "sale" -> SaleForm(e, k)
      [] f = "saleItem" -> SaleItemForm(e, k)
      [] f = "payment" -> PaymentForm(e, k)
      [] f = "receipt" -> ReceiptForm(e, k)
      [] f = "receiptLink" -> ReceiptLinkForm(e, k)
      [] f = "purchase" -> PurchaseOrderForm(e, k)
      [] f = "purchaseItem" -> PurchaseItemForm(e, k)
      [] f = "receive" -> ReceiveForm(e, k)
      [] f = "receiveItem" -> ReceiveItemForm(e, k)
      [] f = "cancelPurchase" -> CancelPurchaseForm(e, k)
      [] f = "cancelSale" -> CancelSaleForm(e, k)
      [] f = "cancelQuickSale" -> CancelQuickSaleForm(e, k)
      [] f = "paymentLink" -> PaymentLinkForm(e, k)
      [] f = "question" -> AiQuestionForm(e, k)
      [] f = "sales" -> SalesQuery(e, k)
      [] f = "customers" -> CustomersQuery(e, k)
      [] f = "products" -> ProductsQuery(e, k)
      [] f = "supplierProducts" -> SupplierProductsQuery(e, k)
      [] f = "orders" -> ServiceOrdersQuery(e, k)
      [] f = "purchases" -> PurchasesQuery(e, k)
      [] f = "suppliers" -> SuppliersQuery(e, k)
      [] f = "cash" -> CashQuery(e, k)
      [] f = "notifications" -> NotificationsQuery(e, k)
      [] f = "audit" -> AuditQuery(e, k)
      [] f = "profitability" -> ProfitabilityQuery(e, k)
      [] f = "reports" -> ReportsQuery(e, k)

\* What a form shows of a row.
Shown(f, k) ==
    LET Of(key) == IF key \in DOMAIN k THEN OrEmpty(k[key]) ELSE Blank[f][key]
    IN  CASE f = "business" -> k
          [] f = "adjustStock" -> Blank[f]
          [] f = "product" -> [imageUrl |-> k.imageUrl] ++ [key \in DOMAIN Blank[f] |-> Of(key)]
          [] f = "quickService" ->
                [costPrice |-> NumberOf(k.costPrice)] ++ [key \in DOMAIN Blank[f] |-> Of(key)]
          [] f = "diagnosis" ->
                [key \in DOMAIN Blank[f] |-> IF k[key] = "zero" THEN "" ELSE Of(key)]
          [] OTHER -> [key \in DOMAIN Blank[f] |-> Of(key)]

\* The forms that make or edit a row, and what their handlers make of it.
RowForm ==
    {"customer", "supplier", "product", "serviceOrder", "diagnosis", "serviceCategory",
     "quickService", "user", "tax", "business"}
Stored(f, k, body) ==
    CASE f = "customer" -> StoredCustomer(k, body)
      [] f = "product" -> StoredProduct(k, body)
      [] f = "serviceOrder" -> StoredOrder(k, body)
      [] f = "user" -> StoredUser(k, body)
      [] f \in RowForm \ {"customer", "product", "serviceOrder", "user"} -> Over(k, body)
      [] OTHER -> k

\* What a handler, or the database, refuses of what the pipe let through.
HandlerComplaints(f, k, body, isAdmin) ==
    LET Blanked(keys) == {key \in keys : Trim(body[key]) = ""}
    IN  CASE f = "customer" ->
                Blanked({"documentNumber", "fullName"})
                    \cup {key \in {"documentNumber"} :
                            body.customerType = "COMPANY" /\ Len(body[key]) # 11}
          [] f = "product" /\ k = NoRow -> Blanked({"name", "sku", "unit"})
          [] f = "diagnosis" /\ ~isAdmin -> {"laborCost", "discount"}
          [] f = "reports" ->
                {key \in {"status"} : ValueOf(body, key) \notin {"absent", "CANCELLED"}}
          [] OTHER -> {}

-----------------------------------------------------------------------------
(* A history of forms *)

FormsInit ==
    /\ form = "" /\ shown = NoRow /\ edited = NoRow /\ original = NoRow
    /\ touches = 0 /\ lookup = "" /\ stage = "closed" /\ refused = {}

Opens(f, k) ==
    /\ form' = f /\ edited' = k /\ original' = k
    /\ shown' = IF k = NoRow THEN Blank[f] ELSE Shown(f, k)
    /\ stage' = "open" /\ lookup' = "" /\ refused' = {}
    /\ UNCHANGED touches

\* A page shows a form, of the row that there always is or to create one.
OpenForm ==
    /\ stage = "closed"
    /\ \E f \in DOMAIN Blank \ {"diagnosis", "adjustStock"} :
        Opens(f, IF f \in {"tax", "business"} THEN Blank[f] ELSE NoRow)

\* The forms that edit the row just saved.
Following ==
    [product |-> {"product", "adjustStock"}, serviceOrder |-> {"diagnosis"}]
        ++ [f \in RowForm |-> {f}] ++ [f \in DOMAIN Blank |-> {}]
EditSaved ==
    /\ stage = "saved"
    /\ \E f \in Following[form] : Opens(f, edited)

Displayed == FormOf(form, shown, edited)

\* The user answers all that is on display as users do, or what is called for.
Preference ==
    <<"password", "ana@site.pe", "51987654321", "Lenovo", "HP", "10456789012", "12345678",
      "2026-07-01", "one", "id", "uuid", "[_]", "/images/x.png">>
Needed ==
    {"email", "customerId", "categoryId", "equipmentType", "brand", "model", "reportedIssue",
     "name", "category", "concept", "amount", "quantity", "reason", "question", "description",
     "unitPrice", "password", "fullName", "firstName", "businessName", "documentNumber"}
FilledIn(accepts, brief) ==
    LET Likely(key) == {i \in DOMAIN Preference : Preference[i] \in accepts[key]}
    IN  [key \in {key \in DOMAIN accepts : (brief => key \in Needed) /\ Likely(key) # {}} |->
            Preference[Min(Likely(key))]]
        ++ shown
FillIn ==
    /\ stage = "open" /\ original = NoRow
    /\ \E brief \in BOOLEAN : shown' = FilledIn(Displayed.inputs, brief)
    /\ shown' # shown
    /\ UNCHANGED <<form, edited, original, touches, lookup, stage, refused>>

\* The user changes one input; a type of customer and a part bring others.
OneChanged(accepts) ==
    \E key \in DOMAIN accepts : \E v \in accepts[key] \ {shown[key]} :
        shown' =
            CASE form = "customer" /\ key = "customerType" -> ChangeType(shown, v)
              [] form = "orderItem" /\ key = "productId" -> SelectPart(shown, v)
              [] OTHER -> [shown EXCEPT ![key] = v]
Touch ==
    /\ stage \in {"open", "refused"}
    /\ touches < MaxTouches
    /\ OneChanged(Displayed.inputs)
    /\ touches' = touches + 1
    /\ stage' = "open" /\ refused' = {}
    /\ UNCHANGED <<form, edited, original, lookup>>

\* A document number goes to the server, by its length.
AskFor(number) ==
    LET all ==
            IF Len(number) = 11
            THEN Complaints(DocumentLookupService.lookupRuc, [ruc |-> number])
            ELSE Complaints(DocumentLookupService.lookupDni, [dni |-> number])
    IN  /\ refused' = all
        /\ stage' = IF all = {} THEN "open" ELSE "refused"
        /\ lookup' = IF all = {} THEN number ELSE ""

LookUp ==
    /\ stage = "open" /\ lookup = ""
    /\ \/ form = "customer" /\ CustomerAsks(shown) /\ AskFor(shown.documentNumber)
       \/ form = "supplier" /\ SupplierAsks(shown) /\ AskFor(shown.ruc)
    /\ UNCHANGED <<form, shown, edited, original, touches>>

\* What is known of the number, or nothing, comes to the form as it is by then.
LookUpAnswer ==
    /\ stage \in {"open", "refused"} /\ lookup # ""
    /\ \/ shown' =
            IF form = "customer" THEN CustomerFound(shown, lookup) ELSE SupplierFound(shown, lookup)
       \/ UNCHANGED shown
    /\ lookup' = ""
    /\ UNCHANGED <<form, edited, original, touches, stage, refused>>

\* The form is submitted if the browser and the page let it, and answered.
LetThrough(sent) ==
    (\A key \in DOMAIN sent.inputs : shown[key] \in sent.inputs[key]) /\ sent.checks
RefusedOf(body, piped, isAdmin) ==
    IF piped # {} THEN piped ELSE HandlerComplaints(form, edited, body, isAdmin)
ServerAnswers(body, all) ==
    /\ refused' = all
    /\ stage' = IF all = {} THEN "saved" ELSE "refused"
    /\ edited' = IF all = {} THEN Stored(form, edited, body) ELSE edited
Sent(sent) ==
    /\ LetThrough(sent)
    /\ \E isAdmin \in BOOLEAN :
        ServerAnswers(
            sent.body, RefusedOf(sent.body, Complaints(sent.dto, sent.body), isAdmin))
Submit ==
    /\ stage = "open"
    /\ Sent(Displayed)
    /\ UNCHANGED <<form, shown, original, touches, lookup>>

\* The user who waits for the answer of a lookup does nothing else meanwhile.
FormsStep(waits) ==
    \/ OpenForm \/ EditSaved \/ FillIn \/ LookUp \/ LookUpAnswer
    \/ (waits => lookup = "") /\ (Touch \/ Submit)

-----------------------------------------------------------------------------
(* Properties *)

\* What the server refuses of what a page lets through: the pages are laxer
\* than the DTOs, or send what no DTO names.
Unguarded ==
    [customer |-> {"email"}, supplier |-> {"email"}, product |-> {"name", "sku", "unit", "stock"},
     cashMovement |-> {"concept"}, user |-> {"fullName", "email"}, login |-> {"email", "password"},
     business |-> {"id", "createdAt", "updatedAt", "email"}, diagnosis |-> {"laborCost", "discount"},
     supplierProducts |-> {"limit"}, paymentLink |-> {"amount"}, question |-> {"question"},
     reports |-> {"status"}, quickItem |-> {"quantity"}, photo |-> {"sizeBytes"}]
        ++ [f \in DOMAIN Blank |-> {}]

\* A page that lets a form be submitted sends a body that the pipe, the handler
\* and the database accept, but for what Unguarded lists: what the inputs, the
\* checks of the page and the client service make of an entry satisfies the DTO,
\* also of a row that was saved, shown and edited before.
PagesForestallRefusals == stage = "refused" => refused \subseteq Unguarded[form]

\* What the form shows of a key, as the row holds it.
Settled(key, v) ==
    CASE form = "supplier" /\ key \in {"phone", "whatsapp"} -> NormalizePhone(v)
      [] form = "customer" /\ key = "documentType" /\ shown.customerType = "COMPANY" -> "RUC"
      [] form = "product" /\ key = "imageUrl" /\ v = "null" -> "/images/x.png"
      [] form = "diagnosis" /\ v = "zero" -> ""
      [] form \in {"quickService", "product"} /\ v = "" /\ key \in {"costPrice", "unitPrice"} -> "zero"
      [] OTHER -> Trim(v)

\* Optional texts that these forms cannot clear keep their value.
Kept(key) ==
    /\ original # NoRow
    /\ \/ form \in {"customer", "supplier", "product"}
       \/ form = "diagnosis" /\ key = "notes"
    /\ Trim(shown[key]) = ""
    /\ edited[key] = original[key]

\* Nothing entered is lost on its way: a saved row, reopened in its form, reads
\* what the form displayed when it was submitted, but for an optional text that
\* was cleared; what the form did not display keeps its value, or takes the one
\* that the form gave it.
SavedAsEntered ==
    stage = "saved" /\ form \in RowForm =>
        LET displayed == DOMAIN FormOf(form, shown, original).inputs \cap DOMAIN edited
            Reads(key) == Trim(Shown(form, edited)[key]) = Settled(key, shown[key])
        IN  /\ \A key \in displayed : Reads(key) \/ Kept(key)
            /\ \A key \in DOMAIN original \ displayed :
                edited[key] = original[key] \/ Reads(key)

\* A customer whose document is a RUC is a company, unless the answer of a
\* lookup came to a form changed meanwhile.
RucMeansCompany ==
    stage = "saved" /\ form = "customer" /\ edited.documentType = "RUC" =>
        edited.customerType = "COMPANY"
=============================================================================

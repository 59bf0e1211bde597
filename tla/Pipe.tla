--------------------------------- MODULE Pipe ----------------------------------
(***************************************************************************)
(* What the server accepts of a request before a handler runs: the global  *)
(* ValidationPipe and the DTO of every route that a page calls.  A value   *)
(* stands for its class: what a DTO tells apart is whether a text is       *)
(* empty, blank or how long, what its digits or its letters spell, and     *)
(* where a number lies.  A DTO gives each of its keys the values accepted; *)
(* a key without a value is absent.  An upper bound on a length is left    *)
(* out.  The lines of a list are requests of their own: a list is empty    *)
(* or not.                                                                 *)
(***************************************************************************)
EXTENDS Integers, Sequences, FiniteSets, Functions

\* The spread { ...g, ...f }: what f has, and what only g has.
f ++ g == [x \in DOMAIN f \cup DOMAIN g |-> IF x \in DOMAIN f THEN f[x] ELSE g[x]]

-----------------------------------------------------------------------------
(* Values *)

Trim(v) == IF v = " " THEN "" ELSE v

Word == {"", " ", "x", "HP", "Ana", "Lenovo", "password"}
Digits == {"12345678", "987654321", "10456789012", "51987654321"}
Mailbox == {"ana@site", "a@b.c", "ana@site.pe"}
Key == {"id", "uuid"}
Date == {"2026-07-01"}
Picture == {"/images/x.png"}
Enum ==
    [customerType |-> {"NATURAL", "COMPANY"},
     documentType |-> {"DNI", "RUC", "CE", "PASSPORT", "OTHER"},
     adjustment |-> {"IN", "OUT", "ADJUSTMENT"},
     method |-> {"CASH", "YAPE", "PLIN", "TRANSFER", "MIXED"},
     movement |-> {"INCOME", "EXPENSE", "SALE", "SERVICE_PAYMENT", "ADJUSTMENT"},
     orderStatus |->
        {"RECEIVED", "DIAGNOSIS", "IN_PROGRESS", "READY", "DELIVERED", "CANCELLED"},
     purchaseStatus |-> {"PENDING", "PARTIALLY_RECEIVED", "RECEIVED", "CANCELLED"},
     saleStatus |-> {"COMPLETED", "CANCELLED"},
     receipt |-> {"SALE", "SERVICE_ORDER", "QUICK_SERVICE"}]
String ==
    Word \cup Digits \cup Mailbox \cup Key \cup Date \cup Picture
        \cup UNION {Enum[e] : e \in DOMAIN Enum}

\* A number by where it lies, and its double.
Twice == [minus |-> -2, zero |-> 0, half |-> 1, one |-> 2, oneAndHalf |-> 3, ten |-> 20,
          hundred |-> 200, thousand |-> 2000]
Number == DOMAIN Twice
Boolean == {"true", "false"}
List == {"[]", "[_]"}
Value == String \cup Number \cup Boolean \cup List \cup {"{}", "null", "absent"}

-----------------------------------------------------------------------------
(* Validators and transformers *)

MinLength(n) == {v \in String : Len(v) >= n}
DigitsOfLength(n) == {v \in Digits : Len(v) = n}
Mail == {"ana@site.pe"}
Within(low, high) == {v \in Number : Twice[v] >= 2 * low /\ Twice[v] <= 2 * high}
AtLeast(n) == Within(n, 1000)
Whole == Number \ {"half", "oneAndHalf"}

\* @IsOptional: nothing is checked of a missing value.
Optional(S) == S \cup {"absent", "null"}

\* @Transform to undefined of a blank text, and to a number of anything.
OrBlank(S) == S \cup {"", " "}
Coerced(S) == IF "zero" \in S THEN S \cup {"", " ", "null"} ELSE S

\* @Transform to what value === true || value === 'true' says.
Flag == Value

\* PartialType, and OmitType.
Partial(dto) == [k \in DOMAIN dto |-> Optional(dto[k])]
Omit(dto, k) == Restrict(dto, DOMAIN dto \ {k})

\* What the pipe answers 400 for: a key unknown to the DTO (whitelist and
\* forbidNonWhitelisted), and a key whose value it does not accept.
ValueOf(body, k) == IF k \in DOMAIN body THEN body[k] ELSE "absent"
Complaints(dto, body) ==
    {k \in DOMAIN dto : ValueOf(body, k) \notin dto[k]}
        \cup {k \in DOMAIN body \ DOMAIN dto : body[k] # "absent"}
-----------------------------------------------------------------------------
(* The DTOs *)

PageNumber == {"absent"} \cup Coerced(AtLeast(1) \cap Whole)
Limit == {"absent"} \cup Coerced(Within(1, 100) \cap Whole)
Amount == Coerced(AtLeast(0))
Count == Coerced(AtLeast(0) \cap Whole)
OptionalText == Optional(String)
NonEmptyList == {"[_]"}

LoginDto == [email |-> Mail, password |-> MinLength(8)]

CreateUserDto ==
    [fullName |-> MinLength(3), email |-> Mail, password |-> MinLength(8), roleId |-> {"uuid"}]
UpdateUserDto == Partial(CreateUserDto)
ChangePasswordDto == [password |-> MinLength(8)]
ChangeUserStatusDto == [isActive |-> Boolean]

OpenCashSessionDto == [openingAmount |-> Amount, notes |-> OptionalText]
CloseCashSessionDto == [realCashAmount |-> Amount, notes |-> OptionalText]
CreateCashMovementDto ==
    [type |-> Enum.movement, concept |-> MinLength(3),
     amount |-> Coerced(AtLeast(0) \ {"zero"}), paymentMethod |-> Enum.method,
     reference |-> OptionalText, notes |-> OptionalText]
CashQueryDto == [type |-> Optional(Enum.movement), paymentMethod |-> Optional(Enum.method)]

\* The names that a customer's type calls for are validated, the others not.
CreateCustomerDto(customerType) ==
    LET For(type) == IF customerType = type THEN String ELSE Value
    IN  [customerType |-> Enum.customerType, documentType |-> Enum.documentType,
         documentNumber |-> String, fullName |-> OptionalText,
         firstName |-> For("NATURAL"), lastName |-> For("NATURAL"),
         businessName |-> For("COMPANY"), tradeName |-> OptionalText,
         legalRepresentative |-> OptionalText, phone |-> OptionalText,
         email |-> Optional(Mail), address |-> OptionalText, businessLine |-> OptionalText,
         notes |-> OptionalText, isActive |-> Optional(Boolean)]
UpdateCustomerDto(customerType) == Partial(CreateCustomerDto(customerType))
CustomerQueryDto ==
    [search |-> OptionalText, page |-> PageNumber, limit |-> Limit,
     customerType |-> Optional(Enum.customerType), isActive |-> Flag]

CreateCategoryDto == [name |-> String, description |-> OptionalText]
CreateProductDto ==
    [name |-> String, description |-> OptionalText, sku |-> String, barcode |-> OptionalText,
     imageUrl |-> Optional(Picture), brand |-> OptionalText, model |-> OptionalText,
     warranty |-> OptionalText, recommendedUse |-> OptionalText, salesNotes |-> OptionalText,
     technicalSpecs |-> Optional({"{}"}), categoryId |-> String, purchasePrice |-> Amount,
     salePrice |-> Amount, stock |-> Count, minStock |-> Count, unit |-> String]
UpdateProductDto == Partial(Omit(CreateProductDto, "stock"))
AdjustStockDto == [type |-> Enum.adjustment, quantity |-> Count, reason |-> String]
ProductQueryDto ==
    [search |-> OptionalText, categoryId |-> OptionalText, page |-> PageNumber, limit |-> Limit,
     isActive |-> Flag]

PaymentDto == [method |-> Enum.method, amount |-> Amount, reference |-> OptionalText]
SaleItemDto ==
    [productId |-> OptionalText, itemType |-> {"PRODUCT", "SERVICE"},
     description |-> OptionalText, quantity |-> Coerced(AtLeast(1) \cap Whole),
     discount |-> Optional(Amount)]
CreateSaleDto ==
    [customerId |-> OptionalText, items |-> NonEmptyList, payments |-> NonEmptyList,
     notes |-> OptionalText]
CancelSaleDto == [reason |-> MinLength(5)]
SaleQueryDto ==
    [search |-> OptionalText, status |-> OrBlank(Optional(Enum.saleStatus)),
     from |-> OrBlank(Optional(Date)), to |-> OrBlank(Optional(Date)),
     page |-> PageNumber, limit |-> Limit]

CreateServiceOrderDto ==
    [customerId |-> String, equipmentType |-> String, brand |-> OptionalText,
     model |-> OptionalText, serialNumber |-> OptionalText, color |-> OptionalText,
     physicalCondition |-> OptionalText, accessoriesReceived |-> OptionalText,
     reportedIssue |-> String, initialDiagnosis |-> OptionalText,
     receptionNotes |-> OptionalText, estimatedDeliveryDate |-> OrBlank(Optional(Date)),
     notes |-> OptionalText, photos |-> Optional(List)]
ServiceOrderPhotoDto ==
    [imageData |-> String, fileName |-> OptionalText, mimeType |-> Picture,
     sizeBytes |-> Optional(AtLeast(1) \cap Whole), note |-> OptionalText]
UpdateServiceOrderDto ==
    [technicalDiagnosis |-> OptionalText, initialDiagnosis |-> OptionalText,
     receptionNotes |-> OptionalText, physicalCondition |-> OptionalText,
     accessoriesReceived |-> OptionalText, color |-> OptionalText,
     solutionApplied |-> OptionalText, estimatedDeliveryDate |-> Optional(Date),
     laborCost |-> Optional(Amount), discount |-> Optional(Amount), notes |-> OptionalText]
AddServiceOrderItemDto ==
    [productId |-> OptionalText, description |-> String,
     quantity |-> Coerced(AtLeast(1) \cap Whole), unitPrice |-> Amount]
ChangeStatusDto == [status |-> Enum.orderStatus, comment |-> OptionalText]
ServiceOrderQueryDto ==
    [search |-> OptionalText, status |-> OrBlank(Optional(Enum.orderStatus)),
     page |-> PageNumber, limit |-> Limit]

CreateQuickServiceCategoryDto ==
    [name |-> String, description |-> OptionalText, color |-> OptionalText,
     icon |-> OptionalText]
CreateQuickServiceDto ==
    [categoryId |-> String, name |-> String, description |-> OptionalText, unit |-> String,
     unitPrice |-> Amount, costPrice |-> Optional(Amount)]
CreateQuickServiceSaleDto ==
    [customerId |-> OptionalText, items |-> NonEmptyList, discount |-> Optional(Amount),
     paymentMethod |-> Enum.method, paymentReference |-> OptionalText, notes |-> OptionalText]
QuickServiceSaleItemDto ==
    [quickServiceId |-> OptionalText, description |-> OptionalText,
     quantity |-> Coerced(AtLeast(1) \cap Whole)]
QuickServiceQueryDto == [search |-> OptionalText, categoryId |-> OptionalText]

CreateSupplierDto ==
    [name |-> MinLength(2), ruc |-> OrBlank(Optional(DigitsOfLength(11))),
     phone |-> OptionalText, whatsapp |-> OptionalText, email |-> OrBlank(Optional(Mail)),
     address |-> OptionalText, department |-> OptionalText, province |-> OptionalText,
     district |-> OptionalText, reference |-> OptionalText, contactName |-> OptionalText,
     contactRole |-> OptionalText, sunatStatus |-> OptionalText,
     sunatCondition |-> OptionalText, notes |-> OptionalText, products |-> Optional(List)]
SupplierProductDto ==
    LET OptionalNumber(S) == OrBlank(Optional(S))
    IN  [productId |-> OptionalText, name |-> String, category |-> OptionalText,
         unit |-> OptionalText, supplierSku |-> OptionalText,
         referencePrice |-> OptionalNumber(AtLeast(0)), lastCost |-> OptionalNumber(AtLeast(0)),
         minOrderQuantity |-> OptionalNumber(AtLeast(1)), deliveryTime |-> OptionalText,
         leadTime |-> OptionalText, availability |-> OptionalText, notes |-> OptionalText,
         isActive |-> Flag, isPreferred |-> Flag]
SupplierQueryDto ==
    [search |-> OptionalText, page |-> PageNumber, limit |-> Limit, isActive |-> Flag]

CreatePurchaseOrderDto ==
    [supplierId |-> String, items |-> List, discount |-> Optional(Amount),
     paymentStatus |-> Optional({"PENDING", "PAID", "PARTIAL"}),
     paymentMethod |-> Optional(Enum.method), reference |-> OptionalText,
     expectedDate |-> Optional(Date), payFromCash |-> Optional(Boolean), notes |-> OptionalText]
PurchaseOrderItemDto ==
    [productId |-> String, quantity |-> AtLeast(1) \cap Whole, unitCost |-> Amount]
ReceivePurchaseOrderDto == [items |-> Optional(List), notes |-> OptionalText]
ReceivePurchaseItemDto == [itemId |-> String, receivedQuantity |-> AtLeast(1) \cap Whole]
CancelPurchaseOrderDto == [reason |-> MinLength(5)]
PurchaseQueryDto ==
    [search |-> OptionalText, status |-> Optional(Enum.purchaseStatus), page |-> PageNumber,
     limit |-> Limit]

BusinessSettingsDto ==
    [businessName |-> OptionalText, ruc |-> OptionalText, address |-> OptionalText,
     phone |-> OptionalText, email |-> Optional(Mail), logoUrl |-> OptionalText,
     currency |-> OptionalText, applyIgv |-> Optional(Boolean),
     taxPercentage |-> Optional(Within(0, 100)), yapeNumber |-> OptionalText,
     plinNumber |-> OptionalText, bankAccount |-> OptionalText, receiptMessage |-> OptionalText]

ReportQueryDto ==
    [startDate |-> Optional(Date), endDate |-> Optional(Date), userId |-> OptionalText,
     customerId |-> OptionalText, status |-> OptionalText,
     paymentMethod |-> Optional(Enum.method), categoryId |-> OptionalText,
     productId |-> OptionalText, supplierId |-> OptionalText, search |-> OptionalText]
ProfitabilityQueryDto ==
    [startDate |-> OrBlank(Optional(Date)), endDate |-> OrBlank(Optional(Date)),
     categoryId |-> OptionalText, productId |-> OptionalText]
AuditLogQueryDto ==
    [userId |-> OptionalText, module |-> OptionalText, action |-> OptionalText,
     startDate |-> Optional(Date), endDate |-> Optional(Date), page |-> PageNumber, limit |-> Limit]
NotificationQueryDto ==
    [isRead |-> Flag, type |-> OptionalText, priority |-> OptionalText, page |-> PageNumber,
     limit |-> Limit]

LookupDniDto == [dni |-> DigitsOfLength(8)]
LookupRucDto == [ruc |-> DigitsOfLength(11)]
AiQueryDto == [question |-> MinLength(3)]
AiLocalQueryDto == [question |-> MinLength(3), useRag |-> Optional(Boolean)]
RebuildIndexDto == [includeDocs |-> Optional(Boolean)]
CreatePaymentLinkDto ==
    [amount |-> AtLeast(1), description |-> String, provider |-> OptionalText,
     relatedModule |-> OptionalText, relatedId |-> OptionalText]
CreateReceiptLinkDto ==
    [type |-> Enum.receipt, id |-> String, phone |-> Optional(MinLength(9))]
SendReceiptDto == [type |-> Enum.receipt, id |-> String, phone |-> MinLength(9)]
SendSaleReceiptDto ==
    [saleId |-> String, phone |-> {v \in Digits : Len(v) >= 9}, sendPdf |-> Optional(Boolean),
     documentType |-> OptionalText, sendStrategy |-> OptionalText, mode |-> OptionalText]

CancelOrderDto == [reason |-> Value]
-----------------------------------------------------------------------------
(* The services of the client: the DTO of the route that each operation     *)
(* calls; ByPath has no body and no query.                                  *)

ByPath == [k \in {} |-> {}]

AuthService == [login |-> LoginDto, getProfile |-> ByPath, logout |-> ByPath]
UsersService ==
    [findAll |-> ByPath, create |-> CreateUserDto, update |-> UpdateUserDto,
     status |-> ChangeUserStatusDto, changePassword |-> ChangePasswordDto, roles |-> ByPath]
CashService ==
    [open |-> OpenCashSessionDto, current |-> ByPath, sessions |-> ByPath,
     movements |-> CashQueryDto, createMovement |-> CreateCashMovementDto,
     close |-> CloseCashSessionDto, summary |-> ByPath]
CustomersService(customerType) ==
    [findAll |-> CustomerQueryDto, create |-> CreateCustomerDto(customerType),
     update |-> UpdateCustomerDto(customerType), deactivate |-> ByPath,
     setStatus |-> [isActive |-> Value]]
InventoryService ==
    [findProducts |-> ProductQueryDto, createProduct |-> CreateProductDto,
     updateProduct |-> UpdateProductDto, deactivateProduct |-> ByPath,
     adjustStock |-> AdjustStockDto, findCategories |-> ByPath,
     createCategory |-> CreateCategoryDto, findLowStock |-> ByPath]
PosService ==
    [searchProducts |-> ProductQueryDto, createSale |-> CreateSaleDto, getReceipt |-> ByPath]
SalesService ==
    [findAll |-> SaleQueryDto, findOne |-> ByPath, cancel |-> CancelSaleDto, receipt |-> ByPath]
ServiceOrdersService ==
    [findAll |-> ServiceOrderQueryDto, findOne |-> ByPath, create |-> CreateServiceOrderDto,
     update |-> UpdateServiceOrderDto, changeStatus |-> ChangeStatusDto,
     addItem |-> AddServiceOrderItemDto, removeItem |-> ByPath,
     addPhotos |-> [photos |-> List], deletePhoto |-> ByPath, deliver |-> ByPath,
     cancel |-> CancelOrderDto, receipt |-> ByPath, ticket |-> ByPath, sendWhatsApp |-> ByPath]
QuickServicesService ==
    [categories |-> ByPath, services |-> QuickServiceQueryDto,
     createCategory |-> CreateQuickServiceCategoryDto,
     updateCategory |-> Partial(CreateQuickServiceCategoryDto), deleteCategory |-> ByPath,
     createService |-> CreateQuickServiceDto, updateService |-> Partial(CreateQuickServiceDto),
     deleteService |-> ByPath, createSale |-> CreateQuickServiceSaleDto, sales |-> ByPath,
     cancel |-> CancelSaleDto, receipt |-> ByPath]
SuppliersService ==
    [findAll |-> SupplierQueryDto, findOne |-> ByPath, products |-> ByPath,
     create |-> CreateSupplierDto, update |-> Partial(CreateSupplierDto),
     addProduct |-> SupplierProductDto, updateProduct |-> Partial(SupplierProductDto),
     deactivateProduct |-> ByPath, deactivate |-> ByPath]
PurchasesService ==
    [findAll |-> PurchaseQueryDto, findOne |-> ByPath, create |-> CreatePurchaseOrderDto,
     update |-> Partial(CreatePurchaseOrderDto), receive |-> ReceivePurchaseOrderDto,
     cancel |-> CancelPurchaseOrderDto, receipt |-> ByPath]
SettingsService ==
    [business |-> ByPath, updateBusiness |-> BusinessSettingsDto, tax |-> ByPath,
     updateTax |-> BusinessSettingsDto]
ReportsService ==
    [report \in {"summary", "sales", "inventory", "serviceOrders", "quickServices", "purchases",
                 "cash", "profitability", "export"} |-> ReportQueryDto]
ProfitabilityService ==
    [table \in {"summary", "products", "services", "monthly", "categories"} |->
        ProfitabilityQueryDto]
AuditService == [findAll |-> AuditLogQueryDto]
NotificationsService ==
    [findAll |-> NotificationQueryDto, unreadCount |-> ByPath, markRead |-> ByPath,
     readAll |-> ByPath]
DocumentLookupService == [status |-> ByPath, lookupDni |-> LookupDniDto, lookupRuc |-> LookupRucDto]
AiAnalyticsService ==
    [localAsk |-> AiLocalQueryDto, rebuildIndex |-> RebuildIndexDto, ask |-> AiQueryDto]
        ++ [call \in {"localHealth", "localIndexStatus", "testConnection", "businessSummary",
                      "salesInsights", "inventoryInsights", "profitabilityInsights"} |-> ByPath]
PaymentsService ==
    [createLink |-> CreatePaymentLinkDto, transactions |-> ByPath, testConnection |-> ByPath]
WhatsappReceiptService ==
    [sendSaleReceipt |-> SendSaleReceiptDto, createReceiptLink |-> CreateReceiptLinkDto,
     sendReceipt |-> SendReceiptDto]
=============================================================================

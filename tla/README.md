# A formal model of INNOVA SOLUTIONS

INNOVA SOLUTIONS is the management system of a shop that sells and repairs
computers: a NestJS API over PostgreSQL (through Prisma), a React client and a
small Python service for texts. This directory holds TLA+ modules that model the
handlers of the API that change something, the parts of the client whose order of
events matters, configurations that check them with TLC, and proofs that TLAPS
checks. Paths are relative to the repository; `sales/`, `cash/` and so on stand
for directories of `apps/backend/src/modules/`.

Contents: [what the system is made of](#1-the-system), [what the model assumes of
Node and PostgreSQL](#2-requests-and-transactions), [the modules](#3-the-modules),
[the runs](#4-the-runs), [bounds](#5-bounds), [fairness](#6-fairness), [what is
proved](#7-what-is-proved), [what the code does against its own
words](#8-disagreements-found), [what is left out](#9-not-modelled),
[the plan](#10-plan).

## 1. The system

Every operation is an HTTP request handled by a controller, a service and a
repository. Services keep no state of their own but for one cache: all state is in
the database, and components interact by calling each other's services inside one
transaction (`SalesService` calls `CashService`), or through the tables they
share. The client keeps copies: the user of the session, the token, lists, a cart.

| Component | State | Operations that change it | What makes it correct | Modelled |
|---|---|---|---|---|
| **Sales** (`sales/`) | Sale, items, Payment, SaleCancellation; Product.stock, InventoryMovement, CashMovement | `create`, `cancel` | all or nothing; stock never below zero; codes without gaps; cancelled once | yes |
| **Cash** (`cash/`) | CashSession, CashMovement, notices of a difference | `open`, `createMovement`, `close`, `registerSaleMovement`, `registerSaleCancellation` | one open session per user; a closing reports what happened, and is final | yes |
| **Inventory** (`inventory/`) | Product, categories, InventoryMovement | `adjustStock`, `deactivateProduct`; `createProduct`, `updateProduct`, categories | no adjustment is lost; movements explain the stock; one category per name | yes |
| **Purchases** (`purchases/`) | PurchaseOrder, items; Product.stock; CashMovement | `create`, `update`, `receive`, `cancel` | goods enter once; nothing counts that did not come | yes |
| **Service orders** (`service-orders/`) | ServiceOrder, items, photos; Product.stock | `create`, `update`, `changeStatus`, `addItem`, `removeItem`, `addPhotos`, `deletePhoto`, `deliver` | only allowed transitions; totals equal the items | yes |
| **Quick services** (`quick-services/`) | QuickServiceSale; CashMovement; the catalogue | `createSale`, `cancelSale`, `deactivateService`; editing the catalogue | takings equal what was served; one category per name | yes |
| **Seed** (`prisma/seed.ts`) | rows of users, suppliers, catalogues, services, customers, products | one run of the script | running it again completes it | yes |
| **Reports, dashboard, profitability** | none | none | their figures explain one another | their sums |
| **E-commerce** (`ecommerce/`) | OnlineOrder | `createOrder`, `updateStatus` | confirmed orders can be served | yes |
| **SUNAT** (`sunat/`) | SunatDocument | four kinds of document | a series is numbered without gap or repetition | yes |
| **WhatsApp** (`whatsapp/`) | WhatsappMessageLog, AuditLog | receipts, messages, templates, links | what is recorded as sent was taken | yes |
| **Suppliers** (`suppliers/`) | Supplier, SupplierProduct | CRUD of both | a catalogue names each offer once | yes |
| **Users, access** (`users/`, `auth/`, guards, the client's store and routes) | User; store and token of the browser | `create`, `update`, `changeStatus`; login, logout, profile, 401 | an administrator remains; the user shown is the one who acts; client and API agree on who may what | yes, but passwords and photos |
| **Customers** (`customers/`) | Customer | CRUD, `setStatus` | an edit changes what it states | yes |
| **Notifications** (`notifications/`) | Notification | generated on every list; read, removed | one unread notice per cause | yes |
| **Settings** (`settings/`) | BusinessSettings | `business`, `tax` and their updates | one tax rule | yes |
| **AI analytics** (`ai-analytics/`, `ai-local/`) | a cache in memory | `ask` | an answer answers its question; what it is told agrees with the reports | cache, providers, figures |
| **Pages** (hooks and pages of the client) | rows, filter, spinner, message, requests in flight | load, change the filter, write and load again or show the answer, poll | a page at rest shows what it asks for | yes, but dialogs without rows and layout |
| **Point of sale** (`pos/`) | cart, product list, dialog | `usePOS` | nothing is sold twice by accident | yes, but discounts and customers |
| **Purchase form** (`purchases/components`) | supplier, catalogue, items | `PurchaseOrderForm` | what is ordered is offered | the choice of goods |
| **Forms and request validation** (`*Form.tsx`, modals, client services, DTOs, `main.ts`) | what a form shows, the row it edits, a lookup under way | open, enter, look up, submit, edit again | what a page lets through the server accepts; what is saved is what was shown | yes, but layout and wording |
| **Public receipts** (`public-receipts/`) | none | none | they say what the document says | their figures |
| **Payments, integrations, document lookup, audit log, AI service, PWA** | | | | no (but their forms), see section 9 |

What is hard here is the same everywhere. Handlers read a row with a plain
`SELECT`, decide, await, and then write: at READ COMMITTED other requests commit in
between. The code defends itself in few places: the conditional decrements of
`sales/strategies/product-sale.strategy.ts:47-53` and of the parts of a service
order, the unique indexes, and the transaction around some handlers. In the client
the same happens with answers: each is applied when it comes, whatever was asked
since. The `hazards` of `PROJECT.json` list every place where this bites.

## 2. Requests and transactions

`Requests`, `ProductRows` and `CashBook` fix what the handlers run on.

* **A request is a slot** (`Request`). `pc[r]` names the statement its handler
  executes next; `"idle"` is a free slot, which may serve any handler again, so a
  few slots serve unboundedly many requests. `userOf[r]` is its authenticated
  user, `Admin` the users whose role lets them through `@Roles('ADMIN')`. In
  `Office` the role is read from the User row instead, as `JwtStrategy.validate` does.
* **An action is one statement**, with all the handler computes up to the next
  `await` on the database: Node lets other handlers run only there. Statements
  nobody can come between (inserting rows of the transaction's own, such as items
  and payments) are part of the action next to them.
* **READ COMMITTED.** A plain read sees what is committed plus what its own
  transaction wrote (`Visible`). An `UPDATE` waits for the holder of the row
  (`MayWrite`), then holds it to the end of the transaction (`holder`).
  `stock[p]` is the committed value, `live[p]` the newest version. Inserted rows
  appear at commit (`moved` into `kardex`, `posting` into `takings`).
* **Unique indexes.** An insert waits for a transaction that inserted the same
  code, and fails once that code is committed (`InsertSale`, `InsertSession`,
  `InsertPurchase`, ...). Handlers without a transaction commit at each statement.
* **Failure.** Any transaction may roll back at any statement, and any handler
  without one may stop after any statement (`Rollback...`, `Abort...`): one action
  stands for a thrown exception, a failed statement, the transaction timeout, the
  deadlock detector, a dead process or connection. Nothing in the code retries.
* The foreign key from CashMovement to CashSession only locks the key of the
  session's row, so a movement can be inserted while its session is being closed.

## 3. The modules

| Module | Models | Extends |
|---|---|---|
| `Requests` | slots, users, labels; the hypothesis `OneRequestPerUser` | |
| `ProductRows` | Product.stock, isActive, InventoryMovement sums, row locks, commit and rollback | `Requests` |
| `CashBook` | CashSession, CashMovement sums, closing totals | `Requests` |
| `Sales` | `SalesService.create` and `cancel` | `ProductRows`, `CashBook` |
| `StockLedger` | abstract: a sale takes a whole order in one step | |
| `Cash` | `CashService.open`, `createMovement`, `close` | `CashBook` |
| `Till` | Sales and Cash over the same sessions | `Sales`, `Cash` |
| `Inventory` | `adjustStock`, `deactivateProduct`, beside sales over the same products (`StockroomSpec`) | `Sales` |
| `Purchases` | `PurchasesService` | `ProductRows`, `CashBook` |
| `ServiceOrders` | `ServiceOrdersService` | `ProductRows` |
| `OrderLifecycle` | abstract: the stages of a service order | |
| `QuickServices` | `QuickServicesService` | `CashBook` |
| `Reports` | everything that moves goods or money over the same tables, and the reports, profitability, dashboard and inventory summary as sums over them | `Sales`, `Purchases`, `ServiceOrders`, `QuickServices` |
| `OnlineOrders` | `EcommerceService` | `ProductRows` |
| `SunatDocuments` | `SunatService.createDocument` | `Sales` |
| `Receipts` | `WhatsappService`, its provider, Meta's answers | `Sales` |
| `Storefront` | sales, online orders, documents and receipts together, and the small instance for TLC | the three above |
| `Screens` | the other pages and the hooks that fetch what they show: one machine, and a table with a row per page | |
| `PointOfSale` | the hook `usePOS`, the server and other sellers (`TerminalsSpec`), a client that has that page or another one open (`ClientSpec`), and the small instance for TLC | `Sales`, `Screens` |
| `Suppliers` | `SuppliersService` and both unique indexes | `Requests` |
| `PurchaseForm` | the form, its answers in flight and the checks of `create`, and the small instance for TLC | `Suppliers` |
| `Accounts` | `UsersService`, `ensureAdminContinuity` | `Requests` |
| `Browser` | the client's store, token, routes, pages and calls; the roles of every controller | `Accounts` |
| `Customers`, `Notices`, `Settings`, `AiAnswers` | the services of those names | `Requests` (`Notices`: `Accounts`) |
| `Catalogue` | products and the categories of products and of quick services | `Requests` |
| `Seeding` | the script that fills the database, killed anywhere and run again | |
| `Pipe` | the validation pipe: the DTO of every route that a page calls, and the client services that call them | |
| `Forms` | the forms and list filters of the pages, from the empty form to the row and back | `Pipe` |
| `Office` | those services, the browser, the seed and the forms in one history, and the small instance for TLC | those eight modules, `Forms` |
| `MC...` | six instances for TLC; `MCCounter` also composes Cash and quick services over the same sessions (`CounterSpec`) | |
| `Sales_proofs` | sums over finite sets; sales | `Sales` |
| `Till_proofs` | cash desks, sales beside them, quick services beside them | `Till`, `MCCounter`, `Sales_proofs` |
| `Inventory_proofs` | the stockroom; service orders; the shop; movements and documents | `Reports`, `Inventory`, `Sales_proofs` |
| `Reports_proofs` | takings of the whole shop, and the reports as sums over it | `Inventory_proofs` |
| `Storefront_proofs` | receipts, documents, online orders | `Storefront` |
| `Office_proofs` | administration, catalogue, assistant, browser, the seed and the forms | `Office` |
| `PointOfSale_proofs` | terminals; the pages, for any table of them | `PointOfSale` |
| `PurchaseForm_proofs` | catalogues of suppliers, and the purchases made from them | `PurchaseForm` |

Variables are shared by extending, so a composition is the disjunction of its
components' actions, each with the other's private variables unchanged.

**Sales.** `create` (`sales/sales.service.ts:45-126`): `StartSale`; `ValidateItem`
per item (the product is read and must be active and have stock; the updates the
strategy builds are Prisma promises, which run only when awaited, after the Sale
row); `CountSales` (count + 1) and `InsertSale` (unique code); `DecrementStock`
per item (`stock >= quantity` evaluated on the locked row); `CollectPayment` (the
seller's open session, one movement per payment); `CommitSale`. `cancel` (128-195):
`StartCancel` (status read without a lock), `ReadStock` and `Restock` per item (the
stock is *overwritten* with the value read plus the quantity), `MarkCancelled`
(does not look at the status again), `RefundSale` (minus the total, in cash, into an
open session of the user who cancels, or nothing when there is none),
`CommitCancel`.

**Cash.** `open`: `StartOpen` and `CountSessions` outside the transaction,
`InsertSession` and `CommitOpen` inside. `createMovement`: `PostMovement`,
`CommitMovement`. `close`: `StartClose` outside, `RecheckOpen`, `SumMovements`,
`WriteClose`, `CommitClose` inside; a difference leaves a notice (`alerts`).

**Inventory.** `StartAdjust` reads and computes, `WriteAdjust` and `CommitAdjust`
write. `deactivateProduct` is one update.

**Purchases.** `create`: `StartPurchase`, `CountPurchases`, `InsertPurchase`,
`PayPurchase` (an EXPENSE in the buyer's session when paid from the till),
`CommitPurchase`. `receive`: `StartReceive`, per item `ReadItem`, `StoreItem` or
`SkipItem`, then `RefreshItems`, `WriteReceived`, `CommitReceive`. `cancel` and
`update`: `StartCancelPurchase`, `WriteCancelled`; `StartUpdatePurchase`,
`WritePayment`. `arrived` is kept beside `received` for the properties: what
entered the stock.

**ServiceOrders.** Every handler starts with `ensureEditable` outside any
transaction (`Begin`) and writes what it computed from that read: `WriteOrder`,
`WriteStage`/`CommitStage`/`WriteDelivered`, `ReadPart`/`StorePart`/`WritePart`/
`CommitPart`, `DeleteItem`/`WriteRemoved`, `CountPhotos`/`CommitPhotos`.

**QuickServices.** `StartQuick`, `ReadServices`, `InsertQuick`, `CommitQuick`;
`StartCancelQuick`, `WriteQuick`, `CommitRefund` (into the session of the sale).

**Reports.** One operator per report: a record of the sums the code returns,
computed from the committed tables as the queries do, with the same filters by
status; besides the reports, the figures the assistant is told (`BusinessContext` of
`ai-analytics/`, `LocalContext` of `ai-local/`) with the alerts drawn from them, and the
three public receipts. A list the assistant gets is its length, cut to the rows that its
query takes (`Shown`: `maxContextItems` in one service, 15 in the other). What it is told of the
cash, the sum of the last movements only, is left out (section 9).

**OnlineOrders, SunatDocuments.** `StartWebOrder`, `ReadWebItem`, `CountWebOrders`,
`InsertWebOrder`; `StartWebStatus`, `CheckWebItem`, `WriteWebStatus`.
`StartDocument` (the sale is read, the document emitted), `CountDocuments`,
`InsertDocument`. The table is a sequence of rows per series, in the order inserted; the unique
index refuses a number that some row of the series has.

**Receipts.** The entry points (`StartSaleReceipt`, `StartReceipt`,
`StartReceiptByHand`, `StartLink`, `StartMessage`, `StartApprovedTemplate`) choose a
strategy with `ResolveStrategy` from what the environment holds and what the request asks;
`UploadDocument` and `SendMessage` call Meta (`CallMeta`: taken and answered, taken
and the answer lost, refused); `LogMessage` and the three audits write what
became of it. `accepted` counts what Meta took, which no table holds.

**PointOfSale.** Every event of the hook is an action (`FetchProducts`,
`ShowProducts`, `LoseProducts`, `PickProduct`, `AddProduct`, `UpdateQuantity`,
`RemoveProduct`, `ClearCart`, `Confirm`, `Sold`, `NotSold`). A terminal is the slot
of its requests; `answer` is what the server said, `bought` the sales registered of
what is in the cart, `lost` how many of their answers never arrived.

**Screens.** Pages and hooks are written alike, so there is one machine and a table.
`ScreenInit` opens a page of `Pages` and its effect loads; `ChangeFilter`, `RefreshPage`,
`Poll` and `Unhide` load again (`Ask`, which `useNotifications` skips while it is loading or hidden);
`StartWrite` posts a change, which the server executes (`Serve`) and whose answer makes the
handler load or shows the row answered (`HearWrite`), or it fails (`FailWrite`). A load is answered
(`ShowLoad`), fails (`FailLoad`) or is answered from what `http-client.ts` keeps for the URL
(`ShowStash`). `flights` are the requests in flight in the order they were sent; they are answered in
any. What a list holds is a version of the tables; `told` is the newest one that a write of the page
was answered with. A row of the table says what differs from hook to hook: which lists are asked with the
filter, whether it clears and sets its message, catches, empties, polls, who tells of a failure, and for
each handler what follows its post and whether it waits in a dialog. `hitches` names what may have
spoilt the rows since the last load was asked.

**Suppliers, PurchaseForm.** `InsertSupplier`; `DeleteCatalogue`, `UpdateSupplier`,
`CommitSupplier` for an update that states a catalogue; `InsertItem`, `WriteItem`,
`DeactivateSupplier`. The form: choosing a supplier starts a load, loads arrive in
any order (`load`), items are added and the form submitted (`SubmitForm`); the
server looks at the supplier and product by product (`CheckProduct`) and then
`PlaceOrder` or `RefuseOrder`. `available` are the active products, which `DeactivateProduct`
takes from every catalogue at once.

**Accounts, Browser.** `StartUpdateUser`, `StartStatus`, `CountAdmins`, `WriteUser`,
each a statement of its own. `Browser` holds one set of roles per group of routes
of the twenty controllers, one set of calls per page (what its hook asks on
opening and from its buttons), `CanOpen` for the routes, and the session: `Load`,
`ProfileAnswered`, `ProfileFailed`, `Login`, `Logout`, `Call`, `Unauthorised`,
`Answered`. A tab has one call in flight, kept as who is shown, whose token goes
with it and which roles are needed.

**Catalogue, Seeding.** `StartCreateCategory`, `InsertCategory`, `StartUpdateCategory`,
`WriteCategory`: a name is normalised and looked up, then written under a unique index;
the same for the codes of products (`StartCreateProduct` ... `WriteProduct`) and, in single
statements, for quick services. The script is a counter of statements (`seed.at`): `FindDemo`
and the deletions of `cleanupDemoData`, the upserts, and document by document
`InsertDemo`, `MoveDemoStock`, `CollectDemo`; after the movements of the initial stock it
records an adjustment of one unit that the shelf never saw (`CountedTwice`); `StopSeeding` ends it anywhere and `Run` starts
it again, while `Use` is the shop registering documents under the same codes.

**Pipe, Forms.** A value stands for its class: an empty, a blank and a short text,
document numbers by their digits, mail addresses by who accepts them, numbers by
where they lie. A DTO is a function from its keys to the values it accepts
(`@IsOptional`, `@Transform`, `@Type`, `PartialType` and `OmitType` are operators on it), and
`Complaints` are the keys for which `ValidationPipe` answers 400, those that no DTO names
included. A form is a record of the values its displayed inputs take, the checks of the
page, the body that page and client service make of the entry, and the DTO; `Stored` is the
row the handler writes of it and `Shown` the form that is opened on that row.
`OpenForm`, `FillIn` (everything, or what is required), `Touch`, `LookUp` and
`LookUpAnswer`, `Submit` and `EditSaved` are what a user and an answer do;
`Unguarded` names, form by form, the keys which a page lets through and the server refuses.

**Customers, Notices, Settings, AiAnswers.** `StartUpdateCustomer` reads the row and
merges, `WriteCustomer` writes all of it. `StartNotices` counts the conditions,
then `FindNotice` and `CreateNotice` per title. `FindSettings`, `CreateSettings`,
`WriteSettings`. `setup` is the environment: which provider is configured and whether
answers are cached. Without a cloud provider the rules answer (`AskRules`); with one, the key
is computed and looked up, and the provider answers or fails; entries expire and the process
restarts.

Definitions named `Faulty...` are single-fault variants of the definition that
follows them; no specification uses them. They show that each property is
sensitive to a bug in the code it is about.

**Abstractions.** Money is an integer number of cents, so the rounding of
`Number(Decimal)` sums does not appear. Rows of CashMovement and InventoryMovement
are kept as the sums the code reads. `"YAPE"` stands for the three electronic
methods. Checks that precede every effect of a handler and depend on nothing that
changes are taken as passed. `taken` is a table of partial sums of an order, given by
its recurrence (`TakenAssumption`), so that proofs need no recursion. Names,
costs of suppliers, addresses and texts are left out; a phone number stands for every
field without a constraint.

**Clients who wait.** In `Office`, `Storefront` and `PurchaseForm` the variable
`patient` is chosen at the start: when it holds, a request arrives only while
no other is being served. Properties that the races break are stated for
`patient` histories (`patient => ...`); the same run also explores the others, in
which the unconditional properties must hold. The findings of section 8 name
what goes wrong without it, and a hazard whose race is left out in this way says so in its note.

## 4. The runs

| Run | Question | Properties |
|---|---|---|
| `sales_sell` | Three requests sell orders that take two products in opposite order, or one product twice. Do concurrent sales amount to sales one at a time? | `SalesAreAtomic` (refinement of `StockLedger`), `KardexExplainsStock`, `TypeOK` |
| `stockroom_races` | A seller's two requests and an administrator's one: sales, cancellations, adjustments, deactivations of a last unit. What survives? | `CodesAreConsecutive`, `TakingsMatchSales`; with one administrator's request `CancelledOnce` |
| `shop_one_at_a_time` | One request at a time, every failure included: do stock, cash, reports, receipts and what the assistant is told say what the documents say? | `StockMatchesDocuments`, `PurchasesAddUp`, `GoodsAndMoneyAreAccountedFor`, `ResultsReconcile` |
| `shop_races` | Two requests: sales, cancellations, receptions and cancellations of a purchase of two products. What survives? | `StockNeverNegative`, `ReceivedHasArrived`, `KardexMatchesDocuments` |
| `till_one_request_each` | Two users who each wait for their answers: are sessions and closings right? | `OneOpenSessionPerUser`, `ClosedTotalsExact`, `ClosedIsFinal`, `MovementsNeedOpenSession`, `SalesEnterTheirSession` |
| `till_no_timeout_needed` | Orders lock products in the client's order. Does a request ever need a timeout or the deadlock detector? | `AnsweredWithoutTimeout` (liveness): not while nothing is cancelled, since the unique code makes the second sale wait before it holds a product row |
| `counter_same_user` | Two requests of one user race at a till that also sells services, which are refunded into closed sessions. | `SessionCodesAreConsecutive`, `TakingsMatchServices` |
| `workshop` | Two technicians, one per order, with failures and crashes between statements. | `OrdersFollowLifecycle` (refinement of `OrderLifecycle`), `ChargesAddUp` |
| `office` | Administrators who edit one another, customers, settings and notices; an assistant with a cloud provider or rules of its own, and a cache filled by slow answers; a browser whose user is edited; a catalogue edited twice at once; a seed killed half way over a shop that goes on; every form filled in, changed, refused, saved and edited again. | `CountedAdminRemains`, `OneNoticeAndOneTax` for patient clients; `EditsKeepTheRest`, `SeedingConverges` and `FormsAreFaithful`, part for them and part for all; `AnswersFitTheQuestion`, `ShownUserActs`, `AwarePagesAreServed`, `CategoriesAreDistinct`, `PagesForestallRefusals` always |
| `storefront` | Sales cancelled under documents, receipts and online orders, in each configuration of WhatsApp. | `RecordsAreTrue` and `SeriesAreConsecutive` always; `ConfirmationsAndDocumentsStand` for patient clients |
| `terminals` | A cart edited and lists arriving while a sale is being saved, refused or lost; or any of the other pages, with filters that change, writes, polls, and answers that come in any order, fail or are taken from what was kept. | `CartIsUnsold` (one earlier sale of the cart for each lost answer, no more), `PagesSettle` |
| `buying` | A form whose catalogues arrive in any order, over suppliers who are edited. | `SuppliersOfferOnce`, `OrdersAreOfTheCatalogue` for patient clients |

All of them pass. Every property comes with at least one fault of the code
under which it fails (`mutants` in `PROJECT.json`).

Runs complement each other: `shop_one_at_a_time` shows what one request at a
time keeps, `shop_races` and `stockroom_races` what is left of it when requests
overlap; `till_one_request_each` shows the session rules for users who wait, and
`counter_same_user` what holds for those who do not.

## 5. Bounds

Requests are slots and are reused, so histories are unbounded but for the tables.
Bounds, each in a guard:

* `MaxSales`, `MaxSessions`, `MaxPurchases`, `MaxOrders`, `MaxItems`, `MaxQuick`,
  `MaxWeb`, `MaxDocuments`: rows ever inserted in a table, 1 or 2 (0 where a run
  leaves a component out). Two rows can collide on one code, and a second can
  follow a rollback; with one, two requests meet on the same row. `MaxDocuments` is 3 for
  two kinds: two of one series beside one of another.
* `maxContextItems` (1): two products can be short of stock, so that lists are cut.
* `MaxStock` (2), the stock an adjustment may lead to, above the initial stock;
  `MaxTotal` (0 or 1), the sum of manual movements: one movement tells an exact total
  from a wrong one.
* `MaxCalls` (3 or 4), requests of one history, where the components share
  nothing that grows: the handlers concerned make at most four statements, and every
  race known here is between two. `Desks` are the sets of components that one history
  of `Office` staffs: users, customers, notices and settings; the users' service and the
  browser, which reads nothing but the users' rows; the assistant's questions, the catalogue, the seed,
  or the forms, each of which shares no state with the rest. A login counts as a request. `Setups`
  are three environments of the assistant: a provider with a cache, one without, none.
* `MaxTouches` (2), the inputs a user changes in one history, beside all that `FillIn` enters at
  once: two are a change of type and a value that goes with it, or a value and its
  clearing after the row was saved; that a form saves what it shows is proved for any number (§7).
* `MaxLoads` (1) and `Load` (two), answers in flight of the terminal and of the form:
  two can arrive in the other order, and one while a sale is saved.
* `MaxVersion` (3) and `MaxFlights` (2), for the pages: versions of the tables and requests in flight. One
  answer can overtake another, a write fall between two loads, and each of the six hitches occur;
  `Screens` alone was also explored with three in flight. Two filters (`Filter`) are the fewest that
  differ. Nothing new happens once the versions are used up, so the run does not check deadlock.
* `MaxRuns` (2), runs of the seeding script: one that stops anywhere and one after it, since a
  run's first nine statements forget all that earlier ones left; `MaxUses` (2), documents the
  shop registers around them; `Demo` (2) stands for ten documents of each kind.
* `MaxSize` (0) stands for the 100 entries of the AI cache, which holds one more than its limit.
* `Item` (five rows of catalogue, never reused): two to begin with, three to
  create.

Two requests are the fewest for a race and the number of slots of most runs;
three are used where a sale, a cancellation and an adjustment overlap. Two
products are the fewest that can be locked in opposite order; an order that repeats a
product covers the check that passes twice. Initial stocks make some orders fail
at the check, some at the decrement, some not. One tab has one call in flight,
enough for an answer to a session that is over. Symmetry is declared only where
slots serve the same user or rows differ only by their names, and in runs
without liveness properties. The runs whose histories end (`MaxCalls`, tables full)
do not check deadlock; the others do. The theorems of section 7 have no bound.

## 6. Fairness

Only `OpenShopSpec` has any. `SF(TillStep(r))`: PostgreSQL executes every statement
that waits for nobody, and a lock that is freed again and again is granted to each
waiter (its lock queues are first come, first served); strong fairness is needed
because a statement waiting for a row or a code becomes enabled and disabled as
others come and go. `WF(Refuse(r))`: a statement that must fail does fail, and the
transaction rolls back. No fairness is put on starting requests or on spontaneous
rollback, so the liveness property does not rest on timeouts or on the deadlock
detector. Elsewhere the code promises no progress that is not one of its own
statements: clients may leave, outside services may never answer, and nothing retries.

## 7. What is proved

The theorems hold for any finite or infinite `Request`, `User`, `Product`, `Order` and
so on and for any value of the bounds, from the named assumptions of the modules only:
`userOf` maps requests to users, `None` is none of the values it is told from, initial stocks are
natural numbers, `taken` follows its recurrence, amounts are natural numbers, nobody
starts with two sessions, and the like. The hypotheses in the second column are beyond those.

| Theorem | States | Argument |
|---|---|---|
| `SalesTypeOK` | `Spec => []TypeOK` | `TypeInv`: types, and per request (`LocalAt`) what its label says of its locals: the order it holds, the item in range, the sale it cancels registered |
| `SalesStockNeverNegative` | `Spec => []StockNeverNegative` | with `StockInv`: a stock read by a cancellation was not negative either |
| `SalesCodesAreConsecutive`, `SalesSerialised` | codes have no gap; one inserter | with `CodesInv`: every inserted code is one more than what is committed, so two inserters would hold the same code |
| `SalesKardexExplainsStock` | the same of `SellSpec` | `SellInv`: held rows differ from committed ones by the holder's own movements, which are `taken[order][i]` |
| `SalesImplementLedger` | `SellSpec => Ledger!Spec` | `SellInv`: a commit takes exactly the demand of its order; every other step stutters |
| `StockroomStockNeverNegative`, `StockroomCodesAreConsecutive` | both beside adjustments (`StockroomSpec`) | `StockroomInv`: an adjustment about to write holds a stock that is not negative |
| `StockroomCancelledOnce` | `OneAdminSlot =>` no sale cancelled twice | `OnceInv`: a sale whose cancellation is under way and not yet marked still stands, and it is the only one under way |
| `StockroomTakingsMatchSales` | SALE movements are the payments of the sales registered less the refunds | `TakingsInv`: `PostingAt` says of each label what a request has posted and not committed, as a function of its order |
| `CashTypeCorrect`, `CashCodesAreConsecutive` | types and codes of sessions | `DeskTypeInv`, `SessionCodesInv` |
| `TillOneOpenSession`, `TillClosedTotalsExact`, `TillClosedIsFinal`, `TillMovementsNeedOpenSession`, `TillSalesEnterTheirSession` | `OneRequestPerUser =>` each rule of the sessions | `TillInv`: below |
| `CounterCodesAreConsecutive` | codes of sessions beside quick services (`CounterSpec`) | `CounterInv`: a quick service keeps off the columns of the codes |
| `CounterTakingsMatchServices` | `NoManualMovements =>` what a session collected is what its quick services cost, refunds taken off | `CollectedInv`: `PostedAt` per label, and refunds go to the session the sale names |
| `WorkshopFollowsLifecycle` | `BenchSpec => OrderLifecycle` | `BenchInv`: what a technician read of an order is still what the row holds |
| `WorkshopChargesAddUp` | the charges of an order are its items | `ChargeInv`: `partsCost` at each label is the sum over the parts still on the order, with or without the one being stored or removed |
| `ShopStockNeverNegative`, `ShopCodesAreConsecutive` | both while purchases, service orders and quick services run besides (`ShopSpec`) | `ShopInv`: below |
| `ShopReceivedHasArrived` | no item of a purchase counts more than was ordered, or than came in | `BuyInv`: what a reception holds of an item as read had arrived by then, and what it adds fits in the order |
| `ShopKardexMatchesDocuments` | committed movements add up to what sales, cancellations, receptions and parts say | `KardexInv`: below |
| `ShopCancelledOnce` | `OneAdminSlot =>` no sale cancelled twice, whatever else the shop does | `OnceInv`, as in the stockroom; the other components neither write sales nor cancel |
| `ShopPurchasesAddUp` | `OneAdminSlot =>` received is what arrived, and the status says how much that is | `AddsUpInv`: what a reception read first is still so, and the status it is about to write is that of the quantities it is about to leave (`UpToDate`) |
| `ShopStockMatchesDocuments` | `OneRequest =>` the stock is what there was, less sold, plus arrived, less fitted | `ExactInv` on top of `KardexInv` and `OnceInv`: below |
| `ShopGoodsAndMoneyAreAccountedFor` | `OneRequest`, finite `Product` `=>` shelf and goods sold cost what the documents say came; the tills took in and gave out, in all and by method, what sales, services and purchases say | `MoneyInv` with `ExactInv`: below |
| `ShopResultsReconcile` | `OneRequest`, finite `Product` and `Service` `=>` the results the owner is shown are the cash of the tills plus what is owed; receipts, orders in the reports and alerts agree with the rows | `MoneyInv`, `WorkshopInv`: below |
| `FrontRecordsAreTrue` | logs and audits claim no more than Meta took | `RecordsInv`: `accepted` exceeds what is recorded by the messages about to be |
| `FrontSeriesAreConsecutive` | the documents of a series have the numbers 1, 2, 3 ... | `DocumentsInv`: what a handler has counted (`CountedAt`) is at most what is there by then, so the index lets it insert only if nobody inserted in between |
| `FrontConfirmationsAndDocumentsStand` | for clients who wait, orders are confirmed from stock that is there, documents issued for sales that stand | `FrontInv`: while a patient client's request runs every other slot is idle, so what it read still holds |
| `OfficeKeepsItsInvariant` | `OfficeSpec => []OfficeInv` | types, and the invariants of the five services, catalogue, cache and browser |
| `AnAdministratorRemains`, `NoticesAndTaxAreSingle` | for clients who wait | `AccountsInv`, `NoticesInv`, `SettingsInv`: what was counted or looked up still holds at the write |
| `AnswersFit` | an answer is about its question and the context read for it | `AskInv`: entries of the cache, answers under way and keys agree |
| `CategoriesStayDistinct` | no two categories share a name | `CategoriesInv`: the unique index, through inserts not yet committed |
| `EditsKeep` | an edit changes what it states | `ProductsInv`, `CustomersInv`: what a handler merged is the row it read |
| `TheShownUserActs` | `OneTab =>` a call carries the token of the user shown | `ShownInv`: token and user change together, but for loads and answers 401 |
| `PagesAreServed` | `SeededRoles =>` no page that knows its user's role asks what the API refuses | `ServedInv`: the role shown is a role of the seed, and page by page its calls are in the roles of the controllers |
| `SeedingLeavesTheDemonstration` | a run of the script that ends leaves every next number free, whatever the shop did meanwhile; when the shop waited, exactly the demonstration, with a kardex one unit above the shelf | `SeedInv`: below |
| `FormsSaveWhatTheyShow` | a form accepted saves what it displayed, and reopens so; of a user who waits for lookups, a RUC is that of a company | `FormsInv`, `CompaniesInv`: below |
| `TerminalsCartIsUnsold` | the cart of a seller who may confirm was sold at most once for each answer lost | `TerminalsInv`: while a sale is sent its button waits; it can be sold once more only when its answer is lost or refuses; once it is answered one list is awaited, the terminal's own, and the cart is emptied before it is asked for |
| `ClientsCartIsUnsold` | the same in the history that has the other pages (`ClientSpec`) | as above; the pages and the terminals share no variable |
| `ClientsPagesSettle` | for any table of pages, filters and bounds: spinners end; a page at rest without a message shows rows that answer its filter and are no older than what it was told, unless one of the six hitches happened; dialogs keep their filter | `ScreensInv`: below |
| `CataloguesOfferOnce` | `ItemsAtStartDiffer =>` for patient clients, no supplier offers anything twice | `BuyingInv`: one handler at a time, and what it found of the rows (`ReadsHold`) is so until it writes |
| `PurchasesAreOfTheCatalogue` | `ItemsAtStartDiffer =>` for patient clients, orders are of active suppliers and of what they offer, whatever the form showed | an action property from `BuyingInv`: the items checked so far are still on offer (`OrderHolds`) |

*Sessions.* The five `Till` theorems need the hypothesis that no user has two
requests in flight, which the client's forms approximate and the API does not
enforce; without it each of the session rules fails (section 8). Under
it, what a handler has read of its user's session cannot go stale, since only that
user's handlers write it. `DeskInv` says so for each label (a session being closed
is still open, its draft still equals the row, its sums still equal its movements);
`TillDesk` extends it to sales: what a sale or refund is about to post goes into a
session its user still has open. `SaleMoves` and `CashMoves` give the footprint of
every step of one component on the other's variables, so the two inductive
invariants are combined without going through the actions again.

*The shop.* `ShopInv` joins the invariants of the sales with those of the quick services
(`QuickInv`), the purchases (`BuyInv`) and the service orders (`RepairInv`, the part of
`BenchInv` that needs no technician of one's own). Each component has a footprint lemma
(`QuickKeeps`, `BuyKeeps`, `WorkKeeps`) and a frame lemma (`SalesStay`, `QuickStays`, `BuyStays`,
`RepairStays`), so that `NextShop` combines them without going through the actions again.
`KardexInv` adds what a transaction has moved and not committed (`MovedAt`), label by label:
the items of its order that a sale has taken or a cancellation has put back, the items that a
reception has stored, the part that a service order has taken; and that a cancellation puts
back the order of the sale it read (`ReturnsAt`). It is needed since the equation relates committed rows
only: at the commit, movements and document enter together, by the same amount
(`KardexBalances`), and `BackMoves`, `ArrivedMoves` and `FittedMoves` say what one document adds to
its sum. Nothing is assumed of who runs at once.

*Stock and documents.* `KardexMatchesDocuments` holds however requests interleave; what goes wrong
when they do is the stock, which is overwritten from stale reads. `ExactInv` says when it is not: the
committed stock is what there was plus the committed movements, the newest version of a row differs from
it by what the one handler has moved (`RowsExact`), and what a handler has read of the row it is
about to overwrite is what the row holds (`ReadExactly`). `RowStep` is the shape of every step of
every component on the rows; `RowsStayExact` does the arithmetic once. Then `BackIsSold` turns the sum over
all registered sales, weighted by their cancellations, into the sum over those that stand
(`SumCancelled`), which needs that none was cancelled twice. The hypothesis `OneRequest` is that of the run
`shop_one_at_a_time`; for the receptions alone `OneAdminSlot` is enough, since only
administrators buy.

*Reports.* A report is a sum over committed rows, so its equations are those of the tables behind
it. `MoneyInv` says that what all sessions took per type and method is what sales were paid, quick
services earned less refunds, and purchases spent from a till (`BooksBalance`); that what a transaction
has posted and not committed is that of the document which commits with it (`DueAt`); that
a service is refunded at what it cost (`ServesAt`); and that there is an open session wherever something was sold
(`SellersHaveTills`), since a cancellation without one refunds nothing and the equation would
fail. It is kept component by component (`SalesKeepMoney`, `QuickKeepsBooks`, `PurchasesKeepBooks`),
with one lemma per document that is registered. From it the totals follow by exchanging the order
of summation: over methods and over rows (`SumByMethod`), and over the products of an order and the orders
(`SumOfCosts`, for `GoodsAtCost`), which is why the products are finite in number. `WorkshopInv` carries
the invariants of the workshop to the shop: while one request runs nobody else is at work on an order
(`OneTechnician`), and the receipt of a service order adds up because its `partsCost` does. `QuietInv`
says that no handler of the shop deactivates a product, which the value of the shelf needs. An alert
compares with zero only, so cutting a list does not change it (`AlertsCount`).

*Seeding.* `SeedInv` says at each statement what the script has done, for any number of documents.
`NumbersFit`: but for the codes of the demonstration, which cleanups remove and the next run
puts back, the numbers have no gap; so once all those codes are there `count + 1` is free
(`CompleteNumbersGoOn`), although during a run it may not be. `RunLeaves` is what the shop at work cannot undo,
since nothing of the shop touches the script's upserts, its history or its session.
`ShopWaits` is the rest, for a shop that waits: stock, session, cash and totals are
those of the documents inserted so far, the history one unit above the stock (`CountedTwice`), counted kind by kind (`Done`), with the stock one statement ahead of
its history (`Moved`, `Recorded`, `Balance`). It starts with nothing left in the session,
because the foreign keys (`DrawerHolds`) let the cleanup delete it only when empty. One of the
script's statements alone leads to `finished` (`FinishIsLast`).

*Forms.* One lemma per form (`CustomerSaves`, `ProductSaves`, ...) follows an entry whose inputs
accept it through the page's body and the handler into the row; they rest on `SavedByKeys`, which
reduces a saved form to its keys: what is stored reads as entered, and what is absent was cleared or
not on display. `FormsInv` says what those lemmas need of a history with any number of touches,
lookups and rounds of editing: an open form edits the row it opened with, its inputs are those of the blank
form and hold a text, no row holds `absent`. Two forms never get that far, since the pipe refuses a
product edited (`StockIsRefused`) and the row of the business (`BusinessIsRefused`). `CompaniesInv` is
for a user who waits: a lookup of eleven digits under way means that the form is still a company's.
The proof went beyond the bound of the run: after four touches, an answer
about a natural person's document may come to a form that has become a company's, whose hidden kind of
document then says DNI while the form sends RUC; `Settled` states what the form gives there.

*Pages.* `PagesSettle` speaks of a page at rest, so `ScreensInv` has to say what the requests in flight
will leave. `RowsAreRight`: while no hitch is recorded, the *last* load in flight (`LastReadAnswers`) asks with
the filter of the page and cannot be served before what the page was told of; if none is in flight
and no message is shown, the rows are already so. That needs `RowsComeInOrder` for pages that show the rows
their writes answer: what is in flight is served in the order sent, or a hitch says that it was not.
`AreOfThePage` says that a dialog keeps the filter. `AskKeepsInv` does the case
of a load asked or skipped once for the five actions that end in one. The proof uses of the table only
`PageAssumption`, which TLC evaluates on `Pages`: a page whose handlers show answers never loads again.

*Sums.* Takings, charges and refunds are sums over a table that grows. The folds of
the community modules are recursive functions chosen by `CHOOSE`, so that a sum over
a set with one more element is not the sum plus the element until an induction says so.
`Sales_proofs` carries out that induction without a theorem that takes an operator: the finite
subsets for which a sum is well defined are a set of sets, and a smallest
one outside it would have a smaller one outside it (`WFMin` with
`FS_StrictSubsetOrderingWellFounded`). From `SumFunctionOnSet` follow `SumAdded` (one more row),
`SumChanged` (one row with another value), `SumSame` (no row of the sum touched) and
`SumSplit`, which the proofs about money cite. The sums themselves are stated in the modules
they are about: `Sales`, `ServiceOrders`, `QuickServices`.

*Serialisation.* `SalesKardexExplainsStock` and `SalesImplementLedger` are about
`SellSpec`, sales alone: with cancellations they are false, as a cancellation
overwrites the stock.

*Hypotheses.* `OneAdminSlot`: one slot alone belongs to an administrator; two cancellations of one
sale, and two receptions of one order, are findings. `OneRequest`: the server handles one request at a
time; a sale that overlaps a cancellation or a reception is a finding. `OneTab`: the store of the client is one per tab, the token one per browser,
so with two tabs the property is false. `SeededRoles`: users who are not administrators
have one of the other roles the seed writes, as every page assumes. `NoManualMovements`:
a manual movement enters the same totals, so the equation is about sessions without
any, which is also what the run explores. `BenchSpec` has one technician per order, as
`OneTechnicianNext` says. `ItemsAtStartDiffer`: the database does not start with two catalogue
rows of one supplier for the same thing. Each of them holds in the run that checks the property.

*Serial sales.* `SalesSerialised` is proved and not run: it is a consequence of the invariant of the codes.

*Only model-checked.* `AnsweredWithoutTimeout`, since liveness under fairness is
out of the prover's reach, and `SalesAreAtomic` needs none of it. `PagesForestallRefusals`
compares what some thirty forms send with DTOs that bound the lengths of texts: TLC computes the
length of a string, the provers cannot.

## 8. Disagreements found

`PROJECT.json` (`findings`) quotes the line each one contradicts. All were met while
modelling, by reading and by TLC's counterexamples to stronger forms of the
properties above. In short:

* *Stock and documents.* `cancel` and `adjustStock` write stocks computed from
  unlocked reads; `receive` computes what is pending from one; sales, quick services and
  purchases are cancelled on a status that is not rechecked; changes of a service order
  and its parts are computed from a stale row; the limit of photos is counted, then used.
* *Cash.* `open` checks outside its transaction and no index backs it up; `close`
  rechecks without a lock; a sale reads its session without a lock; the refund of a quick
  service enters a closed session.
* *Administration.* Two administrators can demote each other; an empty answer of the AI
  is cached, and its net profit takes the expenses of the last movements from a month's
  sales; a document may be issued for a sale cancelled meanwhile; free names of
  a catalogue repeat; an edit of a replaced catalogue row is lost and reported as done.
* *Client.* A lost answer leaves the cart to be sold again; the form shows the
  catalogue of another supplier; lists show the answer to another filter; a late 401
  signs out the next user; two tabs share the token and not the user; a cashier's
  point of sale never loads. Each hitch of `Screens` occurs on some page: answers overtake one
  another on all; `setCustomerStatus`, `deactivateSupplier`, the form of cash movements and
  the quick services load with the filter they were started with after it was changed; a notice read during
  a load is not loaded again; the detail of a service order and the quick services
  lose failures without a word; handlers that load nothing clear the message of a failed load; offline, customers
  and service orders show rows of another filter. A quick service that was registered is reported
  as failed when the list after it fails.
* *Forms against the API.* Products cannot be edited from their form, nor business data
  saved, nor customers without e-mail, nor a technician's diagnosis; the supplier form never
  has products to link; optional texts cannot be cleared; a reception of nothing
  receives everything; options of a quick service are dropped; a status typed into the filter
  stops every report; pictures undo what was typed during their upload; dialogs
  stay busy after a refusal, and a registered order may be reported as failed.
* *Documents against code.* The strategy of the production example sends a test; confirming an
  online order reserves nothing; administrators' buttons are shown to every role;
  the offline mode promised for products loses the session or the list.

Conditional updates (as the decrement of `create` already does) or
`SELECT ... FOR UPDATE` would remove the first group and most of the second.

## 9. Not modelled

* **Inventory**: the previous and new stock that a movement *records* (their difference is);
  the movement of a product's first stock.
* **Users**: hashes of passwords, profile photos; tokens.
* **Reports**: rankings, periods, filters and exports. What is modelled keeps
  peculiarities that the properties state as they are: the summary subtracts purchases
  paid from the till twice, the amounts per method of the cash report add expenses,
  `profitabilityBasic` counts the costs of cancelled sales,
  a cancelled sale is refunded in cash in full even if less was paid, a delivered
  order without `deliveredAt` is in no count of the dashboard. Each report
  is one snapshot here; the code issues one query per table.
* **WhatsApp**: wording, PDF contents. Peculiarities kept: `WHATSAPP_ENABLED` does not
  stop `sendSaleReceipt`, plain messages call Meta also in mode `link`, and the
  audit of `sendAndLog` names the attempt even when it failed.
* **AI**: how an answer is worded; the Python service. The counts and the income of the context are in
  `Reports`; its sums over the last 10 or 40 cash movements are not, since the tables keep sums of
  movements and not their order, nor the alert of a difference of cash, which reads the
  newest open session, whose difference is 0 until it closes.
* **Suppliers**: costs, lead times, and the comparison of names by case and white space; the
  client has no screen for the endpoints of single catalogue rows, which are modelled.
* **Point of sale**: discounts, customers, references, receipts.
* **Purchase form**: what its quantities, costs, discounts and payment add up to
  (`Forms` has the values they accept).
* **Payments and integrations** (`payments/`, `integrations/`): simulated providers whose
  rows nothing reads; the webhook stands behind the guard for users' tokens, so
  a provider's call is refused.
* **Document lookup, public receipts, audit log**: a proxy without state; signatures and PDFs (the
  receipts' figures are in `Reports`); appended rows nothing reads back.
* **Scripts** (`scripts/backfill-*.ts`): run once over an idle database; the tables of demonstration
  data that the seed writes (`Seeding` models the order and the effects of its statements).
* **Forms**: upper bounds of lengths, what an input does while it is typed in, the order of
  messages, and lists of lines beyond empty or not (a line is a form of its own).
* **Pages**: what each row of a list says, and which of several lists read at once arrived
  (they are awaited together); a page's dialogs beyond the filter they keep.
* **The rest of the client**: tables, layout, formatting, exports, technical
  specification tables, service worker. This is most of the
  repository's lines: markup and data without control, which a model would only repeat.
* **Floating point** in `close` (`cash/cash.service.ts:111`): the model's difference
  is exact.
* Exception filters, throttling, the network.

## 10. Plan

1. **Refinement**: an abstract cash desk implemented by `Till` under `OneRequestPerUser`.
2. **Models**: the rest of Inventory (the levels that movements record), a second tab, the
   service worker, the backfill scripts beside the shop.

----------------------------- MODULE PointOfSale ------------------------------
(***************************************************************************)
(* usePOS, the React hook behind the point of sale: the cart, the list of  *)
(* products it was filled from and the sale that is being confirmed.  Only *)
(* the confirm button waits: products are loaded again whenever the seller *)
(* searches, and the cart can be edited while a sale is being saved.       *)
(* Discounts, customers and references are left out; payments cover the    *)
(* total, as confirmSale requires.  A client that is not at the point of   *)
(* sale shows one of the pages of Screens.                                 *)
(***************************************************************************)
EXTENDS Sales, Screens, FiniteSets

CONSTANTS
    Terminal,   \* the slots whose client is a point of sale
    Price,      \* Product.salePrice
    MaxLoads    \* bound: answers of product lists on their way to a terminal

ASSUME TerminalAssumption ==
    /\ Terminal \subseteq Request
    /\ Price \in [Product -> Nat]
    /\ MaxLoads \in Nat

VARIABLES
    cart,       \* lines [product, quantity, stock]: the stock is the one shown
    shelf,      \* stock of the products listed, as last shown
    picked,     \* the product open in the detail dialog, as it was listed, or None
    coming,     \* lists on their way: their stocks, and whether isSaving waits for them
    saving      \* isSaving: "no", "sent", then "loading" until the list is shown

posVars == <<cart, shelf, picked, coming, saving>>

Smaller(m, n) == IF m < n THEN m ELSE n

LineOf(t, p) == {i \in DOMAIN cart[t] : cart[t][i].product = p}

-----------------------------------------------------------------------------
(* loadInitialData *)

\* The server reads the products that match the search.
FetchProducts(t, matching, own) ==
    /\ Cardinality(coming[t]) < MaxLoads
    /\ own => saving[t] = "loading" /\ \A load \in coming[t] : ~load.own
    /\ coming' = [coming EXCEPT ![t] = @ \cup {[rows |-> [p \in matching |-> stock[p]], own |-> own]}]
    /\ UNCHANGED <<cart, shelf, picked, saving>>

\* A line takes the stock listed, and no more units than that.
Refresh(line, rows) ==
    IF line.product \in DOMAIN rows
    THEN [line EXCEPT !.stock = rows[line.product], !.quantity = Smaller(@, rows[line.product])]
    ELSE line

Refreshed(lines, rows) ==
    SelectSeq([i \in DOMAIN lines |-> Refresh(lines[i], rows)], LAMBDA line : line.quantity > 0)

\* Lists arrive in any order.
ShowProducts(t, load) ==
    /\ load \in coming[t]
    /\ shelf' = [shelf EXCEPT ![t] = load.rows]
    /\ cart' = [cart EXCEPT ![t] = Refreshed(@, load.rows)]
    /\ coming' = [coming EXCEPT ![t] = @ \ {load}]
    /\ saving' = [saving EXCEPT ![t] = IF load.own THEN "no" ELSE @]
    /\ UNCHANGED picked

LoseProducts(t, load) ==
    /\ load \in coming[t]
    /\ coming' = [coming EXCEPT ![t] = @ \ {load}]
    /\ saving' = [saving EXCEPT ![t] = IF load.own THEN "no" ELSE @]
    /\ UNCHANGED <<cart, shelf, picked>>

-----------------------------------------------------------------------------
(* the cart *)

Listed(t) == {[product |-> p, stock |-> shelf[t][p]] : p \in DOMAIN shelf[t]}

\* The dialog keeps the product as it was listed when it was opened.
PickProduct(t, item) ==
    /\ item \in Listed(t)
    /\ picked' = [picked EXCEPT ![t] = item]
    /\ UNCHANGED <<cart, shelf, coming, saving>>

\* addProduct, from the list or from the dialog.
AddProduct(t, item, n) ==
    /\ item \in Listed(t) \/ item = picked[t]
    /\ item.stock > 0
    /\ \/ \E i \in LineOf(t, item.product) :
            /\ cart[t][i].quantity + n <= item.stock
            /\ cart' = [cart EXCEPT ![t][i].quantity = @ + n]
       \/ /\ LineOf(t, item.product) = {}
          /\ cart' = [cart EXCEPT ![t] = Append(@,
               [product |-> item.product, quantity |-> Smaller(n, item.stock), stock |-> item.stock])]
    /\ UNCHANGED <<shelf, picked, coming, saving>>

UpdateQuantity(t, i, n) ==
    /\ i \in DOMAIN cart[t]
    /\ cart' = [cart EXCEPT ![t][i].quantity = Smaller(n, cart[t][i].stock)]
    /\ UNCHANGED <<shelf, picked, coming, saving>>

RemoveProduct(t, i) ==
    /\ i \in DOMAIN cart[t]
    /\ cart' = [cart EXCEPT ![t] = RemoveAt(@, i)]
    /\ UNCHANGED <<shelf, picked, coming, saving>>

ClearCart(t) ==
    /\ cart[t] # <<>>
    /\ cart' = [cart EXCEPT ![t] = <<>>]
    /\ UNCHANGED <<shelf, picked, coming, saving>>

-----------------------------------------------------------------------------
(* confirmSale *)

\* What is posted to /sales.
OrderOf(lines) ==
    LET total == FoldLeft(LAMBDA sum, line : sum + Price[line.product] * line.quantity, 0, lines)
    IN  [items |-> [i \in DOMAIN lines |->
                      [product |-> lines[i].product, quantity |-> lines[i].quantity]],
         total |-> total,
         pays  |-> [m \in {"CASH", "YAPE", "MIXED"} |-> IF m = "CASH" THEN total ELSE 0]]

Confirm(t) ==
    /\ saving[t] = "no"
    /\ cart[t] # <<>>
    /\ \A i \in DOMAIN cart[t] : cart[t][i].stock > 0 /\ cart[t][i].quantity <= cart[t][i].stock
    /\ saving' = [saving EXCEPT ![t] = "sent"]
    /\ UNCHANGED <<cart, shelf, picked, coming>>

\* Faulty variant: the cart is left for the reload to empty.
FaultySold(t) ==
    /\ saving[t] = "sent"
    /\ saving' = [saving EXCEPT ![t] = "loading"]
    /\ UNCHANGED <<cart, shelf, picked, coming>>

\* The sale is answered: the cart as it is by then is emptied.
Sold(t) ==
    /\ saving[t] = "sent"
    /\ cart' = [cart EXCEPT ![t] = <<>>]
    /\ saving' = [saving EXCEPT ![t] = "loading"]
    /\ UNCHANGED <<shelf, picked, coming>>

\* An error is answered, or none at all: the cart stays.
NotSold(t) ==
    /\ saving[t] = "sent"
    /\ saving' = [saving EXCEPT ![t] = "loading"]
    /\ UNCHANGED <<cart, shelf, picked, coming>>

-----------------------------------------------------------------------------
\* What the seller and the network do without the sale being answered.
Browse(t) ==
    \/ \E matching \in SUBSET Product, own \in BOOLEAN : FetchProducts(t, matching, own)
    \/ \E load \in coming[t] : ShowProducts(t, load) \/ LoseProducts(t, load)
    \/ \E item \in Listed(t) : PickProduct(t, item)
    \/ \E item \in Listed(t) \cup ({picked[t]} \ {None}) :
         \E n \in 1..item.stock : AddProduct(t, item, n)
    \/ \E i \in DOMAIN cart[t] :
         \/ \E n \in 1..cart[t][i].stock : UpdateQuantity(t, i, n)
         \/ RemoveProduct(t, i)
    \/ ClearCart(t)

PosInit ==
    /\ cart = [t \in Terminal |-> <<>>]
    /\ shelf = [t \in Terminal |-> <<>>]
    /\ picked = [t \in Terminal |-> None]
    /\ coming = [t \in Terminal |-> {}]
    /\ saving = [t \in Terminal |-> "no"]

-----------------------------------------------------------------------------
(* The points of sale, the server that registers their sales and the sales *)
(* that others register and cancel meanwhile.  A terminal is the slot of   *)
(* its requests: isSaving lets it post one sale at a time.                 *)

VARIABLES
    answer,     \* what the server has answered to the sale of a terminal
    bought,     \* sales registered of what a terminal has in its cart
    lost        \* the answers to them that were lost

terminalVars == <<vars, posVars, answer, bought, lost>>

TerminalsInit ==
    /\ Init /\ PosInit
    /\ answer = [t \in Terminal |-> "none"]
    /\ bought = [t \in Terminal |-> 0] /\ lost = bought

\* An empty cart holds nothing that was sold.
EmptyCarts(losses) ==
    /\ bought' = [t \in Terminal |-> IF cart'[t] = <<>> THEN 0 ELSE bought[t]]
    /\ lost' = [t \in Terminal |-> IF cart'[t] = <<>> THEN 0 ELSE losses[t]]

Browsing(t) ==
    /\ Browse(t)
    /\ EmptyCarts(lost)
    /\ UNCHANGED <<vars, answer>>

Confirming(t) ==
    /\ Confirm(t)
    /\ StartSale(t, OrderOf(cart[t]))
    /\ UNCHANGED <<answer, bought, lost>>

\* The server registers the sale of t, or refuses it.
Selling(t) ==
    /\ UNCHANGED <<posVars, lost>>
    /\ \/ /\ ValidateItem(t) \/ CountSales(t) \/ InsertSale(t)
             \/ DecrementStock(t) \/ CollectPayment(t)
          /\ UNCHANGED <<answer, bought>>
       \/ /\ CommitSale(t)
          /\ answer' = [answer EXCEPT ![t] = "sold"]
          /\ bought' = [bought EXCEPT ![t] = IF cart[t] = <<>> THEN 0 ELSE @ + 1]
       \/ /\ RollbackSale(t)
          /\ answer' = [answer EXCEPT ![t] = "refused"]
          /\ UNCHANGED bought

\* The answer arrives; of a lost one the terminal learns that the request failed.
Hearing(t) ==
    /\ \/ answer[t] = "sold" /\ Sold(t) /\ EmptyCarts(lost)
       \/ answer[t] = "refused" /\ NotSold(t) /\ EmptyCarts(lost)
       \/ answer[t] = "sold" /\ NotSold(t) /\ EmptyCarts([lost EXCEPT ![t] = @ + 1])
    /\ answer' = [answer EXCEPT ![t] = "none"]
    /\ UNCHANGED vars

\* Another client of the server.
SellingElsewhere(r) ==
    /\ \/ \E o \in Order : StartSale(r, o)
       \/ \E n \in SaleNumber : StartCancel(r, n)
       \/ CreateStep(r) \/ CancelStep(r) \/ RollbackSale(r)
    /\ UNCHANGED <<posVars, answer, bought, lost>>

TerminalsNext ==
    \/ \E t \in Terminal : Browsing(t) \/ Confirming(t) \/ Selling(t) \/ Hearing(t)
    \/ \E r \in Request \ Terminal : SellingElsewhere(r)

TerminalsSpec == TerminalsInit /\ [][TerminalsNext]_terminalVars

-----------------------------------------------------------------------------
(* The client: the router shows the point of sale or another page, and each *)
(* keeps its state in hooks of its own.                                    *)

NoPage == "none"

ScreenClosed ==
    /\ screen = NoPage
    /\ watched = FALSE
    /\ filter = CHOOSE f \in Filter : TRUE
    /\ table = 1
    /\ shown = Rows(filter, 0) /\ stash = shown
    /\ loading = FALSE /\ error = FALSE /\ hidden = FALSE
    /\ flights = <<>>
    /\ told = 0
    /\ hitches = {}

clientVars == <<terminalVars, screenVars>>

ClientInit == TerminalsInit /\ (ScreenClosed \/ ScreenInit)

ClientNext ==
    \/ screen = NoPage /\ TerminalsNext /\ UNCHANGED screenVars
    \/ screen # NoPage /\ ScreenNext /\ UNCHANGED terminalVars

ClientSpec == ClientInit /\ [][ClientNext]_clientVars

-----------------------------------------------------------------------------
(* Properties *)

\* A seller who may confirm has nothing in the cart that was sold already, but
\* for one sale for each answer that was lost since the cart was last empty,
\* whatever was refused, edited or reloaded in between: after a lost answer the
\* next confirmation sells the cart again, as the request carries no key of its
\* own, and nothing else does.
CartIsUnsold ==
    \A t \in Terminal : saving[t] = "no" => bought[t] <= lost[t]

-----------------------------------------------------------------------------
(* A small instance for TLC: one terminal, one other client and two units  *)
(* of one product.                                                         *)

CONSTANTS r1, r2, ana, ram, f1, f2

MCUserOf == [r \in Request |-> ana]
MCTellers == <<ana>>
MCStock == [p \in Product |-> 2]
MCPrice == [p \in Product |-> 1]

\* What a terminal may confirm.
MCOrders ==
    {[items |-> <<[product |-> ram, quantity |-> n]>>, total |-> n,
      pays |-> [m \in Method |-> IF m = "CASH" THEN n ELSE 0]] : n \in 1..2}
MCTaken ==
    [o \in MCOrders |-> [i \in 0..1 |->
        [p \in Product |-> IF i = 0 THEN 0 ELSE o.items[1].quantity]]]
=============================================================================

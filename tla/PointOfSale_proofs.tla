-------------------------- MODULE PointOfSale_proofs ---------------------------
(***************************************************************************)
(* What holds at every point of sale: at the terminals of PointOfSale,     *)
(* however many there are, whatever they sell and whoever else sells and   *)
(* cancels meanwhile; and on every page written as those of Screens are.   *)
(***************************************************************************)
EXTENDS PointOfSale, SequenceTheorems, TLAPS

-----------------------------------------------------------------------------
(* The inductive invariant *)

\* The variables are functions of the terminals.
PosDomains ==
    /\ DOMAIN pc = Request
    /\ DOMAIN cart = Terminal /\ DOMAIN coming = Terminal /\ DOMAIN saving = Terminal
    /\ DOMAIN answer = Terminal /\ DOMAIN bought = Terminal /\ DOMAIN lost = Terminal

\* While the server works on a sale of t, or has answered it and the answer is
\* on its way, isSaving holds the confirm button back.
AnswerIsAwaited(t) ==
    /\ pc[t] \in CreateLabel \cup {"idle"}
    /\ pc[t] \in CreateLabel => saving[t] = "sent" /\ answer[t] = "none"
    /\ answer[t] # "none" => saving[t] = "sent"

\* isSaving waits for one list, and only for one that confirmSale asked for.
ListIsAwaited(t) ==
    \A load \in coming[t] :
        load.own => /\ saving[t] = "loading"
                    /\ \A other \in coming[t] : other.own => other = load

\* What was sold stays in the cart only until its answer is heard or lost.
SoldUntilHeard(t) ==
    /\ bought[t] \in Nat /\ lost[t] \in Nat
    /\ \/ bought[t] <= lost[t]
       \/ bought[t] = lost[t] + 1 /\ saving[t] = "sent" /\ answer[t] = "sold"

\* A step forgets what was bought at t, or leaves it.
Forgets(t) ==
    \/ bought'[t] = 0 /\ lost'[t] = 0
    \/ bought'[t] = bought[t] /\ lost'[t] = lost[t]

TerminalInv(t) == AnswerIsAwaited(t) /\ ListIsAwaited(t) /\ SoldUntilHeard(t)

TerminalsInv == PosDomains /\ \A t \in Terminal : TerminalInv(t)

-----------------------------------------------------------------------------
(* Lemmas *)

\* A terminal that a step leaves alone.
LEMMA TerminalUntouched ==
    ASSUME NEW t \in Terminal, TerminalInv(t), Forgets(t),
           pc'[t] = pc[t], saving'[t] = saving[t], coming'[t] = coming[t],
           answer'[t] = answer[t]
    PROVE  TerminalInv(t)'
  BY DEF TerminalInv, AnswerIsAwaited, ListIsAwaited, SoldUntilHeard, Forgets

\* A statement of create executed for r: pc of no other slot changes, and that
\* of r goes from a statement of create to another.
LEMMA CreateStepsOn ==
    ASSUME DOMAIN pc = Request, NEW r \in Request,
           \/ ValidateItem(r) \/ CountSales(r) \/ InsertSale(r)
           \/ DecrementStock(r) \/ CollectPayment(r)
    PROVE  /\ DOMAIN pc' = Request
           /\ \A q \in Request \ {r} : pc'[q] = pc[q]
           /\ pc[r] \in CreateLabel /\ pc'[r] \in CreateLabel
<1>1. PICK from, to \in CreateLabel : Step(r, from, to)
  BY DEF ValidateItem, CountSales, InsertSale, DecrementStock, CollectPayment, NextItem,
         CreateLabel
<1>2. QED
  BY <1>1 DEF Step

\* What another client does leaves the handlers of the terminals alone.
LEMMA ElsewhereLeavesTerminals ==
    ASSUME DOMAIN pc = Request, NEW r \in Request, SellingElsewhere(r)
    PROVE  /\ DOMAIN pc' = Request
           /\ \A q \in Request \ {r} : pc'[q] = pc[q]
<1>1. PICK to : pc' = [pc EXCEPT ![r] = to]
  <2>1. CASE \E o \in Order : StartSale(r, o)
    BY <2>1 DEF StartSale, Step
  <2>2. CASE \E n \in SaleNumber : StartCancel(r, n)
    BY <2>2 DEF StartCancel, Step
  <2>3. CASE CreateStep(r)
    BY <2>3 DEF CreateStep, ValidateItem, CountSales, InsertSale, DecrementStock,
                CollectPayment, CommitSale, NextItem, Step
  <2>4. CASE CancelStep(r)
    BY <2>4 DEF CancelStep, ReadStock, Restock, MarkCancelled, RefundSale, CommitCancel,
                NextItem, Step
  <2>5. CASE RollbackSale(r)
    BY <2>5 DEF RollbackSale
  <2>6. QED
    BY <2>1, <2>2, <2>3, <2>4, <2>5 DEF SellingElsewhere
<1>2. QED
  BY <1>1

-----------------------------------------------------------------------------
(* One lemma per action of a terminal; u is any terminal. *)

LEMMA TerminalsInvInit ==
    ASSUME TerminalsInit
    PROVE  TerminalsInv
  BY TerminalAssumption DEF TerminalsInit, Init, PosInit, TerminalsInv, PosDomains, TerminalInv, AnswerIsAwaited,
         ListIsAwaited, SoldUntilHeard, CreateLabel

\* EmptyCarts only ever forgets what was bought.
LEMMA EmptyCartsForget ==
    ASSUME NEW losses, EmptyCarts(losses)
    PROVE  /\ DOMAIN bought' = Terminal /\ DOMAIN lost' = Terminal
           /\ \A u \in Terminal :
                \/ bought'[u] = 0 /\ lost'[u] = 0
                \/ cart'[u] # <<>> /\ bought'[u] = bought[u] /\ lost'[u] = losses[u]
           /\ losses = lost => \A u \in Terminal : Forgets(u)
  BY DEF EmptyCarts, Forgets

\* The list that was asked for comes or is lost: the button is released.
LEMMA ListEnds ==
    ASSUME TerminalsInv, NEW t \in Terminal, NEW l \in coming[t],
           coming' = [coming EXCEPT ![t] = @ \ {l}],
           saving' = [saving EXCEPT ![t] = IF l.own THEN "no" ELSE @],
           EmptyCarts(lost), UNCHANGED <<pc, answer>>
    PROVE  \A u \in Terminal : TerminalInv(u)'
<1>1. TAKE u \in Terminal
<1>2. Forgets(u) /\ TerminalInv(u) /\ PosDomains
  BY EmptyCartsForget DEF TerminalsInv
<1>3. CASE u # t
  <2>1. saving'[u] = saving[u] /\ coming'[u] = coming[u]
    BY <1>2, <1>3 DEF PosDomains
  <2>2. QED
    BY <1>2, <2>1, TerminalUntouched
<1>4. CASE u = t
  <2>1. coming'[u] = coming[u] \ {l} /\ saving'[u] = IF l.own THEN "no" ELSE saving[u]
    BY <1>2, <1>4 DEF PosDomains
  <2>2. l.own => saving[u] = "loading" /\ \A other \in coming[u] : other.own => other = l
    BY <1>2, <1>4 DEF TerminalInv, ListIsAwaited
  <2>3. saving'[u] = saving[u] \/ (saving[u] = "loading" /\ saving'[u] = "no")
    BY <2>1, <2>2
  <2>4. AnswerIsAwaited(u)'
    BY <1>2, <2>3 DEF TerminalInv, AnswerIsAwaited
  <2>5. ListIsAwaited(u)'
    <3>1. CASE l.own
      BY <2>1, <2>2, <3>1 DEF ListIsAwaited
    <3>2. CASE ~l.own
      BY <1>2, <2>1, <3>2 DEF TerminalInv, ListIsAwaited
    <3>3. QED
      BY <3>1, <3>2
  <2>6. SoldUntilHeard(u)'
    BY <1>2, <2>3 DEF TerminalInv, SoldUntilHeard, Forgets
  <2>7. QED
    BY <2>4, <2>5, <2>6 DEF TerminalInv
<1>5. QED
  BY <1>3, <1>4

LEMMA FetchKeepsInv ==
    ASSUME TerminalsInv, NEW t \in Terminal, NEW matching, NEW own \in BOOLEAN,
           FetchProducts(t, matching, own), EmptyCarts(lost), UNCHANGED <<pc, answer>>
    PROVE  \A u \in Terminal : TerminalInv(u)'
<1>1. TAKE u \in Terminal
<1>2. Forgets(u) /\ TerminalInv(u) /\ PosDomains /\ saving' = saving
  BY EmptyCartsForget DEF TerminalsInv, FetchProducts
<1>3. PICK rows : coming' = [coming EXCEPT ![t] = @ \cup {[rows |-> rows, own |-> own]}]
  BY DEF FetchProducts
<1>4. own => saving[t] = "loading" /\ \A load \in coming[t] : ~load.own
  BY DEF FetchProducts
<1>5. CASE u # t
  <2>1. coming'[u] = coming[u]
    BY <1>2, <1>3, <1>5 DEF PosDomains
  <2>2. QED
    BY <1>2, <2>1, TerminalUntouched
<1>6. CASE u = t
  <2>1. PICK new : new = [rows |-> rows, own |-> own]
    OBVIOUS
  <2>0. new.own = own
    BY <2>1
  <2>2. coming'[u] = coming[u] \cup {new}
    BY <1>2, <1>3, <1>6, <2>1 DEF PosDomains
  <2>3. ListIsAwaited(u)'
    BY <1>2, <1>4, <1>6, <2>0, <2>2 DEF TerminalInv, ListIsAwaited
  <2>4. AnswerIsAwaited(u)' /\ SoldUntilHeard(u)'
    BY <1>2 DEF TerminalInv, AnswerIsAwaited, SoldUntilHeard, Forgets
  <2>5. QED
    BY <2>3, <2>4 DEF TerminalInv
<1>7. QED
  BY <1>5, <1>6

\* The seller edits the cart, opens the dialog or clears the cart.
LEMMA EditKeepsInv ==
    ASSUME TerminalsInv, EmptyCarts(lost), UNCHANGED <<coming, saving, pc, answer>>
    PROVE  \A u \in Terminal : TerminalInv(u)'
<1>1. TAKE u \in Terminal
<1>2. Forgets(u) /\ TerminalInv(u)
  BY EmptyCartsForget DEF TerminalsInv
<1>3. QED
  BY <1>2, TerminalUntouched

LEMMA BrowsingKeepsInv ==
    ASSUME TerminalsInv, NEW t \in Terminal, Browsing(t)
    PROVE  TerminalsInv'
<1>1. Browse(t) /\ EmptyCarts(lost) /\ UNCHANGED <<pc, answer>>
  BY DEF Browsing, vars
<1>2. DOMAIN bought' = Terminal /\ DOMAIN lost' = Terminal
  BY <1>1, EmptyCartsForget
<1>3. DOMAIN cart' = DOMAIN cart /\ DOMAIN coming' = DOMAIN coming /\ DOMAIN saving' = DOMAIN saving
  BY <1>1 DEF Browse, FetchProducts, ShowProducts, LoseProducts, PickProduct, AddProduct,
              UpdateQuantity, RemoveProduct, ClearCart
<1>4. PosDomains'
  BY <1>1, <1>2, <1>3 DEF TerminalsInv, PosDomains
<1>5. CASE \E matching \in SUBSET Product, own \in BOOLEAN : FetchProducts(t, matching, own)
  BY <1>1, <1>4, <1>5, FetchKeepsInv DEF TerminalsInv
<1>6. CASE \E load \in coming[t] : ShowProducts(t, load) \/ LoseProducts(t, load)
  <2>1. PICK load \in coming[t] : ShowProducts(t, load) \/ LoseProducts(t, load)
    BY <1>6
  <2>2. /\ coming' = [coming EXCEPT ![t] = @ \ {load}]
        /\ saving' = [saving EXCEPT ![t] = IF load.own THEN "no" ELSE @]
    BY <2>1 DEF ShowProducts, LoseProducts
  <2>3. \A u \in Terminal : TerminalInv(u)'
    BY <1>1, <2>2, ListEnds
  <2>4. QED
    BY <1>4, <2>3 DEF TerminalsInv
<1>7. CASE UNCHANGED <<coming, saving>>
  <2>1. \A u \in Terminal : TerminalInv(u)'
    BY <1>1, <1>7, EditKeepsInv
  <2>2. QED
    BY <1>4, <2>1 DEF TerminalsInv
<1>8. QED
  BY <1>1, <1>5, <1>6, <1>7 DEF Browse, PickProduct, AddProduct, UpdateQuantity, RemoveProduct,
                                ClearCart

\* Only a terminal that waits for nothing confirms: nothing it has was sold.
LEMMA ConfirmingKeepsInv ==
    ASSUME TerminalsInv, NEW t \in Terminal, Confirming(t)
    PROVE  TerminalsInv'
<1>1. /\ pc' = [pc EXCEPT ![t] = "validate"]
      /\ saving[t] = "no" /\ saving' = [saving EXCEPT ![t] = "sent"]
      /\ UNCHANGED <<cart, coming, answer, bought, lost>>
  BY DEF Confirming, Confirm, StartSale, Step
<1>2. PosDomains /\ PosDomains'
  BY <1>1 DEF TerminalsInv, PosDomains
<1>3. ASSUME NEW u \in Terminal
      PROVE  TerminalInv(u)'
  <2>1. TerminalInv(u) /\ u \in Request
    BY TerminalAssumption DEF TerminalsInv
  <2>2. CASE u # t
    BY <1>1, <1>2, <2>1, <2>2, TerminalUntouched DEF PosDomains, Forgets
  <2>3. CASE u = t
    <3>1. pc'[u] = "validate" /\ saving'[u] = "sent"
      BY <1>1, <1>2, <2>1, <2>3 DEF PosDomains
    <3>2. answer[u] = "none" /\ bought[u] <= lost[u] /\ \A load \in coming[u] : ~load.own
      BY <1>1, <2>1, <2>3 DEF TerminalInv, AnswerIsAwaited, ListIsAwaited, SoldUntilHeard
    <3>3. SoldUntilHeard(u)'
      BY <1>1, <2>1, <3>2 DEF TerminalInv, SoldUntilHeard
    <3>4. AnswerIsAwaited(u)' /\ ListIsAwaited(u)'
      BY <1>1, <3>1, <3>2 DEF AnswerIsAwaited, ListIsAwaited, CreateLabel
    <3>5. QED
      BY <3>3, <3>4 DEF TerminalInv
  <2>4. QED
    BY <2>2, <2>3
<1>4. QED
  BY <1>2, <1>3 DEF TerminalsInv

\* The server answers, sold or refused, what nothing has answered yet.
LEMMA SellingKeepsInv ==
    ASSUME TerminalsInv, NEW t \in Terminal, Selling(t)
    PROVE  TerminalsInv'
<1>1. /\ PosDomains /\ t \in Request /\ DOMAIN pc = Request
      /\ UNCHANGED <<cart, coming, saving, lost>>
  BY TerminalAssumption DEF TerminalsInv, PosDomains, Selling, posVars
<1>2. CASE /\ \/ ValidateItem(t) \/ CountSales(t) \/ InsertSale(t)
              \/ DecrementStock(t) \/ CollectPayment(t)
           /\ UNCHANGED <<answer, bought>>
  <2>1. /\ DOMAIN pc' = Request
        /\ \A q \in Request \ {t} : pc'[q] = pc[q]
        /\ pc[t] \in CreateLabel /\ pc'[t] \in CreateLabel
    BY <1>1, <1>2, CreateStepsOn
  <2>2. ASSUME NEW u \in Terminal
        PROVE  TerminalInv(u)'
    <3>1. TerminalInv(u) /\ u \in Request
      BY TerminalAssumption DEF TerminalsInv
    <3>2. pc'[u] = pc[u] \/ (pc[u] \in CreateLabel /\ pc'[u] \in CreateLabel)
      BY <2>1, <3>1
    <3>3. QED
      BY <1>1, <1>2, <3>1, <3>2 DEF TerminalInv, AnswerIsAwaited, ListIsAwaited, SoldUntilHeard
  <2>3. QED
    BY <1>1, <1>2, <2>1, <2>2 DEF TerminalsInv, PosDomains
<1>3. CASE CommitSale(t) \/ RollbackSale(t)
  <2>1. PICK said \in {"sold", "refused"} :
          /\ answer' = [answer EXCEPT ![t] = said]
          /\ \/ said = "refused" /\ UNCHANGED bought
             \/ said = "sold" /\ bought'[t] \in {0, bought[t] + 1}
          /\ DOMAIN bought' = DOMAIN bought
          /\ \A u \in DOMAIN bought \ {t} : bought'[u] = bought[u]
    <3>1. \A from \in CreateLabel : from # "idle"
      BY DEF CreateLabel
    <3>2. ~ (ValidateItem(t) \/ CountSales(t) \/ InsertSale(t)
             \/ DecrementStock(t) \/ CollectPayment(t))
      <4>1. pc'[t] = "idle"
        BY <1>1, <1>3 DEF CommitSale, RollbackSale, Step
      <4>2. QED
        BY <1>1, <3>1, <4>1, CreateStepsOn
    <3>3. CASE CommitSale(t) /\ answer' = [answer EXCEPT ![t] = "sold"]
               /\ bought' = [bought EXCEPT ![t] = IF cart[t] = <<>> THEN 0 ELSE @ + 1]
      BY <1>1, <3>3 DEF PosDomains
    <3>4. CASE RollbackSale(t) /\ answer' = [answer EXCEPT ![t] = "refused"] /\ UNCHANGED bought
      BY <3>4
    <3>5. QED
      BY <3>2, <3>3, <3>4 DEF Selling
  <2>2. pc[t] \in CreateLabel /\ pc' = [pc EXCEPT ![t] = "idle"]
    <3>1. pc[t] # "idle" /\ pc' = [pc EXCEPT ![t] = "idle"]
      BY <1>3 DEF CommitSale, RollbackSale, Step, SaleLabel, CreateLabel, CancelLabel
    <3>2. QED
      BY <3>1 DEF TerminalsInv, TerminalInv, AnswerIsAwaited
  <2>3. ASSUME NEW u \in Terminal
        PROVE  TerminalInv(u)'
    <3>1. TerminalInv(u) /\ u \in Request
      BY TerminalAssumption DEF TerminalsInv
    <3>2. CASE u # t
      <4>1. pc'[u] = pc[u] /\ answer'[u] = answer[u] /\ bought'[u] = bought[u]
        BY <1>1, <2>1, <2>2, <3>1, <3>2 DEF PosDomains
      <4>2. QED
        BY <1>1, <3>1, <4>1, TerminalUntouched DEF Forgets
    <3>3. CASE u = t
      <4>1. pc'[u] = "idle" /\ answer'[u] = said
        BY <1>1, <2>1, <2>2, <3>1, <3>3 DEF PosDomains
      <4>2. saving[u] = "sent" /\ answer[u] = "none"
        BY <2>2, <3>1, <3>3 DEF TerminalInv, AnswerIsAwaited
      <4>3. bought[u] \in Nat /\ lost[u] \in Nat /\ bought[u] <= lost[u]
        BY <3>1, <4>2 DEF TerminalInv, SoldUntilHeard
      <4>4. AnswerIsAwaited(u)' /\ ListIsAwaited(u)'
        BY <1>1, <3>1, <4>1, <4>2 DEF TerminalInv, AnswerIsAwaited, ListIsAwaited, CreateLabel
      <4>5. SoldUntilHeard(u)'
        BY <1>1, <2>1, <3>3, <4>1, <4>2, <4>3 DEF SoldUntilHeard
      <4>6. QED
        BY <4>4, <4>5 DEF TerminalInv
    <3>4. QED
      BY <3>2, <3>3
  <2>4. QED
    BY <1>1, <2>1, <2>2, <2>3 DEF TerminalsInv, PosDomains
<1>4. QED
  BY <1>2, <1>3 DEF Selling

\* A heard sale empties the cart; a lost answer keeps it, and is counted.
LEMMA HearingKeepsInv ==
    ASSUME TerminalsInv, NEW t \in Terminal, Hearing(t)
    PROVE  TerminalsInv'
<1>1. /\ answer[t] # "none" /\ answer' = [answer EXCEPT ![t] = "none"]
      /\ saving[t] = "sent" /\ saving' = [saving EXCEPT ![t] = "loading"]
      /\ DOMAIN cart' = DOMAIN cart
      /\ UNCHANGED <<pc, coming>>
  BY DEF Hearing, Sold, NotSold, vars
<1>0. PICK losses :
        /\ EmptyCarts(losses)
        /\ \/ answer[t] = "sold" /\ cart' = [cart EXCEPT ![t] = <<>>] /\ losses = lost
           \/ answer[t] # "sold" /\ losses = lost
           \/ answer[t] = "sold" /\ losses = [lost EXCEPT ![t] = @ + 1]
  BY DEF Hearing, Sold
<1>2. PosDomains /\ DOMAIN bought' = Terminal /\ DOMAIN lost' = Terminal
  BY <1>0, EmptyCartsForget DEF TerminalsInv
<1>3. PosDomains'
  BY <1>1, <1>2 DEF PosDomains
<1>4. ASSUME NEW u \in Terminal
      PROVE  TerminalInv(u)'
  <2>1. /\ TerminalInv(u)
        /\ \/ bought'[u] = 0 /\ lost'[u] = 0
           \/ cart'[u] # <<>> /\ bought'[u] = bought[u] /\ lost'[u] = losses[u]
    BY <1>0, EmptyCartsForget DEF TerminalsInv
  <2>2. CASE u # t
    <3>1. losses[u] = lost[u]
      BY <1>0, <1>2, <2>2 DEF PosDomains
    <3>2. Forgets(u)
      BY <2>1, <3>1 DEF Forgets
    <3>3. QED
      BY <1>1, <1>2, <2>1, <2>2, <3>2, TerminalUntouched DEF PosDomains
  <2>3. CASE u = t
    <3>1. answer'[u] = "none" /\ saving'[u] = "loading" /\ coming'[u] = coming[u] /\ pc'[u] = pc[u]
      BY <1>1, <1>2, <2>3 DEF PosDomains
    <3>2. pc[u] = "idle" /\ \A load \in coming[u] : ~load.own
      BY <1>1, <2>1, <2>3 DEF TerminalInv, AnswerIsAwaited, ListIsAwaited
    <3>3. bought'[u] \in Nat /\ lost'[u] \in Nat /\ bought'[u] <= lost'[u]
      <4>1. /\ bought[u] \in Nat /\ lost[u] \in Nat /\ bought[u] <= lost[u] + 1
            /\ answer[u] # "sold" => bought[u] <= lost[u]
        BY <2>1 DEF TerminalInv, SoldUntilHeard
      <4>2. CASE cart' = [cart EXCEPT ![t] = <<>>]
        <5>1. cart'[u] = <<>>
          BY <1>2, <2>3, <4>2 DEF PosDomains
        <5>2. QED
          BY <2>1, <5>1
      <4>3. CASE answer[t] # "sold" /\ losses = lost
        BY <2>1, <2>3, <4>1, <4>3
      <4>4. CASE losses = [lost EXCEPT ![t] = @ + 1]
        <5>1. losses[u] = lost[u] + 1
          BY <1>2, <2>3, <4>4 DEF PosDomains
        <5>2. QED
          BY <2>1, <4>1, <5>1
      <4>5. QED
        BY <1>0, <4>2, <4>3, <4>4
    <3>4. QED
      BY <1>1, <3>1, <3>2, <3>3 DEF TerminalInv, AnswerIsAwaited, ListIsAwaited, SoldUntilHeard,
                                    CreateLabel
  <2>4. QED
    BY <2>2, <2>3
<1>5. QED
  BY <1>3, <1>4 DEF TerminalsInv

LEMMA ElsewhereKeepsInv ==
    ASSUME TerminalsInv, NEW r \in Request \ Terminal, SellingElsewhere(r)
    PROVE  TerminalsInv'
<1>1. PosDomains /\ UNCHANGED <<cart, coming, saving, answer, bought, lost>>
  BY DEF TerminalsInv, SellingElsewhere, posVars
<1>2. DOMAIN pc' = Request /\ \A q \in Request \ {r} : pc'[q] = pc[q]
  BY <1>1, ElsewhereLeavesTerminals DEF PosDomains
<1>3. PosDomains'
  BY <1>1, <1>2 DEF PosDomains
<1>4. ASSUME NEW u \in Terminal
      PROVE  TerminalInv(u)'
  <2>1. TerminalInv(u) /\ pc'[u] = pc[u]
    BY <1>2, TerminalAssumption DEF TerminalsInv
  <2>2. QED
    BY <1>1, <2>1, TerminalUntouched DEF Forgets
<1>5. QED
  BY <1>3, <1>4 DEF TerminalsInv

LEMMA TerminalsStepKeepsInv ==
    ASSUME TerminalsInv, [TerminalsNext]_terminalVars
    PROVE  TerminalsInv'
<1>1. CASE \E t \in Terminal : Browsing(t) \/ Confirming(t) \/ Selling(t) \/ Hearing(t)
  BY <1>1, BrowsingKeepsInv, ConfirmingKeepsInv, SellingKeepsInv, HearingKeepsInv
<1>2. CASE \E r \in Request \ Terminal : SellingElsewhere(r)
  BY <1>2, ElsewhereKeepsInv
<1>3. CASE UNCHANGED terminalVars
  BY <1>3 DEF terminalVars, vars, posVars, TerminalsInv, PosDomains, TerminalInv,
                    AnswerIsAwaited, ListIsAwaited, SoldUntilHeard
<1>4. QED
  BY <1>1, <1>2, <1>3 DEF TerminalsNext

-----------------------------------------------------------------------------
(* The pages: the inductive invariant *)

FlightType ==
    [kind: {"read", "load", "take", "plain"}, filter: Filter, at: Nat, tells: BOOLEAN,
     dialog: BOOLEAN]

\* Types, and no write told of that the tables do not hold.
ScreensTyped ==
    /\ (screen \in DOMAIN Page) \/ (screen = NoPage)
    /\ filter \in Filter
    /\ table \in Nat /\ told \in Nat /\ told <= table
    /\ shown.version \in Nat /\ stash.version \in Nat
    /\ hidden => Hook.polls

\* A flight of the page open while it asks for f: a load, which is the only one
\* and the first on a page whose handlers show what they are answered, or what
\* some handler posts.
IsOfThePage(some, i, f) ==
    /\ some[i].at <= table
    /\ some[i].kind # "read" =>
         \E w \in DOMAIN Hook.writes :
            /\ Hook.writes[w].then = some[i].kind
            /\ Hook.writes[w].dialog = some[i].dialog
    /\ some[i].kind = "read" => ~some[i].dialog /\ (ShowsAnswers(Hook) => i = 1)
    /\ some[i].dialog => some[i].filter = f

AreOfThePage(some, f) ==
    some \in Seq(FlightType) /\ \A i \in DOMAIN some : IsOfThePage(some, i, f)

\* The load asked last asks for f, and its answer holds what was told of.
IsLastRead(some, i) ==
    some[i].kind = "read" /\ \A j \in DOMAIN some : j > i => some[j].kind # "read"

LastReadAnswers(some, f, least) ==
    \A i \in DOMAIN some :
        IsLastRead(some, i) =>
          Fits(some[i].filter, f) /\ (some[i].at = 0 \/ some[i].at >= least)

\* Without a hitch, the rows shown are right, or the load asked last will be.
RowsAreRight ==
    hitches = {} /\ ~error =>
        /\ LastReadAnswers(flights, filter, told)
        /\ ~Reading(flights) => Fits(shown.filter, filter) /\ shown.version >= told

\* Without a hitch, what is shown on a page whose handlers show what they are
\* answered was served in the order in which it was asked.
InOrder(some, least) ==
    /\ \A i \in DOMAIN some : Shows(some[i]) /\ some[i].at # 0 => some[i].at >= least
    /\ \A i, j \in DOMAIN some :
         i < j /\ Shows(some[i]) /\ Shows(some[j]) /\ some[j].at # 0
           => some[i].at # 0 /\ some[i].at <= some[j].at

RowsComeInOrder ==
    ShowsAnswers(Hook) => watched = FALSE /\ (hitches = {} => InOrder(flights, told))

ScreensInv ==
    /\ ScreensTyped /\ AreOfThePage(flights, filter)
    /\ RowsAreRight /\ RowsComeInOrder
    /\ SpinnerEnds /\ DialogsKeepTheFilter

-----------------------------------------------------------------------------
(* The pages: lemmas on what is in flight *)

\* s without its element i.
LEMMA Removed ==
    ASSUME NEW S, NEW s \in Seq(S), NEW i \in DOMAIN s
    PROVE  /\ RemoveAt(s, i) \in Seq(S)
           /\ Len(RemoveAt(s, i)) = Len(s) - 1
           /\ DOMAIN RemoveAt(s, i) = 1..(Len(s) - 1)
           /\ \A j \in 1..(Len(s) - 1) : RemoveAt(s, i)[j] = IF j < i THEN s[j] ELSE s[j + 1]
           /\ Len(s) \in Nat \ {0} /\ DOMAIN s = 1..Len(s)
<1>1. Len(s) \in Nat \ {0} /\ DOMAIN s = 1..Len(s) /\ i \in 1..Len(s)
  OBVIOUS
<1>2. PICK a, b : a = SubSeq(s, 1, i - 1) /\ b = SubSeq(s, i + 1, Len(s))
  OBVIOUS
<1>3. a \in Seq(S) /\ Len(a) = i - 1 /\ \A j \in 1..(i - 1) : a[j] = s[j]
  BY <1>1, <1>2
<1>4. b \in Seq(S) /\ Len(b) = Len(s) - i /\ \A j \in 1..(Len(s) - i) : b[j] = s[i + j]
  BY <1>1, <1>2
<1>5. RemoveAt(s, i) = a \o b
  BY <1>2 DEF RemoveAt
<1>6. /\ a \o b \in Seq(S) /\ Len(a \o b) = Len(a) + Len(b)
      /\ \A j \in 1..(Len(a) + Len(b)) :
           (a \o b)[j] = IF j <= Len(a) THEN a[j] ELSE b[j - Len(a)]
  BY <1>3, <1>4, ConcatProperties
<1>7. ASSUME NEW t, t = a \o b
      PROVE  /\ t \in Seq(S) /\ Len(t) = Len(a) + Len(b)
             /\ \A j \in 1..(Len(a) + Len(b)) : t[j] = IF j <= Len(a) THEN a[j] ELSE b[j - Len(a)]
  BY <1>6, <1>7, Zenon
<1>8. ASSUME NEW t, t \in Seq(S), Len(t) = Len(a) + Len(b),
             \A j \in 1..(Len(a) + Len(b)) : t[j] = IF j <= Len(a) THEN a[j] ELSE b[j - Len(a)]
      PROVE  /\ t \in Seq(S) /\ Len(t) = Len(s) - 1 /\ DOMAIN t = 1..(Len(s) - 1)
             /\ \A j \in 1..(Len(s) - 1) : t[j] = IF j < i THEN s[j] ELSE s[j + 1]
  <2>1. Len(t) = Len(s) - 1 /\ DOMAIN t = 1..(Len(s) - 1)
    BY <1>1, <1>3, <1>4, <1>8
  <2>2. ASSUME NEW j \in 1..(Len(s) - 1)
        PROVE  t[j] = IF j < i THEN s[j] ELSE s[j + 1]
    <3>1. j \in 1..(Len(a) + Len(b)) /\ j \in Int /\ i \in Int
      BY <1>1, <1>3, <1>4
    <3>2. t[j] = IF j <= Len(a) THEN a[j] ELSE b[j - Len(a)]
      BY <1>8, <3>1, Zenon
    <3>3. CASE j < i
      BY <1>3, <3>1, <3>2, <3>3
    <3>4. CASE ~(j < i)
      <4>1. t[j] = b[j - (i - 1)] /\ j - (i - 1) \in 1..(Len(s) - i)
        BY <1>1, <1>3, <3>1, <3>2, <3>4
      <4>2. b[j - (i - 1)] = s[i + (j - (i - 1))]
        BY <1>4, <4>1, Zenon
      <4>3. i + (j - (i - 1)) = j + 1
        BY <3>1
      <4>4. QED
        BY <3>4, <4>1, <4>2, <4>3
    <3>5. QED
      BY <3>3, <3>4
  <2>3. QED
    BY <1>8, <2>1, <2>2
<1>9. QED
  BY <1>1, <1>5, <1>7, <1>8, Zenon

\* s with one more element.
LEMMA Added ==
    ASSUME NEW S, NEW s \in Seq(S), NEW x \in S
    PROVE  /\ Append(s, x) \in Seq(S)
           /\ DOMAIN Append(s, x) = 1..(Len(s) + 1)
           /\ \A j \in 1..Len(s) : Append(s, x)[j] = s[j]
           /\ Append(s, x)[Len(s) + 1] = x
           /\ Len(s) \in Nat /\ DOMAIN s = 1..Len(s)
  OBVIOUS

LEMMA RestIsOfThePage ==
    ASSUME NEW f, NEW some, AreOfThePage(some, f), NEW i \in DOMAIN some, table \in Nat
    PROVE  AreOfThePage(RemoveAt(some, i), f)
<1>1. some \in Seq(FlightType)
  BY DEF AreOfThePage
<1>2. PICK rest : rest = RemoveAt(some, i)
  OBVIOUS
<1>3. /\ rest \in Seq(FlightType) /\ DOMAIN rest = 1..(Len(some) - 1)
      /\ \A j \in 1..(Len(some) - 1) : rest[j] = IF j < i THEN some[j] ELSE some[j + 1]
      /\ Len(some) \in Nat \ {0} /\ DOMAIN some = 1..Len(some)
  BY <1>1, <1>2, Removed
<1>4. ASSUME NEW j \in DOMAIN rest
      PROVE  IsOfThePage(rest, j, f)
  <2>1. PICK k \in DOMAIN some : rest[j] = some[k] /\ (k = 1 => j = 1)
    <3>1. CASE j < i
      BY <1>3, <3>1
    <3>2. CASE ~(j < i)
      BY <1>3, <3>2
    <3>3. QED
      BY <3>1, <3>2
  <2>2. IsOfThePage(some, k, f)
    BY DEF AreOfThePage
  <2>3. QED
    BY <2>1, <2>2, Zenon DEF IsOfThePage
<1>5. QED
  BY <1>2, <1>3, <1>4, Zenon DEF AreOfThePage

LEMMA RestReads ==
    ASSUME NEW some \in Seq(FlightType), NEW i \in DOMAIN some
    PROVE  /\ some[i].kind # "read" => (Reading(RemoveAt(some, i)) <=> Reading(some))
           /\ IsLastRead(some, i) /\ (\A j \in 1..(i - 1) : ~Shows(some[j])) =>
                ~Reading(RemoveAt(some, i))
           /\ some[i].kind = "read" /\ ~IsLastRead(some, i) => Reading(RemoveAt(some, i))
<1>1. PICK rest : rest = RemoveAt(some, i)
  OBVIOUS
<1>2. /\ DOMAIN rest = 1..(Len(some) - 1)
      /\ \A j \in 1..(Len(some) - 1) : rest[j] = IF j < i THEN some[j] ELSE some[j + 1]
      /\ Len(some) \in Nat \ {0} /\ DOMAIN some = 1..Len(some)
  BY <1>1, Removed
<1>3. \A j \in DOMAIN rest :
        \E k \in DOMAIN some : rest[j] = some[k] /\ k # i /\ (k \in 1..(i - 1) \/ k > i)
  <2>1. TAKE j \in DOMAIN rest
  <2>2. CASE j < i
    BY <1>2, <2>2
  <2>3. CASE ~(j < i)
    BY <1>2, <2>3
  <2>4. QED
    BY <2>2, <2>3
<1>4. \A k \in DOMAIN some \ {i} : \E j \in DOMAIN rest : rest[j] = some[k]
  <2>1. TAKE k \in DOMAIN some \ {i}
  <2>2. CASE k < i
    BY <1>2, <2>2
  <2>3. CASE k > i
    <3>1. k - 1 \in DOMAIN rest /\ ~(k - 1 < i) /\ (k - 1) + 1 = k
      BY <1>2, <2>3
    <3>2. QED
      BY <1>2, <3>1
  <2>4. QED
    BY <1>2, <2>2, <2>3
<1>5. some[i].kind # "read" => (Reading(rest) <=> Reading(some))
  BY <1>3, <1>4, Zenon DEF Reading
<1>6. IsLastRead(some, i) /\ (\A j \in 1..(i - 1) : ~Shows(some[j])) => ~Reading(rest)
  BY <1>3, Zenon DEF Reading, IsLastRead, Shows
<1>7. some[i].kind = "read" /\ ~IsLastRead(some, i) => Reading(rest)
  <2>1. \A j \in DOMAIN some : j > i => j # i
    BY <1>2
  <2>2. QED
    BY <1>4, <2>1, Zenon DEF Reading, IsLastRead
<1>8. QED
  BY <1>1, <1>5, <1>6, <1>7, Zenon

\* Without what was answered, the load asked last is the same one.
LEMMA RestAnswers ==
    ASSUME NEW some \in Seq(FlightType), NEW i \in DOMAIN some, NEW f, NEW least,
           LastReadAnswers(some, f, least),
           ~IsLastRead(some, i) \/ ~Reading(RemoveAt(some, i))
    PROVE  LastReadAnswers(RemoveAt(some, i), f, least)
<1>1. PICK rest : rest = RemoveAt(some, i)
  OBVIOUS
<1>2. /\ DOMAIN rest = 1..(Len(some) - 1)
      /\ \A j \in 1..(Len(some) - 1) : rest[j] = IF j < i THEN some[j] ELSE some[j + 1]
      /\ Len(some) \in Nat \ {0} /\ DOMAIN some = 1..Len(some)
  BY <1>1, Removed
<1>3. CASE ~Reading(rest)
  BY <1>1, <1>3, Zenon DEF LastReadAnswers, IsLastRead, Reading
<1>4. CASE ~IsLastRead(some, i)
  <2>1. SUFFICES ASSUME NEW j \in DOMAIN rest, IsLastRead(rest, j)
                 PROVE  Fits(rest[j].filter, f) /\ (rest[j].at = 0 \/ rest[j].at >= least)
    BY <1>1, Zenon DEF LastReadAnswers
  <2>2. DEFINE k == IF j < i THEN j ELSE j + 1
  <2>3. k \in DOMAIN some /\ rest[j] = some[k] /\ k # i
    BY <1>2
  <2>4. some[k].kind = "read"
    BY <2>1, <2>3, Zenon DEF IsLastRead
  <2>5. ASSUME NEW m \in DOMAIN some, m > k, m # i
        PROVE  some[m].kind # "read"
    <3>1. PICK n \in DOMAIN rest : n > j /\ rest[n] = some[m]
      <4>1. CASE m < i
        BY <1>2, <2>5, <4>1
      <4>2. CASE m > i
        <5>1. m - 1 \in DOMAIN rest /\ ~(m - 1 < i) /\ (m - 1) + 1 = m /\ m - 1 > j
          BY <1>2, <2>5, <4>2
        <5>2. QED
          BY <1>2, <5>1
      <4>3. QED
        BY <1>2, <2>5, <4>1, <4>2
    <3>2. QED
      BY <2>1, <3>1, Zenon DEF IsLastRead
  <2>6. IsLastRead(some, k)
    <3>1. SUFFICES ASSUME i > k, some[i].kind = "read"
                   PROVE  FALSE
      BY <2>3, <2>4, <2>5, Zenon DEF IsLastRead
    <3>2. PICK m \in DOMAIN some : m > i /\ some[m].kind = "read"
      BY <1>4, <3>1, Zenon DEF IsLastRead
    <3>3. m > k /\ m # i
      BY <1>2, <2>3, <3>1, <3>2
    <3>4. QED
      BY <2>5, <3>2, <3>3
  <2>7. QED
    BY <2>3, <2>6, Zenon DEF LastReadAnswers
<1>5. QED
  BY <1>1, <1>3, <1>4

LEMMA AddedIsOfThePage ==
    ASSUME NEW f, NEW some, AreOfThePage(some, f), NEW x \in FlightType, table \in Nat,
           x.at = 0, x.dialog => x.filter = f,
           x.kind # "read" =>
             \E w \in DOMAIN Hook.writes :
               Hook.writes[w].then = x.kind /\ Hook.writes[w].dialog = x.dialog,
           x.kind = "read" => ~x.dialog /\ ~ShowsAnswers(Hook)
    PROVE  AreOfThePage(Append(some, x), f)
<1>1. some \in Seq(FlightType)
  BY DEF AreOfThePage
<1>2. PICK more : more = Append(some, x)
  OBVIOUS
<1>3. /\ more \in Seq(FlightType) /\ DOMAIN more = 1..(Len(some) + 1)
      /\ \A j \in 1..Len(some) : more[j] = some[j]
      /\ more[Len(some) + 1] = x
      /\ Len(some) \in Nat /\ DOMAIN some = 1..Len(some)
  BY <1>1, <1>2, Added
<1>4. ASSUME NEW j \in DOMAIN more
      PROVE  IsOfThePage(more, j, f)
  <2>1. CASE j = Len(some) + 1
    <3>1. more[j] = x /\ x.at <= table
      BY <1>3, <2>1
    <3>2. QED
      BY <3>1, Zenon DEF IsOfThePage
  <2>2. CASE j # Len(some) + 1
    <3>1. j \in DOMAIN some /\ more[j] = some[j]
      BY <1>3, <2>2
    <3>2. IsOfThePage(some, j, f)
      BY <3>1 DEF AreOfThePage
    <3>3. QED
      BY <3>1, <3>2, Zenon DEF IsOfThePage
  <2>3. QED
    BY <2>1, <2>2
<1>5. QED
  BY <1>2, <1>3, <1>4, Zenon DEF AreOfThePage

LEMMA AddedLoadAnswers ==
    ASSUME NEW some \in Seq(FlightType), NEW x \in FlightType, x.kind = "read"
    PROVE  /\ Reading(Append(some, x))
           /\ \A f, least : x.at = 0 /\ Fits(x.filter, f) =>
                LastReadAnswers(Append(some, x), f, least)
<1>1. PICK more : more = Append(some, x)
  OBVIOUS
<1>2. /\ DOMAIN more = 1..(Len(some) + 1)
      /\ more[Len(some) + 1] = x
      /\ Len(some) \in Nat
  BY <1>1, Added
<1>3. Reading(more)
  BY <1>2 DEF Reading
<1>4. ASSUME NEW f, NEW least, x.at = 0, Fits(x.filter, f)
      PROVE  LastReadAnswers(more, f, least)
  <2>1. SUFFICES ASSUME NEW i \in DOMAIN more, IsLastRead(more, i)
                 PROVE  more[i] = x
    BY <1>4, Zenon DEF LastReadAnswers
  <2>2. Len(some) + 1 \in DOMAIN more /\ (i = Len(some) + 1 \/ Len(some) + 1 > i)
    BY <1>2
  <2>3. i = Len(some) + 1
    BY <1>2, <2>1, <2>2, Zenon DEF IsLastRead
  <2>4. QED
    BY <1>2, <2>3
<1>5. QED
  BY <1>1, <1>3, <1>4

LEMMA AddedWriteAnswers ==
    ASSUME NEW some \in Seq(FlightType), NEW x \in FlightType, x.kind # "read", x.at = 0
    PROVE  /\ Reading(Append(some, x)) <=> Reading(some)
           /\ \A f, least :
                LastReadAnswers(some, f, least) => LastReadAnswers(Append(some, x), f, least)
           /\ \A least : InOrder(some, least) => InOrder(Append(some, x), least)
<1>1. PICK more : more = Append(some, x)
  OBVIOUS
<1>2. /\ DOMAIN more = 1..(Len(some) + 1)
      /\ \A j \in 1..Len(some) : more[j] = some[j]
      /\ more[Len(some) + 1] = x
      /\ Len(some) \in Nat /\ DOMAIN some = 1..Len(some)
  BY <1>1, Added
<1>3. /\ \A j \in DOMAIN some : j \in DOMAIN more /\ more[j] = some[j]
      /\ \A j \in DOMAIN more : j \in DOMAIN some \/ more[j] = x
  BY <1>2
<1>4. Reading(more) <=> Reading(some)
  BY <1>3, Zenon DEF Reading
<1>5. ASSUME NEW f, NEW least, LastReadAnswers(some, f, least)
      PROVE  LastReadAnswers(more, f, least)
  <2>1. SUFFICES ASSUME NEW i \in DOMAIN more, IsLastRead(more, i)
                 PROVE  Fits(more[i].filter, f) /\ (more[i].at = 0 \/ more[i].at >= least)
    BY Zenon DEF LastReadAnswers
  <2>2. i \in DOMAIN some /\ more[i] = some[i] /\ IsLastRead(some, i)
    BY <1>3, <2>1, Zenon DEF IsLastRead
  <2>3. QED
    BY <1>5, <2>2, Zenon DEF LastReadAnswers
<1>6. ASSUME NEW least, InOrder(some, least)
      PROVE  InOrder(more, least)
  <2>1. ASSUME NEW i \in DOMAIN more, NEW j \in DOMAIN more, more[j].at # 0
        PROVE  /\ j \in DOMAIN some /\ more[j] = some[j]
               /\ i < j => i \in DOMAIN some /\ more[i] = some[i]
    <3>1. j \in DOMAIN some /\ more[j] = some[j]
      BY <1>3, <2>1
    <3>2. i < j => i \in DOMAIN some
      BY <1>2, <3>1
    <3>3. QED
      BY <1>3, <3>1, <3>2
  <2>2. QED
    BY <1>6, <2>1, Zenon DEF InOrder
<1>7. QED
  BY <1>1, <1>4, <1>5, <1>6

LEMMA RestIsInOrder ==
    ASSUME NEW some \in Seq(FlightType), NEW i \in DOMAIN some, NEW least, InOrder(some, least)
    PROVE  InOrder(RemoveAt(some, i), least)
<1>1. PICK rest : rest = RemoveAt(some, i)
  OBVIOUS
<1>2. /\ DOMAIN rest = 1..(Len(some) - 1)
      /\ \A j \in 1..(Len(some) - 1) : rest[j] = IF j < i THEN some[j] ELSE some[j + 1]
      /\ Len(some) \in Nat \ {0} /\ DOMAIN some = 1..Len(some)
  BY <1>1, Removed
<1>3. DEFINE from(j) == IF j < i THEN j ELSE j + 1
<1>4. /\ \A j \in DOMAIN rest : from(j) \in DOMAIN some /\ rest[j] = some[from(j)]
      /\ \A j, k \in DOMAIN rest : j < k => from(j) < from(k)
  BY <1>2
<1> HIDE DEF from
<1>5. InOrder(rest, least)
  BY <1>4, Zenon DEF InOrder
<1>6. QED
  BY <1>1, <1>5

\* The answer i has overtaken none: what follows it holds the version it does.
LEMMA RestIsNewer ==
    ASSUME NEW some \in Seq(FlightType), NEW i \in DOMAIN some, NEW least, InOrder(some, least),
           Shows(some[i]), some[i].at # 0, \A j \in 1..(i - 1) : ~Shows(some[j])
    PROVE  InOrder(RemoveAt(some, i), some[i].at)
<1>1. PICK rest : rest = RemoveAt(some, i)
  OBVIOUS
<1>2. /\ DOMAIN rest = 1..(Len(some) - 1)
      /\ \A j \in 1..(Len(some) - 1) : rest[j] = IF j < i THEN some[j] ELSE some[j + 1]
      /\ Len(some) \in Nat \ {0} /\ DOMAIN some = 1..Len(some)
  BY <1>1, Removed
<1>3. InOrder(rest, least)
  BY <1>1, RestIsInOrder
<1>4. ASSUME NEW j \in DOMAIN rest, Shows(rest[j]), rest[j].at # 0
      PROVE  rest[j].at >= some[i].at
  <2>1. CASE j < i
    <3>1. rest[j] = some[j] /\ j \in 1..(i - 1)
      BY <1>2, <2>1
    <3>2. QED
      BY <1>4, <3>1
  <2>2. CASE ~(j < i)
    <3>1. rest[j] = some[j + 1] /\ j + 1 \in DOMAIN some /\ i < j + 1
      BY <1>2, <2>2
    <3>2. some[i].at <= some[j + 1].at
      BY <1>4, <3>1, Zenon DEF InOrder
    <3>3. some[i] \in FlightType /\ some[j + 1] \in FlightType
      BY <1>2, <3>1
    <3>4. some[i].at \in Nat /\ some[j + 1].at \in Nat
      BY <3>3 DEF FlightType
    <3>5. QED
      BY <3>1, <3>2, <3>4
  <2>3. QED
    BY <2>1, <2>2
<1>5. QED
  BY <1>1, <1>3, <1>4, Zenon DEF InOrder

-----------------------------------------------------------------------------
(* The pages: lemmas on the steps *)

\* What PageAssumption says of the page open.
LEMMA HookIsTyped ==
    ASSUME screen \in DOMAIN Page
    PROVE  /\ Hook.catches \in BOOLEAN /\ Hook.effectTells \in BOOLEAN
           /\ \A w \in DOMAIN Hook.writes :
                Hook.writes[w] \in [then: {"load", "take", "plain"}, clears: BOOLEAN,
                                    tells: BOOLEAN, dialog: BOOLEAN]
           /\ ShowsAnswers(Hook) =>
                /\ Hook.refresh = "never" /\ ~Hook.polls
                /\ \A w \in DOMAIN Hook.writes : Hook.writes[w].then # "load"
                /\ \A l \in DOMAIN Hook.lists : Hook.lists[l] = FALSE
  BY PageAssumption DEF Hook

LEMMA Carried ==
    ASSUME NEW some, NEW f, AreOfThePage(some, f), flights' = some, filter' = f,
           screen' = screen, table \in Nat, table' \in Nat, table' >= table
    PROVE  AreOfThePage(flights, filter)'
<1>1. Hook' = Hook
  BY DEF Hook
<1>2. flights' \in Seq(FlightType)
  BY DEF AreOfThePage
<1>3. ASSUME NEW i \in DOMAIN flights'
      PROVE  IsOfThePage(flights, i, filter)'
  <2>1. IsOfThePage(some, i, f) /\ some[i] \in FlightType
    BY <1>2, <1>3 DEF AreOfThePage
  <2>2. some[i].at \in Nat /\ some[i].at <= table
    BY <2>1 DEF IsOfThePage, FlightType
  <2>3. some[i].at <= table'
    BY <2>2
  <2>4. ShowsAnswers(Hook)' = ShowsAnswers(Hook)
    BY <1>1, Zenon DEF ShowsAnswers
  <2>5. QED
    BY <1>1, <2>1, <2>3, <2>4, Zenon DEF IsOfThePage
<1>4. QED
  BY <1>2, <1>3, Zenon DEF AreOfThePage

\* A load is asked: what it asks for, it will show.
LEMMA LoadKeepsInv ==
    ASSUME ScreensTyped, ScreensTyped', screen \in DOMAIN Page, ~ShowsAnswers(Hook),
           UNCHANGED <<screen, watched, table>>, DialogsKeepTheFilter,
           NEW rest, AreOfThePage(rest, filter'), NEW f \in Filter, NEW tells \in BOOLEAN,
           flights' = Append(rest, Load(f, tells)),
           hitches' = IF Fits(f, filter') THEN {} ELSE {"closure"},
           f # filter' =>
             \E w \in DOMAIN Hook.writes :
               Hook.writes[w].then = "load" /\ ~Hook.writes[w].dialog
    PROVE  ScreensInv'
<1>1. Hook' = Hook /\ (ShowsAnswers(Hook)' <=> ShowsAnswers(Hook))
  BY DEF Hook, ShowsAnswers
<1>2. RowsComeInOrder'
  BY <1>1, Zenon DEF RowsComeInOrder
<1>3. rest \in Seq(FlightType) /\ table \in Nat /\ table' \in Nat /\ table' >= table
  BY DEF AreOfThePage, ScreensTyped
<1>4. PICK x : x = Load(f, tells)
  OBVIOUS
<1>5. x \in FlightType /\ x.kind = "read" /\ x.filter = f /\ x.at = 0 /\ x.dialog = FALSE
  BY <1>4 DEF Load, FlightType
<1>6. PICK more : more = Append(rest, x)
  OBVIOUS
<1>7. flights' = more
  BY <1>4, <1>6, Zenon
<1>8. AreOfThePage(more, filter')
  BY <1>3, <1>5, <1>6, AddedIsOfThePage
<1>9. AreOfThePage(flights, filter)'
  BY <1>3, <1>7, <1>8, Carried
<1>10. Reading(more)
  BY <1>3, <1>5, <1>6, AddedLoadAnswers
<1>11. Reading(flights)'
  BY <1>7, <1>10, Zenon DEF Reading
<1>12. hitches' = {} => Fits(f, filter')
  OBVIOUS
<1>13. hitches' = {} => LastReadAnswers(more, filter', told')
  BY <1>3, <1>5, <1>6, <1>12, AddedLoadAnswers
<1>14. hitches' = {} => LastReadAnswers(flights, filter, told)'
  BY <1>7, <1>13, Zenon DEF LastReadAnswers, IsLastRead, Fits
<1>15. RowsAreRight' /\ SpinnerEnds'
  BY <1>11, <1>14, Zenon DEF RowsAreRight, SpinnerEnds
<1>16. "closure" \in hitches' => f # filter'
  BY DEF Fits
<1>17. DialogsKeepTheFilter'
  BY <1>1, <1>16, Zenon DEF DialogsKeepTheFilter
<1>18. QED
  BY <1>2, <1>9, <1>15, <1>17 DEF ScreensInv

\* A load is asked, or skipped (Ask), on a page whose handlers load again.
LEMMA AskKeepsInv ==
    ASSUME ScreensTyped, ScreensTyped', screen \in DOMAIN Page, ~ShowsAnswers(Hook),
           UNCHANGED <<screen, watched, table>>, DialogsKeepTheFilter,
           NEW rest, AreOfThePage(rest, filter'), loading => Reading(rest),
           NEW f \in Filter, NEW tells \in BOOLEAN, Ask(rest, f, tells),
           f # filter' =>
             \E w \in DOMAIN Hook.writes :
               Hook.writes[w].then = "load" /\ ~Hook.writes[w].dialog
    PROVE  ScreensInv'
<1>1. Hook' = Hook /\ (ShowsAnswers(Hook)' <=> ShowsAnswers(Hook))
  BY DEF Hook, ShowsAnswers
<1>2. RowsComeInOrder'
  BY <1>1, Zenon DEF RowsComeInOrder
<1>3. rest \in Seq(FlightType) /\ table \in Nat /\ table' \in Nat /\ table' >= table
  BY DEF AreOfThePage, ScreensTyped
<1>4. CASE flights' = rest /\ hitches' = hitches \cup {"skipped"} /\ UNCHANGED <<loading, error>>
  <2>1. AreOfThePage(flights, filter)'
    BY <1>3, <1>4, Carried
  <2>2. RowsAreRight'
    BY <1>4 DEF RowsAreRight
  <2>3. SpinnerEnds'
    BY <1>4, Zenon DEF SpinnerEnds, Reading
  <2>4. "closure" \in hitches' => "closure" \in hitches
    BY <1>4
  <2>5. DialogsKeepTheFilter'
    BY <1>1, <2>4, Zenon DEF DialogsKeepTheFilter
  <2>6. QED
    BY <1>2, <2>1, <2>2, <2>3, <2>5 DEF ScreensInv
<1>5. CASE /\ flights' = Append(rest, Load(f, Hook.catches \/ tells))
           /\ hitches' = IF Fits(f, filter') THEN {} ELSE {"closure"}
  <2>1. PICK t \in BOOLEAN : t = (Hook.catches \/ tells)
    BY HookIsTyped, Zenon
  <2>2. QED
    BY <1>5, <2>1, LoadKeepsInv
<1>6. QED
  BY <1>4, <1>5 DEF Ask

\* A step that asks for nothing, shows nothing and hides no failure.
LEMMA IdleKeepsInv ==
    ASSUME ScreensInv, ScreensTyped', UNCHANGED <<screen, watched, filter, flights, shown, told>>,
           table' >= table, loading' = loading, hitches \subseteq hitches',
           "closure" \in hitches' => "closure" \in hitches,
           hitches' = {} /\ ~error' => ~error
    PROVE  ScreensInv'
<1>1. Hook' = Hook /\ (ShowsAnswers(Hook)' <=> ShowsAnswers(Hook))
  BY DEF Hook, ShowsAnswers
<1>2. AreOfThePage(flights, filter)'
  BY Carried DEF ScreensInv, ScreensTyped
<1>3. hitches' = {} => hitches = {}
  OBVIOUS
<1>4. RowsAreRight'
  BY <1>3, Zenon DEF ScreensInv, RowsAreRight, LastReadAnswers, IsLastRead, Reading, Fits
<1>5. RowsComeInOrder'
  BY <1>1, <1>3, Zenon DEF ScreensInv, RowsComeInOrder, InOrder, Shows
<1>6. SpinnerEnds' /\ DialogsKeepTheFilter'
  BY <1>1, Zenon DEF ScreensInv, SpinnerEnds, Reading, DialogsKeepTheFilter
<1>7. QED
  BY <1>2, <1>4, <1>5, <1>6 DEF ScreensInv

\* Without a dialog, nothing in flight asks with the filter of the page.
LEMMA NoDialogAsks ==
    ASSUME AreOfThePage(flights, filter), ~InDialog, NEW f
    PROVE  AreOfThePage(flights, f)
  BY Zenon DEF AreOfThePage, IsOfThePage, InDialog

LEMMA ChangeFilterKeepsInv ==
    ASSUME ScreensInv, screen \in DOMAIN Page, NEW f \in Filter, ChangeFilter(f)
    PROVE  ScreensInv'
<1>1. /\ filter' = f /\ ~InDialog /\ Ask(flights, f, Hook.effectTells)
      /\ UNCHANGED <<screen, watched, table, shown, stash, told, hidden>>
  BY DEF ChangeFilter
<1>2. ~ShowsAnswers(Hook)
  BY HookIsTyped DEF ChangeFilter
<1>3. ScreensTyped'
  BY <1>1 DEF ScreensInv, ScreensTyped, Hook
<1>4. AreOfThePage(flights, filter')
  BY <1>1, NoDialogAsks DEF ScreensInv
<1>5. Hook.effectTells \in BOOLEAN
  BY HookIsTyped
<1>6. QED
  BY <1>1, <1>2, <1>3, <1>4, <1>5, AskKeepsInv DEF ScreensInv, SpinnerEnds

LEMMA AskAgainKeepsInv ==
    ASSUME ScreensInv, screen \in DOMAIN Page, RefreshPage \/ Poll
    PROVE  ScreensInv'
<1>1. /\ filter' = filter /\ Ask(flights, filter, FALSE)
      /\ UNCHANGED <<screen, watched, table, shown, stash, told, hidden>>
  BY DEF RefreshPage, Poll
<1>2. ~ShowsAnswers(Hook)
  BY HookIsTyped DEF RefreshPage, Poll
<1>3. ScreensTyped'
  BY <1>1 DEF ScreensInv, ScreensTyped, Hook
<1>4. filter \in Filter /\ AreOfThePage(flights, filter')
  BY <1>1 DEF ScreensInv, ScreensTyped
<1>5. QED
  BY <1>1, <1>2, <1>3, <1>4, AskKeepsInv DEF ScreensInv, SpinnerEnds

LEMMA IdleStepsKeepInv ==
    ASSUME ScreensInv, Hide \/ EditCart \/ WriteElsewhere
    PROVE  ScreensInv'
<1>1. /\ UNCHANGED <<screen, watched, filter, flights, shown, stash, told, loading>>
      /\ hitches \subseteq hitches' /\ ("closure" \in hitches' => "closure" \in hitches)
      /\ hitches' = {} /\ ~error' => ~error
  BY DEF Hide, EditCart, WriteElsewhere, Mute
<1>2. table' \in Nat /\ table' >= table
  <2>1. table \in Nat
    BY DEF ScreensInv, ScreensTyped
  <2>2. table' = table \/ table' = table + 1
    BY DEF Hide, EditCart, WriteElsewhere
  <2>3. QED
    BY <2>1, <2>2
<1>3. hidden' => Hook.polls
  BY DEF Hide, EditCart, WriteElsewhere, ScreensInv, ScreensTyped
<1>4. Hook' = Hook
  BY <1>1 DEF Hook
<1>5. ScreensTyped'
  BY <1>1, <1>2, <1>3, <1>4 DEF ScreensInv, ScreensTyped
<1>6. QED
  BY <1>1, <1>2, <1>5, IdleKeepsInv

LEMMA UnhideKeepsInv ==
    ASSUME ScreensInv, screen \in DOMAIN Page, Unhide
    PROVE  ScreensInv'
<1>1. UNCHANGED <<screen, watched, table, filter, shown, stash, loading, error, told>>
  BY DEF Unhide
<1>2. ScreensTyped'
  BY <1>1 DEF Unhide, ScreensInv, ScreensTyped
<1>3. CASE Reading(flights)
  <2>1. flights' = flights /\ hitches' = hitches \cup {"skipped"}
    BY <1>3 DEF Unhide
  <2>2. table' >= table
    BY <1>1 DEF ScreensInv, ScreensTyped
  <2>3. QED
    BY <1>1, <1>2, <2>1, <2>2, IdleKeepsInv
<1>4. CASE ~Reading(flights)
  <2>1. flights' = Append(flights, Load(filter, Hook.catches)) /\ hitches' = {}
    BY <1>4 DEF Unhide
  <2>2. ~ShowsAnswers(Hook) /\ Hook.catches \in BOOLEAN
    BY HookIsTyped DEF Unhide, ScreensInv, ScreensTyped
  <2>3. hitches' = IF Fits(filter, filter') THEN {} ELSE {"closure"}
    BY <1>1, <2>1 DEF Fits
  <2>4. filter \in Filter /\ AreOfThePage(flights, filter')
    BY <1>1 DEF ScreensInv, ScreensTyped
  <2>5. QED
    BY <1>1, <1>2, <2>1, <2>2, <2>3, <2>4, LoadKeepsInv DEF ScreensInv
<1>5. QED
  BY <1>3, <1>4

\* What was in flight is answered, or fails.
LEMMA RestKeepsPage ==
    ASSUME ScreensInv, NEW i \in DOMAIN flights, flights' = RemoveAt(flights, i),
           UNCHANGED <<screen, table, filter>>
    PROVE  AreOfThePage(flights, filter)'
<1>1. table \in Nat /\ AreOfThePage(flights, filter)
  BY DEF ScreensInv, ScreensTyped
<1>2. AreOfThePage(RemoveAt(flights, i), filter)
  BY <1>1, RestIsOfThePage
<1>3. QED
  BY <1>1, <1>2, Carried

\* A write that shows nothing: it leaves the loads, and what they answer, alone.
LEMMA QuietWriteKeepsInv ==
    ASSUME ScreensInv, NEW i \in DOMAIN flights, flights[i].kind # "read",
           flights' = RemoveAt(flights, i), ~error' => ~error,
           UNCHANGED <<screen, watched, table, filter, shown, stash, loading, told, hidden, hitches>>
    PROVE  ScreensInv'
<1>1. Hook' = Hook /\ (ShowsAnswers(Hook)' <=> ShowsAnswers(Hook))
  BY DEF Hook, ShowsAnswers
<1>2. flights \in Seq(FlightType)
  BY DEF ScreensInv, AreOfThePage
<1>3. AreOfThePage(flights, filter)'
  BY RestKeepsPage
<1>4. PICK rest : rest = RemoveAt(flights, i) /\ rest = flights'
  OBVIOUS
<1>5. Reading(rest) <=> Reading(flights)
  BY <1>2, <1>4, RestReads
<1>6. Reading(flights)' <=> Reading(flights)
  BY <1>4, <1>5, Zenon DEF Reading
<1>7. LastReadAnswers(flights, filter, told) => LastReadAnswers(rest, filter, told)
  <2>1. ~IsLastRead(flights, i)
    BY DEF IsLastRead
  <2>2. QED
    BY <1>2, <1>4, <2>1, RestAnswers
<1>8. LastReadAnswers(flights, filter, told) => LastReadAnswers(flights, filter, told)'
  BY <1>4, <1>7, Zenon DEF LastReadAnswers, IsLastRead, Fits
<1>9. RowsAreRight'
  BY <1>6, <1>8, Zenon DEF ScreensInv, RowsAreRight, Fits
<1>10. InOrder(flights, told) => InOrder(rest, told)
  BY <1>2, <1>4, RestIsInOrder
<1>11. RowsComeInOrder'
  BY <1>1, <1>4, <1>10, Zenon DEF ScreensInv, RowsComeInOrder, InOrder, Shows
<1>12. SpinnerEnds' /\ DialogsKeepTheFilter'
  BY <1>1, <1>6, Zenon DEF ScreensInv, SpinnerEnds, DialogsKeepTheFilter
<1>13. ScreensTyped'
  BY <1>1 DEF ScreensInv, ScreensTyped
<1>14. QED
  BY <1>3, <1>9, <1>11, <1>12, <1>13 DEF ScreensInv

LEMMA FailWriteKeepsInv ==
    ASSUME ScreensInv, NEW i \in DOMAIN flights, FailWrite(i)
    PROVE  ScreensInv'
  BY QuietWriteKeepsInv DEF FailWrite

\* A load that fails, or whose rows are an old answer, is told of or a hitch.
LEMMA FailLoadKeepsInv ==
    ASSUME ScreensInv, NEW i \in DOMAIN flights, FailLoad(i) \/ ShowStash(i)
    PROVE  ScreensInv'
<1>1. /\ flights' = RemoveAt(flights, i) /\ loading' = FALSE
      /\ UNCHANGED <<screen, watched, table, filter, stash, told, hidden>>
  BY DEF FailLoad, ShowStash
<1>2. Hook' = Hook /\ (ShowsAnswers(Hook)' <=> ShowsAnswers(Hook))
  BY <1>1 DEF Hook, ShowsAnswers
<1>3. ~(hitches' = {} /\ ~error')
  BY DEF FailLoad, ShowStash
<1>4. /\ hitches' = {} => hitches = {}
      /\ "closure" \in hitches' => "closure" \in hitches
  BY DEF FailLoad, ShowStash
<1>5. flights \in Seq(FlightType)
  BY DEF ScreensInv, AreOfThePage
<1>6. AreOfThePage(flights, filter)'
  BY <1>1, RestKeepsPage
<1>7. PICK rest : rest = RemoveAt(flights, i) /\ rest = flights'
  BY <1>1
<1>8. InOrder(flights, told) => InOrder(rest, told)
  BY <1>5, <1>7, RestIsInOrder
<1>9. RowsComeInOrder'
  BY <1>1, <1>2, <1>4, <1>7, <1>8, ZenonT(60) DEF ScreensInv, RowsComeInOrder, InOrder, Shows
<1>10. RowsAreRight' /\ SpinnerEnds' /\ DialogsKeepTheFilter'
  BY <1>1, <1>2, <1>3, <1>4, Zenon
     DEF ScreensInv, RowsAreRight, SpinnerEnds, DialogsKeepTheFilter
<1>11. shown'.version \in Nat
  BY DEF FailLoad, ShowStash, ScreensInv, ScreensTyped, Rows
<1>12. ScreensTyped'
  BY <1>1, <1>2, <1>11 DEF ScreensInv, ScreensTyped
<1>13. QED
  BY <1>6, <1>9, <1>10, <1>12 DEF ScreensInv

\* An answer is shown: if it overtook none, it is that of the load asked last,
\* or that load is in flight still.
LEMMA ShowLoadKeepsInv ==
    ASSUME ScreensInv, NEW i \in DOMAIN flights, ShowLoad(i)
    PROVE  ScreensInv'
<1>1. /\ flights' = RemoveAt(flights, i) /\ loading' = FALSE
      /\ flights[i].kind = "read" /\ flights[i].at > 0
      /\ shown' = Rows(flights[i].filter, flights[i].at)
      /\ UNCHANGED <<screen, watched, table, filter, error, told, hidden>>
  BY DEF ShowLoad
<1>2. Hook' = Hook /\ (ShowsAnswers(Hook)' <=> ShowsAnswers(Hook))
  BY <1>1 DEF Hook, ShowsAnswers
<1>3. /\ hitches' = {} => hitches = {} /\ \A j \in 1..(i - 1) : ~Shows(flights[j])
      /\ "closure" \in hitches' => "closure" \in hitches
  BY DEF ShowLoad, Overtaken
<1>4. flights \in Seq(FlightType) /\ flights[i] \in FlightType
  BY DEF ScreensInv, AreOfThePage
<1>5. AreOfThePage(flights, filter)'
  BY <1>1, RestKeepsPage
<1>6. PICK rest : rest = RemoveAt(flights, i) /\ rest = flights'
  BY <1>1
<1>7. InOrder(flights, told) => InOrder(rest, told)
  BY <1>4, <1>6, RestIsInOrder
<1>8. RowsComeInOrder'
  BY <1>1, <1>2, <1>3, <1>6, <1>7, ZenonT(60) DEF ScreensInv, RowsComeInOrder, InOrder, Shows
<1>9. shown'.filter = flights[i].filter /\ shown'.version = flights[i].at
  BY <1>1 DEF Rows
<1>10. flights[i].at \in Nat /\ flights[i].at # 0
  BY <1>1, <1>4 DEF FlightType
<1>11. ASSUME hitches' = {}, ~error'
       PROVE  /\ LastReadAnswers(rest, filter, told)
              /\ ~Reading(rest) => Fits(shown'.filter, filter) /\ shown'.version >= told
  <2>1. LastReadAnswers(flights, filter, told)
    BY <1>1, <1>3, <1>11 DEF ScreensInv, RowsAreRight
  <2>2. CASE IsLastRead(flights, i)
    <3>1. ~Reading(rest)
      BY <1>3, <1>4, <1>6, <1>11, <2>2, RestReads
    <3>2. LastReadAnswers(rest, filter, told)
      BY <1>4, <1>6, <2>1, <3>1, RestAnswers
    <3>3. Fits(flights[i].filter, filter) /\ flights[i].at >= told
      BY <1>10, <2>1, <2>2, Zenon DEF LastReadAnswers
    <3>4. QED
      BY <1>9, <3>2, <3>3, Zenon
  <2>3. CASE ~IsLastRead(flights, i)
    <3>1. Reading(rest)
      BY <1>1, <1>4, <1>6, <2>3, RestReads
    <3>2. LastReadAnswers(rest, filter, told)
      BY <1>4, <1>6, <2>1, <2>3, RestAnswers
    <3>3. QED
      BY <3>1, <3>2
  <2>4. QED
    BY <2>2, <2>3
<1>12. RowsAreRight'
  BY <1>1, <1>6, <1>11, Zenon DEF RowsAreRight, LastReadAnswers, IsLastRead, Reading, Fits
<1>13. SpinnerEnds' /\ DialogsKeepTheFilter'
  BY <1>1, <1>2, <1>3, Zenon DEF ScreensInv, SpinnerEnds, DialogsKeepTheFilter
<1>14. shown'.version \in Nat /\ stash'.version \in Nat
  BY <1>9, <1>10 DEF ShowLoad, ScreensInv, ScreensTyped
<1>15. ScreensTyped'
  BY <1>1, <1>2, <1>14 DEF ScreensInv, ScreensTyped
<1>16. QED
  BY <1>5, <1>8, <1>12, <1>13, <1>15 DEF ScreensInv

LEMMA StartWriteKeepsInv ==
    ASSUME ScreensInv, screen \in DOMAIN Page, NEW w \in DOMAIN Hook.writes,
           StartWrite(Hook.writes[w])
    PROVE  ScreensInv'
<1>1. /\ flights' = Append(flights, Write(Hook.writes[w])) /\ Mute(Hook.writes[w].clears)
      /\ UNCHANGED <<screen, watched, table, filter, shown, stash, loading, told, hidden>>
  BY DEF StartWrite
<1>2. Hook' = Hook /\ (ShowsAnswers(Hook)' <=> ShowsAnswers(Hook))
  BY <1>1 DEF Hook, ShowsAnswers
<1>3. /\ hitches' = {} => hitches = {}
      /\ "closure" \in hitches' => "closure" \in hitches
      /\ hitches' = {} /\ ~error' => ~error
  BY <1>1 DEF Mute
<1>4. /\ flights \in Seq(FlightType) /\ filter \in Filter /\ table \in Nat
      /\ AreOfThePage(flights, filter)
  BY DEF ScreensInv, ScreensTyped, AreOfThePage
<1>5. PICK x : x = Write(Hook.writes[w])
  OBVIOUS
<1>6. /\ x \in FlightType /\ x.kind # "read" /\ x.at = 0 /\ x.filter = filter
      /\ x.kind = Hook.writes[w].then /\ x.dialog = Hook.writes[w].dialog
  <2>1. Hook.writes[w] \in [then: {"load", "take", "plain"}, clears: BOOLEAN,
                            tells: BOOLEAN, dialog: BOOLEAN]
    BY HookIsTyped
  <2>2. QED
    BY <1>4, <1>5, <2>1 DEF Write, FlightType
<1>7. PICK more : more = Append(flights, x)
  OBVIOUS
<1>8. flights' = more
  BY <1>1, <1>5, <1>7, Zenon
<1>9. AreOfThePage(more, filter)
  BY <1>4, <1>6, <1>7, AddedIsOfThePage
<1>10. AreOfThePage(flights, filter)'
  BY <1>1, <1>4, <1>8, <1>9, Carried
<1>11. /\ Reading(more) <=> Reading(flights)
       /\ LastReadAnswers(flights, filter, told) => LastReadAnswers(more, filter, told)
       /\ InOrder(flights, told) => InOrder(more, told)
  BY <1>4, <1>6, <1>7, AddedWriteAnswers
<1>12. RowsAreRight'
  BY <1>1, <1>3, <1>8, <1>11, Zenon
     DEF ScreensInv, RowsAreRight, LastReadAnswers, IsLastRead, Reading, Fits
<1>13. RowsComeInOrder'
  BY <1>1, <1>2, <1>3, <1>8, <1>11, Zenon DEF ScreensInv, RowsComeInOrder, InOrder, Shows
<1>14. SpinnerEnds' /\ DialogsKeepTheFilter'
  BY <1>1, <1>2, <1>3, <1>8, <1>11, Zenon
     DEF ScreensInv, SpinnerEnds, Reading, DialogsKeepTheFilter
<1>15. ScreensTyped'
  BY <1>1, <1>2 DEF ScreensInv, ScreensTyped
<1>16. QED
  BY <1>10, <1>12, <1>13, <1>14, <1>15 DEF ScreensInv

\* A write is answered: its handler loads again, with the filter it started
\* with, or shows the row, which no answer still expected is older than.
LEMMA HearWriteKeepsInv ==
    ASSUME ScreensInv, screen \in DOMAIN Page, NEW i \in DOMAIN flights, HearWrite(i)
    PROVE  ScreensInv'
<1>1. /\ flights[i].kind # "read" /\ flights[i].at > 0 /\ filter' = filter
      /\ told' = IF flights[i].kind = "plain" THEN told ELSE Later(told, flights[i].at)
      /\ UNCHANGED <<screen, watched, table, stash, hidden>>
  BY DEF HearWrite
<1>2. Hook' = Hook /\ (ShowsAnswers(Hook)' <=> ShowsAnswers(Hook))
  BY <1>1 DEF Hook, ShowsAnswers
<1>3. /\ flights \in Seq(FlightType) /\ flights[i] \in FlightType
      /\ table \in Nat /\ told \in Nat /\ AreOfThePage(flights, filter)
      /\ IsOfThePage(flights, i, filter)
  BY DEF ScreensInv, ScreensTyped, AreOfThePage
<1>4. flights[i].at \in Nat /\ flights[i].at # 0 /\ flights[i].at <= table
  BY <1>1, <1>3 DEF FlightType, IsOfThePage
<1>5. told' \in Nat /\ told' <= table'
  BY <1>1, <1>3, <1>4 DEF Later, ScreensInv, ScreensTyped
<1>6. PICK w \in DOMAIN Hook.writes :
        Hook.writes[w].then = flights[i].kind /\ Hook.writes[w].dialog = flights[i].dialog
  BY <1>1, <1>3 DEF IsOfThePage
<1>7. CASE /\ flights[i].kind = "load"
           /\ Ask(RemoveAt(flights, i), flights[i].filter, flights[i].tells)
           /\ UNCHANGED shown
  <2>1. ~ShowsAnswers(Hook)
    BY <1>6, <1>7, HookIsTyped
  <2>2. ScreensTyped'
    BY <1>1, <1>2, <1>5, <1>7 DEF ScreensInv, ScreensTyped
  <2>3. PICK rest : rest = RemoveAt(flights, i)
    OBVIOUS
  <2>4. AreOfThePage(rest, filter')
    BY <1>1, <1>3, <2>3, RestIsOfThePage
  <2>5. loading => Reading(rest)
    BY <1>1, <1>3, <2>3, RestReads DEF ScreensInv, SpinnerEnds
  <2>6. flights[i].filter \in Filter /\ flights[i].tells \in BOOLEAN
    BY <1>3 DEF FlightType
  <2>7. flights[i].filter # filter' =>
          \E v \in DOMAIN Hook.writes :
            Hook.writes[v].then = "load" /\ ~Hook.writes[v].dialog
    BY <1>1, <1>3, <1>6, <1>7 DEF IsOfThePage
  <2>8. QED
    BY <1>1, <1>7, <2>1, <2>2, <2>3, <2>4, <2>5, <2>6, <2>7, AskKeepsInv DEF ScreensInv
<1>8. CASE /\ flights[i].kind = "take"
           /\ shown' = Rows(flights[i].filter, flights[i].at)
           /\ flights' = RemoveAt(flights, i)
           /\ hitches' = Overtaken(i)
           /\ UNCHANGED <<loading, error>>
  <2>1. ShowsAnswers(Hook) /\ watched = FALSE
    BY <1>6, <1>8 DEF ShowsAnswers, ScreensInv, RowsComeInOrder
  <2>2. /\ hitches' = {} => hitches = {} /\ \A j \in 1..(i - 1) : ~Shows(flights[j])
        /\ "closure" \in hitches' => "closure" \in hitches
    BY <1>8 DEF Overtaken
  <2>3. shown'.filter = flights[i].filter /\ shown'.version = flights[i].at
    BY <1>8 DEF Rows
  <2>4. AreOfThePage(flights, filter)'
    BY <1>1, <1>8, RestKeepsPage
  <2>5. PICK rest : rest = RemoveAt(flights, i) /\ rest = flights'
    BY <1>8
  <2>6. Reading(rest) <=> Reading(flights)
    BY <1>1, <1>3, <2>5, RestReads
  <2>7. Shows(flights[i])
    BY <1>8 DEF Shows
  <2>8. ASSUME hitches' = {}
        PROVE  ~Reading(rest) /\ shown'.version >= told' /\ InOrder(rest, told')
    <3>1. InOrder(flights, told)
      BY <2>1, <2>2, <2>8 DEF ScreensInv, RowsComeInOrder
    <3>2. flights[i].at >= told
      BY <1>4, <2>7, <3>1, Zenon DEF InOrder
    <3>3. told' = flights[i].at
      BY <1>1, <1>3, <1>4, <1>8, <3>2 DEF Later
    <3>4. InOrder(rest, flights[i].at)
      BY <1>3, <1>4, <2>2, <2>5, <2>7, <2>8, <3>1, RestIsNewer
    <3>5. ~Reading(flights)
      <4>1. SUFFICES ASSUME NEW j \in DOMAIN flights, flights[j].kind = "read"
                     PROVE  FALSE
        BY DEF Reading
      <4>2. j = 1
        BY <1>3, <2>1, <4>1 DEF AreOfThePage, IsOfThePage
      <4>3. i # 1 /\ i \in Nat \ {0}
        BY <1>1, <1>3, <4>1, <4>2
      <4>4. j \in 1..(i - 1)
        BY <4>2, <4>3
      <4>5. QED
        BY <2>2, <2>8, <4>1, <4>4 DEF Shows
    <3>6. shown'.version >= told'
      BY <1>4, <2>3, <3>3
    <3>7. QED
      BY <2>6, <3>3, <3>4, <3>5, <3>6
  <2>9. RowsAreRight'
    BY <1>1, <2>1, <2>5, <2>8, Zenon
       DEF RowsAreRight, LastReadAnswers, IsLastRead, Reading, Fits
  <2>10. RowsComeInOrder'
    BY <1>1, <1>2, <2>1, <2>5, <2>8, Zenon DEF RowsComeInOrder, InOrder, Shows
  <2>11. SpinnerEnds' /\ DialogsKeepTheFilter'
    BY <1>1, <1>2, <1>8, <2>2, <2>5, <2>6, Zenon
       DEF ScreensInv, SpinnerEnds, Reading, DialogsKeepTheFilter
  <2>12. ScreensTyped'
    BY <1>1, <1>2, <1>4, <1>5, <2>3 DEF ScreensInv, ScreensTyped
  <2>13. QED
    BY <2>4, <2>9, <2>10, <2>11, <2>12 DEF ScreensInv
<1>9. CASE /\ flights[i].kind = "plain"
           /\ flights' = RemoveAt(flights, i)
           /\ UNCHANGED <<shown, loading, error, hitches>>
  <2>1. told' = told
    BY <1>1, <1>9
  <2>2. QED
    BY <1>1, <1>9, <2>1, QuietWriteKeepsInv
<1>10. QED
  BY <1>7, <1>8, <1>9 DEF HearWrite

\* A request reaches the tables: its answer holds all that was told of.
LEMMA ServeKeepsInv ==
    ASSUME ScreensInv, NEW i \in DOMAIN flights, Serve(i)
    PROVE  ScreensInv'
<1>1. /\ flights[i].at = 0 /\ flights' = [flights EXCEPT ![i].at = table']
      /\ UNCHANGED <<screen, watched, filter, shown, stash, loading, error, told, hidden>>
  BY DEF Serve
<1>2. Hook' = Hook /\ (ShowsAnswers(Hook)' <=> ShowsAnswers(Hook))
  BY <1>1 DEF Hook, ShowsAnswers
<1>3. /\ flights \in Seq(FlightType) /\ flights[i] \in FlightType
      /\ table \in Nat /\ told \in Nat /\ told <= table
      /\ \A j \in DOMAIN flights : IsOfThePage(flights, j, filter)
  BY DEF ScreensInv, ScreensTyped, AreOfThePage
<1>4. table' \in Nat /\ table' >= table
  <2>1. table' = table \/ table' = table + 1
    BY DEF Serve
  <2>2. QED
    BY <1>3, <2>1
<1>5. PICK v : v = table'
  OBVIOUS
<1>6. PICK x : x = [flights[i] EXCEPT !.at = v]
  OBVIOUS
<1>7. /\ x \in FlightType /\ x.at = v /\ x.kind = flights[i].kind
      /\ x.filter = flights[i].filter /\ x.dialog = flights[i].dialog
  BY <1>3, <1>4, <1>5, <1>6 DEF FlightType
<1>8. PICK more : more = flights'
  OBVIOUS
<1>9. more = [flights EXCEPT ![i] = x]
  BY <1>1, <1>5, <1>6, <1>8, Zenon
<1>10. /\ more \in Seq(FlightType) /\ DOMAIN more = DOMAIN flights
       /\ more[i] = x /\ \A j \in DOMAIN flights \ {i} : more[j] = flights[j]
  BY <1>3, <1>7, <1>9
<1>11. \A j \in DOMAIN flights :
         /\ more[j].kind = flights[j].kind /\ more[j].filter = flights[j].filter
         /\ more[j].dialog = flights[j].dialog
         /\ more[j].at = IF j = i THEN v ELSE flights[j].at
  BY <1>7, <1>10, Zenon
<1>12. AreOfThePage(flights, filter)'
  <2>1. ASSUME NEW j \in DOMAIN flights
        PROVE  IsOfThePage(flights, j, filter)'
    <3>1. IsOfThePage(flights, j, filter) /\ flights[j] \in FlightType
      BY <1>3
    <3>2. flights[j].at \in Nat /\ flights[j].at <= table
      BY <3>1 DEF IsOfThePage, FlightType
    <3>3. more[j].at <= table'
      BY <1>3, <1>4, <1>5, <1>11, <3>2
    <3>4. QED
      BY <1>1, <1>2, <1>8, <1>11, <3>1, <3>3, Zenon DEF IsOfThePage
  <2>2. QED
    BY <1>8, <1>10, <2>1, Zenon DEF AreOfThePage
<1>13. Reading(more) <=> Reading(flights)
  BY <1>10, <1>11, Zenon DEF Reading
<1>14. hitches' = {} => hitches = {}
  BY DEF Serve
<1>15. v \in Nat /\ v >= told
  BY <1>3, <1>4, <1>5
<1>16. LastReadAnswers(flights, filter, told) => LastReadAnswers(more, filter, told)
  BY <1>10, <1>11, <1>15, Zenon DEF LastReadAnswers, IsLastRead
<1>17. RowsAreRight'
  BY <1>1, <1>8, <1>13, <1>14, <1>16, Zenon
     DEF ScreensInv, RowsAreRight, LastReadAnswers, IsLastRead, Reading, Fits
<1>18. ASSUME ShowsAnswers(Hook), hitches' = {}, InOrder(flights, told)
       PROVE  InOrder(more, told)
  <2>1. ASSUME NEW j \in DOMAIN flights, NEW k \in DOMAIN flights, j < k,
               Shows(more[j]), Shows(more[k]), more[k].at # 0
        PROVE  more[j].at # 0 /\ more[j].at <= more[k].at
    <3>1. Shows(flights[j]) /\ Shows(flights[k])
      BY <1>11, <2>1 DEF Shows
    <3>2. CASE k = i
      <4>1. flights[i].kind # "read"
        <5>1. SUFFICES ASSUME flights[i].kind = "read" PROVE FALSE
          OBVIOUS
        <5>2. i = 1
          BY <1>3, <1>18, <5>1 DEF IsOfThePage
        <5>3. QED
          BY <1>3, <2>1, <3>2, <5>2
      <4>2. flights[i].kind = "take"
        BY <3>1, <3>2, <4>1 DEF Shows
      <4>3. j \in 1..(i - 1)
        BY <1>3, <2>1, <3>2
      <4>4. flights[j].at # 0
        BY <1>18, <3>1, <4>2, <4>3 DEF Serve
      <4>5. flights[j] \in FlightType /\ IsOfThePage(flights, j, filter) /\ j # i
        BY <1>3, <4>3
      <4>6. flights[j].at \in Nat /\ flights[j].at <= table
        BY <4>5 DEF FlightType, IsOfThePage
      <4>7. more[j].at = flights[j].at /\ more[k].at = v
        BY <1>11, <3>2, <4>5
      <4>8. QED
        BY <1>3, <1>4, <1>5, <4>4, <4>6, <4>7
    <3>3. CASE k # i
      <4>1. flights[k].at # 0 /\ more[k].at = flights[k].at
        BY <1>11, <2>1, <3>3
      <4>2. flights[j].at # 0 /\ flights[j].at <= flights[k].at
        BY <1>18, <2>1, <3>1, <4>1, Zenon DEF InOrder
      <4>3. j # i
        BY <1>1, <4>2
      <4>4. QED
        BY <1>11, <4>1, <4>2, <4>3
    <3>4. QED
      BY <3>2, <3>3
  <2>2. ASSUME NEW j \in DOMAIN flights, Shows(more[j]), more[j].at # 0
        PROVE  more[j].at >= told
    <3>1. Shows(flights[j])
      BY <1>11, <2>2 DEF Shows
    <3>2. CASE j = i
      BY <1>11, <1>15, <3>2
    <3>3. CASE j # i
      <4>1. more[j].at = flights[j].at
        BY <1>11, <3>3
      <4>2. QED
        BY <1>18, <2>2, <3>1, <4>1, Zenon DEF InOrder
    <3>4. QED
      BY <3>2, <3>3
  <2>3. QED
    BY <1>10, <2>1, <2>2, Zenon DEF InOrder
<1>19. RowsComeInOrder'
  <2>1. SUFFICES ASSUME ShowsAnswers(Hook)
                 PROVE  watched' = FALSE /\ (hitches' = {} => InOrder(flights, told)')
    BY <1>2, Zenon DEF RowsComeInOrder
  <2>2. watched = FALSE /\ (hitches = {} => InOrder(flights, told))
    BY <2>1 DEF ScreensInv, RowsComeInOrder
  <2>3. hitches' = {} => InOrder(more, told)
    BY <1>14, <1>18, <2>1, <2>2
  <2>4. more = flights' /\ told' = told /\ watched' = watched
    BY <1>1, <1>8
  <2>5. hitches' = {} => InOrder(flights, told)'
    BY <2>3, <2>4, Zenon DEF InOrder, Shows
  <2>6. QED
    BY <2>2, <2>4, <2>5
<1>20. "closure" \in hitches' => "closure" \in hitches
  BY DEF Serve
<1>21. SpinnerEnds' /\ DialogsKeepTheFilter'
  BY <1>1, <1>2, <1>8, <1>13, <1>20, Zenon
     DEF ScreensInv, SpinnerEnds, Reading, DialogsKeepTheFilter
<1>22. told' <= table'
  BY <1>1, <1>3, <1>4
<1>23. ScreensTyped'
  BY <1>1, <1>2, <1>4, <1>22 DEF ScreensInv, ScreensTyped
<1>24. QED
  BY <1>12, <1>17, <1>19, <1>21, <1>23 DEF ScreensInv

LEMMA PageStepKeepsInv ==
    ASSUME ScreensInv, screen # NoPage, ScreenNext
    PROVE  ScreensInv'
<1>1. screen \in DOMAIN Page
  BY DEF ScreensInv, ScreensTyped
<1>2. CASE \E f \in Filter : ChangeFilter(f)
  BY <1>1, <1>2, ChangeFilterKeepsInv
<1>3. CASE RefreshPage \/ Poll
  BY <1>1, <1>3, AskAgainKeepsInv
<1>4. CASE Hide \/ EditCart \/ WriteElsewhere
  BY <1>4, IdleStepsKeepInv
<1>5. CASE Unhide
  BY <1>1, <1>5, UnhideKeepsInv
<1>6. CASE \E w \in DOMAIN Hook.writes : StartWrite(Hook.writes[w])
  BY <1>1, <1>6, StartWriteKeepsInv
<1>7. CASE \E i \in DOMAIN flights :
             Serve(i) \/ ShowLoad(i) \/ FailLoad(i) \/ ShowStash(i) \/ HearWrite(i) \/ FailWrite(i)
  BY <1>1, <1>7, ServeKeepsInv, ShowLoadKeepsInv, FailLoadKeepsInv, HearWriteKeepsInv,
     FailWriteKeepsInv
<1>8. QED
  BY <1>2, <1>3, <1>4, <1>5, <1>6, <1>7 DEF ScreenNext

LEMMA ScreensInvInit ==
    ASSUME ScreenClosed \/ ScreenInit
    PROVE  ScreensInv
<1>1. CASE ScreenClosed
  <2>1. filter \in Filter /\ flights = <<>>
    BY <1>1, FilterAssumption DEF ScreenClosed
  <2>2. ScreensTyped
    BY <1>1, <2>1 DEF ScreenClosed, ScreensTyped, Rows
  <2>3. DOMAIN flights = {} /\ flights \in Seq(FlightType)
    BY <2>1
  <2>4. AreOfThePage(flights, filter) /\ RowsAreRight /\ RowsComeInOrder
    BY <1>1, <2>3
       DEF ScreenClosed, AreOfThePage, RowsAreRight, LastReadAnswers, RowsComeInOrder, InOrder,
           Fits, Rows
  <2>5. SpinnerEnds /\ DialogsKeepTheFilter
    BY <1>1 DEF ScreenClosed, SpinnerEnds, DialogsKeepTheFilter
  <2>6. QED
    BY <2>2, <2>4, <2>5 DEF ScreensInv
<1>2. CASE ScreenInit
  <2>1. screen \in DOMAIN Page /\ filter \in Filter /\ hitches = {} /\ told = 0 /\ table = 1
    BY <1>2 DEF ScreenInit
  <2>2. ScreensTyped
    BY <1>2 DEF ScreenInit, ScreensTyped, Rows
  <2>3. PICK t \in BOOLEAN : t = (Hook.catches \/ Hook.effectTells)
    BY <2>1, HookIsTyped, Zenon
  <2>4. PICK x : x = Load(filter, t)
    OBVIOUS
  <2>5. x \in FlightType /\ x.kind = "read" /\ x.filter = filter /\ x.at = 0 /\ x.dialog = FALSE
    BY <2>1, <2>4 DEF Load, FlightType
  <2>6. flights = <<x>>
    BY <1>2, <2>3, <2>4, Zenon DEF ScreenInit
  <2>7. flights \in Seq(FlightType) /\ DOMAIN flights = {1} /\ flights[1] = x
    BY <2>5, <2>6
  <2>8. AreOfThePage(flights, filter)
    BY <2>1, <2>5, <2>7 DEF AreOfThePage, IsOfThePage
  <2>9. Reading(flights)
    BY <2>5, <2>7 DEF Reading
  <2>10. RowsAreRight
    BY <2>5, <2>7, <2>9 DEF RowsAreRight, LastReadAnswers, Fits
  <2>11. ShowsAnswers(Hook) => watched = FALSE
    BY <1>2, <2>1, HookIsTyped DEF ScreenInit
  <2>12. RowsComeInOrder
    BY <2>5, <2>7, <2>11 DEF RowsComeInOrder, InOrder
  <2>13. SpinnerEnds /\ DialogsKeepTheFilter
    BY <2>1, <2>9 DEF SpinnerEnds, DialogsKeepTheFilter
  <2>14. QED
    BY <2>2, <2>8, <2>10, <2>12, <2>13 DEF ScreensInv
<1>3. QED
  BY <1>1, <1>2

-----------------------------------------------------------------------------
(* Theorems *)

\* At every terminal: the confirm button waits for the answer to the sale that
\* was sent and then for one list, and what was sold stays in the cart no
\* longer than its answer is under way.
THEOREM TerminalsAreInvariant == TerminalsSpec => []TerminalsInv
<1>1. TerminalsInit => TerminalsInv
  BY TerminalsInvInit
<1>2. TerminalsInv /\ [TerminalsNext]_terminalVars => TerminalsInv'
  BY TerminalsStepKeepsInv
<1>3. QED
  BY <1>1, <1>2, PTL DEF TerminalsSpec

\* A seller who may confirm has nothing in the cart that was sold already, but
\* for one sale for each answer lost (usePOS.confirmSale, isSaving).
THEOREM TerminalsCartIsUnsold == TerminalsSpec => []CartIsUnsold
<1>1. TerminalsInv => CartIsUnsold
  BY DEF TerminalsInv, TerminalInv, SoldUntilHeard, CartIsUnsold
<1>2. QED
  BY <1>1, TerminalsAreInvariant, PTL

\* At the point of sale the invariant of the terminals, at the other pages that
\* of the flights: whichever page is open keeps both.
THEOREM ClientsAreInvariant == ClientSpec => [](TerminalsInv /\ ScreensInv)
<1>1. ClientInit => TerminalsInv /\ ScreensInv
  BY TerminalsInvInit, ScreensInvInit DEF ClientInit
<1>2. TerminalsInv /\ ScreensInv /\ [ClientNext]_clientVars => (TerminalsInv /\ ScreensInv)'
  <2>1. SUFFICES ASSUME TerminalsInv, ScreensInv, [ClientNext]_clientVars
                 PROVE  TerminalsInv' /\ ScreensInv'
    OBVIOUS
  <2>2. ASSUME UNCHANGED screenVars
        PROVE  ScreensInv'
    <3>1. UNCHANGED <<screen, watched, table, filter, shown, stash, loading, error, flights, told,
                      hidden, hitches>>
      BY <2>2 DEF screenVars
    <3>2. Hook' = Hook /\ table' >= table
      BY <2>1, <3>1 DEF Hook, ScreensInv, ScreensTyped
    <3>3. ScreensTyped'
      BY <2>1, <3>1, <3>2 DEF ScreensInv, ScreensTyped
    <3>4. QED
      BY <2>1, <3>1, <3>2, <3>3, IdleKeepsInv
  <2>3. CASE TerminalsNext /\ UNCHANGED screenVars
    BY <2>1, <2>2, <2>3, TerminalsStepKeepsInv
  <2>4. CASE screen # NoPage /\ ScreenNext /\ UNCHANGED terminalVars
    BY <2>1, <2>4, TerminalsStepKeepsInv, PageStepKeepsInv
  <2>5. CASE UNCHANGED clientVars
    <3>1. UNCHANGED terminalVars /\ UNCHANGED screenVars
      BY <2>5 DEF clientVars
    <3>2. QED
      BY <2>1, <2>2, <3>1, TerminalsStepKeepsInv
  <2>6. QED
    BY <2>1, <2>3, <2>4, <2>5 DEF ClientNext
<1>3. QED
  BY <1>1, <1>2, PTL DEF ClientSpec

\* The same in the client, whose other pages do nothing to a cart
\* (usePOS.confirmSale).
THEOREM ClientsCartIsUnsold == ClientSpec => []CartIsUnsold
<1>1. TerminalsInv => CartIsUnsold
  BY DEF TerminalsInv, TerminalInv, SoldUntilHeard, CartIsUnsold
<1>2. QED
  BY <1>1, ClientsAreInvariant, PTL

\* Every page written as those of the table are, whatever its filters, its
\* handlers and the versions of the tables, comes to rest as it should: it does
\* not say that it is loading when no load is in flight; with no failure told
\* of it shows what its filters ask for and every change it was told of, unless
\* one of the hitches named by RowsAnswerThePage came between; and a load for a
\* filter that was left was asked by a handler behind no dialog (useCustomers,
\* useInventory, useCash and the other hooks with their pages).
THEOREM ClientsPagesSettle == ClientSpec => []PagesSettle
<1>1. ScreensInv => RowsAnswerThePage
  BY DEF ScreensInv, RowsAreRight, RowsAnswerThePage
<1>2. ScreensInv => SpinnerEnds /\ DialogsKeepTheFilter
  BY DEF ScreensInv
<1>3. TerminalsInv /\ ScreensInv => PagesSettle
  BY <1>1, <1>2 DEF PagesSettle
<1>4. QED
  BY <1>3, ClientsAreInvariant, PTL
=============================================================================

----------------------------- MODULE ProductRows -----------------------------
(***************************************************************************)
(* The Product table and the InventoryMovement rows that explain it, under *)
(* the isolation the code runs with: PostgreSQL READ COMMITTED, reached    *)
(* through Prisma interactive transactions.                                *)
(*   - a plain read returns the last committed row, or the transaction's   *)
(*     own uncommitted one;                                                *)
(*   - an UPDATE waits until no other transaction holds the row, then      *)
(*     holds it until commit or rollback;                                  *)
(*   - inserted rows (movements) are invisible to others until commit.     *)
(***************************************************************************)
EXTENDS Requests, Integers

CONSTANTS Product, InitialStock

ASSUME ProductAssumption == InitialStock \in [Product -> Nat]

VARIABLES
    stock,      \* committed Product.stock
    live,       \* newest version of the row: uncommitted when it is held
    holder,     \* the request whose transaction holds the row, or None
    active,     \* Product.isActive
    kardex,     \* sum of newStock - previousStock over committed movements
    moved       \* the same sum over the movements r has not yet committed

rowVars == <<stock, live, holder, active, kardex, moved>>

NoMoves == [p \in Product |-> 0]

RowsInit ==
    /\ stock = InitialStock
    /\ live = InitialStock
    /\ holder = [p \in Product |-> None]
    /\ active = [p \in Product |-> TRUE]
    /\ kardex = NoMoves
    /\ moved = [r \in Request |-> NoMoves]

RowsTypeOK ==
    /\ stock \in [Product -> Int]
    /\ live \in [Product -> Int]
    /\ holder \in [Product -> Request \cup {None}]
    /\ active \in [Product -> BOOLEAN]
    /\ kardex \in [Product -> Int]
    /\ moved \in [Request -> [Product -> Int]]

\* What a SELECT of r returns.
Visible(r, p) == IF holder[p] = r THEN live[p] ELSE stock[p]

MayWrite(r, p) == holder[p] \in {None, r}

\* UPDATE "Product" SET stock = value, and the InventoryMovement row that
\* records a change of delta.
WriteStock(r, p, value, delta) ==
    /\ MayWrite(r, p)
    /\ live' = [live EXCEPT ![p] = value]
    /\ holder' = [holder EXCEPT ![p] = r]
    /\ moved' = [moved EXCEPT ![r][p] = @ + delta]
    /\ UNCHANGED <<stock, active, kardex>>

Released(r) == [p \in Product |-> IF holder[p] = r THEN None ELSE holder[p]]

CommitRows(r) ==
    /\ stock' = [p \in Product |-> Visible(r, p)]
    /\ holder' = Released(r)
    /\ kardex' = [p \in Product |-> kardex[p] + moved[r][p]]
    /\ moved' = [moved EXCEPT ![r] = NoMoves]
    /\ UNCHANGED <<live, active>>

RollbackRows(r) ==
    /\ live' = [p \in Product |-> IF holder[p] = r THEN stock[p] ELSE live[p]]
    /\ holder' = Released(r)
    /\ moved' = [moved EXCEPT ![r] = NoMoves]
    /\ UNCHANGED <<stock, active, kardex>>
=============================================================================

--------------------------- MODULE Reports_proofs ---------------------------
(***************************************************************************)
(* Proofs about the reports: the money of the shop.  What the tills took   *)
(* in and gave out is what its documents say, since a document and its     *)
(* movements commit together; the reports are sums over both, and the      *)
(* equations between them are equations between sums.                      *)
(***************************************************************************)
EXTENDS Inventory_proofs

-----------------------------------------------------------------------------
(* Sums over sets of rows *)

\* One row enters the set, leaves it or gets another value.
LEMMA SumMoved ==
    ASSUME NEW S, IsFiniteSet(S), NEW T, NEW k, NEW f, NEW g, NEW a \in Int, NEW b \in Int,
           S \ {k} = T \ {k}, \A x \in S : f[x] \in Int, \A x \in S \ {k} : f[x] = g[x],
           k \in S => f[k] = a, k \notin S => a = 0,
           k \in T => g[k] = b, k \notin T => b = 0
    PROVE  SumFunctionOnSet(g, T) = SumFunctionOnSet(f, S) - a + b
<1>1. PICK R : R = S \ {k}
  OBVIOUS
<1>2. IsFiniteSet(R) /\ R = T \ {k}
  BY <1>1, FS_Subset
<1>3. IsFiniteSet(T)
  <2>1. T = R \/ T = R \cup {k}
    BY <1>2
  <2>2. IsFiniteSet(R \cup {k})
    BY <1>2, FS_AddElement
  <2>3. QED
    BY <1>2, <2>1, <2>2
<1>4. PICK c : c = SumFunctionOnSet(f, R)
  OBVIOUS
<1>5. c \in Int /\ c = SumFunctionOnSet(g, R)
  BY <1>1, <1>2, <1>4, SumInt, SumSame
<1>6. SumFunctionOnSet(f, S) = a + c
  <2>1. CASE k \in S
    BY <1>1, <1>4, <2>1, SumSplit
  <2>2. CASE k \notin S
    <3>1. S = R
      BY <1>1, <2>2
    <3>2. SumFunctionOnSet(f, S) = c
      BY <1>4, <3>1
    <3>3. a = 0
      BY <2>2
    <3>4. QED
      BY <1>5, <3>2, <3>3
  <2>3. QED
    BY <2>1, <2>2
<1>7. SumFunctionOnSet(g, T) = b + c
  <2>1. \A x \in T : g[x] \in Int
    BY <1>1, <1>2
  <2>2. CASE k \in T
    <3>1. SumFunctionOnSet(g, T) = g[k] + SumFunctionOnSet(g, T \ {k})
      BY <1>3, <2>1, <2>2, SumSplit
    <3>2. QED
      BY <1>2, <1>5, <2>2, <3>1
  <2>3. CASE k \notin T
    <3>1. T = R
      BY <1>2, <2>3
    <3>2. QED
      BY <1>5, <2>3, <3>1
  <2>4. QED
    BY <2>2, <2>3
<1>8. QED
  BY <1>5, <1>6, <1>7

\* Two parts of a set.
LEMMA SumUnion ==
    ASSUME NEW S, IsFiniteSet(S), NEW A, A \subseteq S, NEW f, \A x \in S : f[x] \in Int
    PROVE  SumFunctionOnSet(f, S) = SumFunctionOnSet(f, A) + SumFunctionOnSet(f, S \ A)
<1> DEFINE Good == {T \in SUBSET S :
              SumFunctionOnSet(f, T) = SumFunctionOnSet(f, T \cap A) + SumFunctionOnSet(f, T \ A)}
<1>1. ASSUME NEW T \in SUBSET S, \A x \in T : T \ {x} \in Good
      PROVE  T \in Good
  <2>1. PICK P, Q : P = T \cap A /\ Q = T \ A
    OBVIOUS
  <2>2. IsFiniteSet(T) /\ IsFiniteSet(P) /\ IsFiniteSet(Q)
    BY <2>1, FS_Subset
  <2>3. CASE T = {}
    <3>1. P = {} /\ Q = {}
      BY <2>1, <2>3
    <3>2. SumFunctionOnSet(f, {}) = 0
      BY SumEmpty
    <3>3. SumFunctionOnSet(f, P) = 0 /\ SumFunctionOnSet(f, Q) = 0 /\ SumFunctionOnSet(f, T) = 0
      BY <2>3, <3>1, <3>2
    <3>4. QED
      BY <2>1, <3>3
  <2>4. CASE T # {}
    <3>1. PICK x \in T : TRUE
      BY <2>4
    <3>2. PICK R : R = T \ {x}
      OBVIOUS
    <3>3. PICK a, b, c : /\ a = SumFunctionOnSet(f, R) /\ b = SumFunctionOnSet(f, R \cap A)
                         /\ c = SumFunctionOnSet(f, R \ A)
      OBVIOUS
    <3>4. a = b + c
      BY <1>1, <3>1, <3>2, <3>3
    <3>5. SumFunctionOnSet(f, T) = f[x] + a
      BY <2>2, <3>1, <3>2, <3>3, SumSplit
    <3>6. IsFiniteSet(R \cap A) /\ IsFiniteSet(R \ A)
      BY <2>2, <3>2, FS_Subset
    <3>7. b \in Int /\ c \in Int /\ f[x] \in Int
      BY <3>1, <3>2, <3>3, <3>6, SumInt
    <3>8. CASE x \in A
      <4>1. x \in P /\ P \ {x} = R \cap A /\ Q = R \ A /\ \A y \in P : f[y] \in Int
        BY <2>1, <3>1, <3>2, <3>8
      <4>2. SumFunctionOnSet(f, P) = f[x] + b
        BY <2>2, <3>3, <4>1, SumSplit
      <4>3. SumFunctionOnSet(f, Q) = c
        BY <3>3, <4>1
      <4>4. SumFunctionOnSet(f, T) = SumFunctionOnSet(f, P) + SumFunctionOnSet(f, Q)
        BY <3>4, <3>5, <3>7, <4>2, <4>3
      <4>5. QED
        BY <2>1, <4>4
    <3>9. CASE x \notin A
      <4>1. x \in Q /\ Q \ {x} = R \ A /\ P = R \cap A /\ \A y \in Q : f[y] \in Int
        BY <2>1, <3>1, <3>2, <3>9
      <4>2. SumFunctionOnSet(f, Q) = f[x] + c
        BY <2>2, <3>3, <4>1, SumSplit
      <4>3. SumFunctionOnSet(f, P) = b
        BY <3>3, <4>1
      <4>4. SumFunctionOnSet(f, T) = SumFunctionOnSet(f, P) + SumFunctionOnSet(f, Q)
        BY <3>4, <3>5, <3>7, <4>2, <4>3
      <4>5. QED
        BY <2>1, <4>4
    <3>10. QED
      BY <3>8, <3>9
  <2>5. QED
    BY <2>3, <2>4
<1>2. Good \in SUBSET (SUBSET S)
  OBVIOUS
<1> HIDE DEF Good
<1>3. SUBSET S = Good
  <2>1. \A T \in SUBSET S : (\A x \in T : T \ {x} \in Good) => T \in Good
    BY <1>1
  <2>2. QED
    BY <1>2, <2>1, SubsetInduction
<1>4. SumFunctionOnSet(f, S) = SumFunctionOnSet(f, S \cap A) + SumFunctionOnSet(f, S \ A)
  BY <1>3 DEF Good
<1>5. S \cap A = A
  OBVIOUS
<1>6. QED
  BY <1>4, <1>5

LEMMA SumOne ==
    ASSUME NEW x, NEW f, f[x] \in Int
    PROVE  SumFunctionOnSet(f, {x}) = f[x]
<1>1. PICK S : S = {x}
  OBVIOUS
<1>2. IsFiniteSet(S) /\ x \in S /\ S \ {x} = {} /\ \A y \in S : f[y] \in Int
  BY <1>1, FS_Singleton
<1>3. SumFunctionOnSet(f, S) = f[x] + SumFunctionOnSet(f, S \ {x})
  BY <1>2, SumSplit
<1>4. SumFunctionOnSet(f, S \ {x}) = 0
  BY <1>2, SumEmpty
<1>5. QED
  BY <1>1, <1>3, <1>4

\* The three methods.
LEMMA SumOfMethods ==
    ASSUME NEW f, \A m \in Method : f[m] \in Int
    PROVE  SumFunctionOnSet(f, Method) = f["CASH"] + f["YAPE"] + f["MIXED"]
<1>1. IsFiniteSet({}) /\ \A S, x : IsFiniteSet(S) => IsFiniteSet(S \cup {x})
  BY FS_EmptySet, FS_AddElement
<1>2. PICK A, B, C : A = {"CASH"} /\ B = A \cup {"YAPE"} /\ C = B \cup {"MIXED"}
  OBVIOUS
<1>3. IsFiniteSet(A) /\ IsFiniteSet(B) /\ IsFiniteSet(C) /\ C = Method
  BY <1>1, <1>2, FS_Singleton DEF Method
<1>4. f["CASH"] \in Int /\ f["YAPE"] \in Int /\ f["MIXED"] \in Int
  BY DEF Method
<1>5. SumFunctionOnSet(f, A) = f["CASH"]
  BY <1>2, <1>4, SumOne
<1>6. SumFunctionOnSet(f, B) = SumFunctionOnSet(f, A) + f["YAPE"]
  <2>1. "YAPE" \notin A /\ \A x \in A : f[x] \in Int
    BY <1>2, <1>4
  <2>2. QED
    BY <1>2, <1>3, <1>4, <2>1, SumAdded
<1>7. SumFunctionOnSet(f, C) = SumFunctionOnSet(f, B) + f["MIXED"]
  <2>1. "MIXED" \notin B /\ \A x \in B : f[x] \in Int
    BY <1>2, <1>4
  <2>2. QED
    BY <1>2, <1>3, <1>4, <2>1, SumAdded
<1>8. QED
  BY <1>3, <1>5, <1>6, <1>7

\* A set of rows, method by method: A, B and C are the rows of each.
LEMMA SumByMethod ==
    ASSUME NEW S, IsFiniteSet(S), NEW A, NEW B, NEW C, NEW f, \A x \in S : f[x] \in Int,
           S = A \cup B \cup C, A \cap B = {}, A \cap C = {}, B \cap C = {}
    PROVE  SumFunctionOnSet(f, S) =
             SumFunctionOnSet(f, A) + SumFunctionOnSet(f, B) + SumFunctionOnSet(f, C)
<1>1. PICK R : R = S \ A
  OBVIOUS
<1>2. /\ A \subseteq S /\ B \subseteq R /\ R \ B = C /\ R \subseteq S
      /\ \A x \in R : f[x] \in Int
  BY <1>1
<1>3. IsFiniteSet(R)
  BY <1>2, FS_Subset
<1>4. SumFunctionOnSet(f, S) = SumFunctionOnSet(f, A) + SumFunctionOnSet(f, S \ A)
  BY <1>2, SumUnion
<1>5. SumFunctionOnSet(f, R) = SumFunctionOnSet(f, B) + SumFunctionOnSet(f, R \ B)
  BY <1>2, <1>3, SumUnion
<1>6. IsFiniteSet(A) /\ IsFiniteSet(B) /\ IsFiniteSet(C)
  BY <1>2, FS_Subset
<1>7. PICK a, b, c : a = SumFunctionOnSet(f, A) /\ b = SumFunctionOnSet(f, B) /\ c = SumFunctionOnSet(f, C)
  OBVIOUS
<1>8. a \in Int /\ b \in Int /\ c \in Int
  BY <1>2, <1>6, <1>7, SumInt
<1>9. SumFunctionOnSet(f, S) = a + (b + c)
  BY <1>1, <1>2, <1>4, <1>5, <1>7
<1>10. QED
  BY <1>7, <1>8, <1>9

\* What goods cost, summed over the rows of a table or over the products: u[n][p]
\* units of p in row n, at c[p] each.
CostTable(S, P, c, u, rows, columns, byRow, byColumn) ==
    /\ IsFiniteSet(S) /\ IsFiniteSet(P) /\ c \in [P -> Int]
    /\ \A n \in S, p \in P :
         u[n][p] \in Int /\ rows[n][p] = c[p] * u[n][p] /\ columns[p][n] = u[n][p]
    /\ \A n \in S : byRow[n] = SumFunctionOnSet(rows[n], P)
    /\ \A p \in P : byColumn[p] = c[p] * SumFunctionOnSet(columns[p], S)

LEMMA SumOfCosts ==
    ASSUME NEW S, NEW P, NEW c, NEW u, NEW rows, NEW columns, NEW byRow, NEW byColumn,
           CostTable(S, P, c, u, rows, columns, byRow, byColumn)
    PROVE  SumFunctionOnSet(byRow, S) = SumFunctionOnSet(byColumn, P)
<1> USE DEF CostTable
<1> DEFINE Row == [n \in S |-> SumFunctionOnSet([p \in P |-> c[p] * u[n][p]], P)]
           Units(p) == [n \in S |-> u[n][p]]
           Column(T) == [p \in P |-> c[p] * SumFunctionOnSet(Units(p), T)]
           Good == {T \in SUBSET S : SumFunctionOnSet(Row, T) = SumFunctionOnSet(Column(T), P)}
<1>0. \A n \in S, p \in P : c[p] * u[n][p] \in Int
  OBVIOUS
<1>1. ASSUME NEW T \in SUBSET S, \A x \in T : T \ {x} \in Good
      PROVE  T \in Good
  <2>1. IsFiniteSet(T) /\ \A U \in SUBSET T : IsFiniteSet(U)
    BY FS_Subset
  <2>2. CASE T = {}
    <3>1. \A p \in P : SumFunctionOnSet(Units(p), T) = 0
      BY <2>2, SumEmpty
    <3>2. \A p \in P : Column(T)[p] = 0
      BY <3>1
    <3>3. PICK z : z = [p \in P |-> 0]
      OBVIOUS
    <3>4. SumFunctionOnSet(Column(T), P) = SumFunctionOnSet(z, P)
      BY <3>2, <3>3, SumSame
    <3>5. SumFunctionOnSet(z, P) = SumFunctionOnSet(z, P) + SumFunctionOnSet(z, P)
      <4>1. \A p \in P : z[p] \in Int /\ z[p] = z[p] + z[p]
        BY <3>3
      <4>2. QED
        BY <4>1, SumPlus
    <3>6. SumFunctionOnSet(z, P) \in Int
      BY <3>3, SumInt
    <3>7. SumFunctionOnSet(z, P) = 0
      <4>1. \A x \in Int : x = x + x => x = 0
        OBVIOUS
      <4>2. QED
        BY <3>5, <3>6, <4>1, Zenon
    <3>8. SumFunctionOnSet(Row, T) = 0
      BY <2>2, SumEmpty
    <3>9. QED
      BY <3>4, <3>7, <3>8
  <2>3. CASE T # {}
    <3>1. PICK n \in T : TRUE
      BY <2>3
    <3>2. PICK R : R = T \ {n}
      OBVIOUS
    <3>3. IsFiniteSet(R) /\ R \in SUBSET S
      BY <2>1, <3>2
    <3>4. SumFunctionOnSet(Row, R) = SumFunctionOnSet(Column(R), P)
      BY <1>1, <3>1, <3>2
    <3>5. PICK v : v = [p \in P |-> c[p] * u[n][p]]
      OBVIOUS
    <3>6. Row[n] = SumFunctionOnSet(v, P)
      BY <3>1, <3>5
    <3>7. \A k \in S : Row[k] \in Int
      <4>1. ASSUME NEW k \in S
            PROVE  SumFunctionOnSet([p \in P |-> c[p] * u[k][p]], P) \in Int
        <5>1. PICK w : w = [p \in P |-> c[p] * u[k][p]]
          OBVIOUS
        <5>2. \A p \in P : w[p] \in Int
          BY <5>1
        <5>3. QED
          BY <5>1, <5>2, SumInt
      <4>2. QED
        BY <4>1
    <3>8. SumFunctionOnSet(Row, T) = Row[n] + SumFunctionOnSet(Row, R)
      <4> HIDE DEF Row
      <4>1. \A k \in T : Row[k] \in Int
        BY <3>7
      <4>2. QED
        BY <2>1, <3>1, <3>2, <4>1, SumSplit
    <3>9. ASSUME NEW p \in P
          PROVE  /\ v[p] \in Int /\ Column(R)[p] \in Int
                 /\ Column(T)[p] = v[p] + Column(R)[p]
      <4>1. PICK f : f = Units(p)
        OBVIOUS
      <4>2. \A k \in S : f[k] \in Int /\ f[k] = u[k][p]
        BY <4>1
      <4>3. SumFunctionOnSet(f, T) = f[n] + SumFunctionOnSet(f, T \ {n})
        BY <2>1, <3>1, <4>2, SumSplit
      <4>4. PICK s, t : s = SumFunctionOnSet(f, R) /\ t = SumFunctionOnSet(f, T)
        OBVIOUS
      <4>5. s \in Int /\ t = u[n][p] + s
        BY <3>1, <3>2, <3>3, <4>2, <4>3, <4>4, SumInt
      <4>6. Column(T)[p] = c[p] * t /\ Column(R)[p] = c[p] * s /\ v[p] = c[p] * u[n][p]
        BY <3>5, <4>1, <4>4
      <4>7. PICK i, j \in Int : i = c[p] /\ j = u[n][p]
        OBVIOUS
      <4>8. i * (j + s) = i * j + i * s
        BY <4>5, <4>7
      <4>9. QED
        BY <4>5, <4>6, <4>7, <4>8
    <3>10. SumFunctionOnSet(Column(T), P) = SumFunctionOnSet(v, P) + SumFunctionOnSet(Column(R), P)
      <4> HIDE DEF Column
      <4>1. QED
        BY <3>9, SumPlus
    <3>11. QED
      <4> HIDE DEF Row, Column
      <4>1. QED
        BY <3>4, <3>6, <3>8, <3>10
  <2>4. QED
    BY <2>2, <2>3
<1>2. Good \in SUBSET (SUBSET S)
  OBVIOUS
<1> HIDE DEF Good
<1>3. SUBSET S = Good
  <2>1. \A T \in SUBSET S : (\A x \in T : T \ {x} \in Good) => T \in Good
    BY <1>1
  <2>2. QED
    BY <1>2, <2>1, SubsetInduction
<1>4. SumFunctionOnSet(Row, S) = SumFunctionOnSet(Column(S), P)
  BY <1>3 DEF Good
<1>5. ASSUME NEW n \in S PROVE byRow[n] = Row[n]
  <2>1. PICK k : k = [p \in P |-> c[p] * u[n][p]]
    OBVIOUS
  <2>2. \A p \in P : rows[n][p] = k[p]
    BY <2>1
  <2>3. SumFunctionOnSet(rows[n], P) = SumFunctionOnSet(k, P)
    BY <2>2, SumSame
  <2>4. QED
    BY <2>1, <2>3
<1>6. ASSUME NEW p \in P PROVE byColumn[p] = Column(S)[p]
  <2>1. PICK k : k = Units(p)
    OBVIOUS
  <2>2. \A n \in S : columns[p][n] = k[n]
    BY <2>1
  <2>3. SumFunctionOnSet(columns[p], S) = SumFunctionOnSet(k, S)
    BY <2>2, SumSame
  <2>4. QED
    BY <2>1, <2>3
<1> HIDE DEF Row, Column
<1>7. /\ SumFunctionOnSet(byRow, S) = SumFunctionOnSet(Row, S)
      /\ SumFunctionOnSet(byColumn, P) = SumFunctionOnSet(Column(S), P)
  BY <1>5, <1>6, SumSame
<1>8. QED
  BY <1>4, <1>7

LEMMA SumZero ==
    ASSUME NEW S, IsFiniteSet(S), NEW f, \A x \in S : f[x] = 0
    PROVE  SumFunctionOnSet(f, S) = 0
<1>1. PICK k : k = SumFunctionOnSet(f, S)
  OBVIOUS
<1>2. \A x \in S : f[x] \in Int /\ f[x] = f[x] + f[x]
  OBVIOUS
<1>3. k \in Int
  BY <1>1, <1>2, SumInt
<1>4. SumFunctionOnSet(f, S) = SumFunctionOnSet(f, S) + SumFunctionOnSet(f, S)
  BY <1>2, SumPlus
<1>5. k = k + k
  BY <1>1, <1>4
<1>6. k = 0
  BY <1>3, <1>5
<1>7. QED
  BY <1>1, <1>6
-----------------------------------------------------------------------------
(* The money of the shop, one request at a time *)

Taken(type, m) == SumFunctionOnSet([s \in Session |-> takings[s][type][m]], Session)

QuickBy(m) == {n \in CompletedQuick : quick[n].sale.method = m}
BoughtBy(m) == {n \in PaidFromTill : purchase[n].supply.method = m}

\* What the documents say was paid for sales, earned by services less what
\* cancelled sales gave back, and spent on purchases.
Paid(m) == SumFunctionOnSet(PaidBy(m), Registered)
Earned(m) == QuickTotal(QuickBy(m)) - IF m = "CASH" THEN SalesTotal(CancelledSales) ELSE 0
Spent(m) == PurchasesTotal(BoughtBy(m))

BooksBalance ==
    \A m \in Method :
        /\ Taken("SALE", m) = Paid(m)
        /\ Taken("INCOME", m) = Earned(m)
        /\ Taken("EXPENSE", m) = Spent(m)

\* Labels with movements that are posted and not committed.
DueLabel == {"commitSale", "commitCancel", "commitQuick", "commitRefund", "commitPurchase"}

\* They are those of the document that commits with them, in some session.
DueAt(r) ==
    LET b == serving[r].sale
        s == purchasing[r].supply
    IN  /\ pc[r] \notin DueLabel => posting[r] = NoPosting
        /\ pc[r] = "commitSale" => posting[r] = Post("SALE", order[r].pays)
        /\ pc[r] = "commitCancel" =>
             till[r] \in Session /\ posting[r] = PostOne("INCOME", "CASH", -order[r].total)
        /\ pc[r] \in QuickLabel => till[r] \in Session
        /\ pc[r] = "commitQuick" => posting[r] = PostOne("INCOME", b.method, b.total)
        /\ pc[r] = "commitRefund" => posting[r] = PostOne("INCOME", b.method, -b.total)
        /\ pc[r] = "payPurchase" => s.fromCash
        /\ pc[r] = "commitPurchase" =>
             IF s.fromCash
             THEN till[r] \in Session /\ posting[r] = PostOne("EXPENSE", s.method, s.total)
             ELSE posting[r] = NoPosting

\* A service is new until its commit, and refunded as it was read.
ServesAt(r) ==
    LET n == serving[r].number
    IN  /\ pc[r] = "commitQuick" => n \notin Served
        /\ pc[r] \in {"writeQuick", "commitRefund"} =>
             quick[n].status = "COMPLETED" /\ quick[n].sale = serving[r].sale

\* Who has sold had an open session, and nothing in the shop closes one.
SellersHaveTills ==
    \A r \in Request :
        Registered # {} \/ pc[r] = "commitSale" => OpenSessionsOf(userOf[r]) # {}

MoneyInv ==
    /\ BooksBalance
    /\ SellersHaveTills
    /\ \A n \in Served : quick[n].till \in Session
    /\ \A r \in Request : DueAt(r) /\ ServesAt(r)

LEMMA SessionFinite == IsFiniteSet(Session)
  BY SessionAssumption, FS_Interval DEF Session

LEMMA TakenIsInt ==
    ASSUME CashBookTypeOK, NEW type \in MoveType, NEW m \in Method
    PROVE  Taken(type, m) \in Int
<1>1. PICK f : f = [s \in Session |-> takings[s][type][m]]
  OBVIOUS
<1>2. \A s \in Session : f[s] \in Int
  BY <1>1 DEF CashBookTypeOK, Book
<1>3. QED
  BY <1>1, <1>2, SessionFinite, SumInt DEF Taken

\* A commit adds what was posted.
LEMMA TakenGrows ==
    ASSUME CashBookTypeOK, NEW r \in Request, CommitPostings(r), till[r] \in Session,
           NEW type \in MoveType, NEW m \in Method
    PROVE  Taken(type, m)' = Taken(type, m) + posting[r][type][m]
<1>1. PICK t, v : t = till[r] /\ v = posting[r][type][m]
  OBVIOUS
<1>2. t \in Session /\ v \in Int
  BY <1>1 DEF CashBookTypeOK, Book
<1>3. PICK f, g : /\ f = [s \in Session |-> takings[s][type][m]]
                  /\ g = [s \in Session |-> takings'[s][type][m]]
  OBVIOUS
<1>4. \A s \in Session : takings'[s] = IF s = t THEN Add(takings[s], posting[r]) ELSE takings[s]
  BY <1>1 DEF CommitPostings
<1>5. ASSUME NEW s \in Session
      PROVE  f[s] \in Int /\ g[s] = IF s = t THEN f[s] + v ELSE f[s]
  <2>1. takings[s] \in Book
    BY DEF CashBookTypeOK
  <2>2. Add(takings[s], posting[r])[type][m] = takings[s][type][m] + v
    BY <1>1 DEF Add
  <2>3. takings[s][type][m] \in Int
    BY <2>1 DEF Book
  <2>4. f[s] = takings[s][type][m] /\ g[s] = takings'[s][type][m]
    BY <1>3
  <2>5. QED
    BY <1>4, <2>2, <2>3, <2>4
<1>6. \A s \in Session \ {t} : g[s] = f[s]
  BY <1>5
<1>7. \A s \in Session : f[s] \in Int
  BY <1>5
<1>8. g[t] \in Int /\ g[t] = f[t] + v
  BY <1>2, <1>5
<1>9. SumFunctionOnSet(g, Session) = SumFunctionOnSet(f, Session) - f[t] + g[t]
  BY <1>2, <1>6, <1>7, <1>8, SessionFinite, SumChanged
<1>10. SumFunctionOnSet(f, Session) \in Int /\ f[t] \in Int /\ g[t] = f[t] + v
  BY <1>2, <1>7, <1>8, SessionFinite, SumInt
<1>11. SumFunctionOnSet(g, Session) = SumFunctionOnSet(f, Session) + v
  BY <1>2, <1>9, <1>10
<1>12. QED
  BY <1>1, <1>3, <1>11 DEF Taken

\* The books follow the documents that commit with them.
LEMMA BooksFollow ==
    ASSUME CashBookTypeOK, BooksBalance, NEW r \in Request, CommitPostings(r), till[r] \in Session,
           \A m \in Method :
             /\ Paid(m)' = Paid(m) + posting[r]["SALE"][m]
             /\ Earned(m)' = Earned(m) + posting[r]["INCOME"][m]
             /\ Spent(m)' = Spent(m) + posting[r]["EXPENSE"][m]
    PROVE  BooksBalance'
<1> SUFFICES ASSUME NEW m \in Method
             PROVE  /\ Taken("SALE", m)' = Paid(m)'
                    /\ Taken("INCOME", m)' = Earned(m)'
                    /\ Taken("EXPENSE", m)' = Spent(m)'
  BY DEF BooksBalance
<1>1. {"SALE", "INCOME", "EXPENSE"} \subseteq MoveType
  BY DEF MoveType
<1>2. /\ Taken("SALE", m)' = Taken("SALE", m) + posting[r]["SALE"][m]
      /\ Taken("INCOME", m)' = Taken("INCOME", m) + posting[r]["INCOME"][m]
      /\ Taken("EXPENSE", m)' = Taken("EXPENSE", m) + posting[r]["EXPENSE"][m]
  BY <1>1, TakenGrows
<1>3. QED
  BY <1>2 DEF BooksBalance

LEMMA BooksStay ==
    ASSUME BooksBalance, takings' = takings,
           \A m \in Method : Paid(m)' = Paid(m) /\ Earned(m)' = Earned(m) /\ Spent(m)' = Spent(m)
    PROVE  BooksBalance'
  BY DEF BooksBalance, Taken

\* A commit of nothing.
LEMMA NothingCommitted ==
    ASSUME CashBookTypeOK, NEW r \in Request, CommitPostings(r), posting[r] = NoPosting
    PROVE  takings' = takings
<1>1. ASSUME NEW s \in Session
      PROVE  Add(takings[s], NoPosting) = takings[s]
  <2>1. takings[s] \in [MoveType -> [Method -> Int]]
    BY DEF CashBookTypeOK, Book
  <2>2. \A t \in MoveType : [m \in Method |-> takings[s][t][m] + NoPosting[t][m]] = takings[s][t]
    BY <2>1 DEF NoPosting
  <2>3. QED
    BY <2>1, <2>2 DEF Add
<1>2. QED
  BY <1>1 DEF CommitPostings, CashBookTypeOK

\* What was posted, type by type.
LEMMA PostedSale ==
    ASSUME NEW pays, NEW m \in Method
    PROVE  /\ Post("SALE", pays)["SALE"][m] = pays[m]
           /\ Post("SALE", pays)["INCOME"][m] = 0
           /\ Post("SALE", pays)["EXPENSE"][m] = 0
  BY DEF Post, NoPosting, MoveType

LEMMA PostedOne ==
    ASSUME NEW type \in MoveType, NEW method \in Method, NEW v,
           NEW t \in MoveType, NEW m \in Method
    PROVE  PostOne(type, method, v)[t][m] = IF t = type /\ m = method THEN v ELSE 0
  BY DEF PostOne, NoPosting

\* A step of r that writes no document with money.
LEMMA QuietMoneyStep ==
    ASSUME OneRequest, MoneyInv, NEW r \in Request,
           UNCHANGED <<sale, quick, takings, session>>,
           \A m \in Method : Spent(m)' = Spent(m),
           pc'[r] = "commitSale" => OpenSessionsOf(userOf[r]) # {},
           DueAt(r)', ServesAt(r)'
    PROVE  MoneyInv'
<1>1. \A m \in Method : Paid(m)' = Paid(m) /\ Earned(m)' = Earned(m)
  BY DEF Paid, PaidBy, Registered, Earned, QuickTotal, QuickBy, CompletedQuick, Served, SalesTotal,
         CancelledSales, CompletedSales
<1>2. BooksBalance'
  BY <1>1, BooksStay DEF MoneyInv
<1>3. \A q \in Request : q = r
  BY DEF OneRequest
<1>4. SellersHaveTills'
  BY <1>3 DEF MoneyInv, SellersHaveTills, Registered, OpenSessionsOf
<1>5. \A n \in Served' : quick'[n].till \in Session
  BY DEF MoneyInv, Served
<1>6. QED
  BY <1>2, <1>3, <1>4, <1>5 DEF MoneyInv

\* Sums over documents are integers.
LEMMA SaleSums ==
    ASSUME TypeInv, NEW ns, ns \subseteq Registered
    PROVE  /\ IsFiniteSet(ns) /\ SalesTotal(ns) \in Int
           /\ \A n \in ns : /\ sale[n] \in SaleRow /\ sale[n].order \in Order
                            /\ sale[n].order.total \in Int
                            /\ \A m \in Method : sale[n].order.pays[m] \in Int
<1>1. IsFiniteSet(ns)
  BY RegisteredFinite, FS_Subset
<1>2. \A n \in ns : sale[n] \in SaleRow
  BY DEF TypeInv, TypeOK, Registered, NoSale
<1>3. \A o \in Order : o.total \in Int /\ \A m \in Method : o.pays[m] \in Int
  BY SalesAssumption DEF OrderType
<1>4. \A n \in ns : sale[n].order \in Order
  BY <1>2 DEF SaleRow
<1>5. PICK f : f = [n \in ns |-> sale[n].order.total]
  OBVIOUS
<1>6. \A n \in ns : f[n] \in Int
  BY <1>3, <1>4, <1>5
<1>7. SalesTotal(ns) \in Int
  BY <1>1, <1>5, <1>6, SumInt DEF SalesTotal
<1>8. QED
  BY <1>1, <1>2, <1>3, <1>4, <1>7

LEMMA QuickSums ==
    ASSUME QuickInv, NEW ns, ns \subseteq Served
    PROVE  /\ IsFiniteSet(ns) /\ QuickTotal(ns) \in Int
           /\ \A n \in ns : /\ n \in QuickNumber /\ ServedOK(quick[n])
                            /\ quick[n].sale.total \in Int /\ quick[n].sale.method \in Method
<1>1. IsFiniteSet(QuickNumber)
  BY QuickAssumption, FS_Interval DEF QuickNumber
<1>2. IsFiniteSet(ns)
  BY <1>1, FS_Subset DEF Served
<1>3. \A n \in ns : n \in QuickNumber /\ ServedOK(quick[n])
  BY DEF QuickInv, Served, NoQuick
<1>4. \A q \in QuickSale : q.total \in Int /\ q.method \in Method
  BY QuickAssumption
<1>5. \A n \in ns : quick[n].sale.total \in Int /\ quick[n].sale.method \in Method
  BY <1>3, <1>4 DEF ServedOK
<1>6. PICK f : f = [n \in ns |-> quick[n].sale.total]
  OBVIOUS
<1>7. QuickTotal(ns) \in Int
  BY <1>2, <1>5, <1>6, SumInt DEF QuickTotal
<1>8. QED
  BY <1>2, <1>3, <1>5, <1>7

LEMMA PurchaseSums ==
    ASSUME BuyInv, NEW ns, ns \subseteq Ordered
    PROVE  /\ IsFiniteSet(ns) /\ PurchasesTotal(ns) \in Int
           /\ \A n \in ns : /\ n \in PurchaseNumber /\ PurchaseOK(purchase[n])
                            /\ purchase[n].supply.total \in Int
                            /\ purchase[n].supply.method \in Method
                            /\ purchase[n].supply.fromCash \in BOOLEAN
<1>1. IsFiniteSet(ns)
  BY OrderedFinite, FS_Subset
<1>2. \A n \in ns : n \in PurchaseNumber /\ PurchaseOK(purchase[n])
  BY DEF BuyInv, Ordered, NoPurchase
<1>3. \A s \in Supply : s.total \in Int /\ s.method \in Method /\ s.fromCash \in BOOLEAN
  BY SupplyAssumption DEF SupplyType
<1>4. \A n \in ns : /\ purchase[n].supply.total \in Int /\ purchase[n].supply.method \in Method
                    /\ purchase[n].supply.fromCash \in BOOLEAN
  BY <1>2, <1>3 DEF PurchaseOK
<1>5. PICK f : f = [n \in ns |-> purchase[n].supply.total]
  OBVIOUS
<1>6. PurchasesTotal(ns) \in Int
  BY <1>1, <1>4, <1>5, SumInt DEF PurchasesTotal
<1>7. QED
  BY <1>1, <1>2, <1>4, <1>6

LEMMA EarnedIsInt ==
    ASSUME TypeInv, QuickInv, NEW m \in Method
    PROVE  Earned(m) \in Int
<1>1. SalesTotal(CancelledSales) \in Int
  BY SaleSums DEF CancelledSales
<1>2. QuickTotal(QuickBy(m)) \in Int
  BY QuickSums DEF QuickBy, CompletedQuick
<1>3. QED
  BY <1>1, <1>2 DEF Earned

LEMMA PaidIsInt ==
    ASSUME TypeInv, NEW m \in Method
    PROVE  Paid(m) \in Int
<1>1. PICK f : f = PaidBy(m)
  OBVIOUS
<1>2. IsFiniteSet(Registered) /\ \A n \in Registered : f[n] \in Int
  BY <1>1, SaleSums DEF PaidBy
<1>3. QED
  BY <1>1, <1>2, SumInt DEF Paid

LEMMA SpentIsInt ==
    ASSUME BuyInv, NEW m \in Method
    PROVE  Spent(m) \in Int
  BY PurchaseSums DEF Spent, BoughtBy, PaidFromTill

\* One sale is registered.
LEMMA SaleRegisteredMoney ==
    ASSUME TypeInv, NEW n \in SaleNumber, n \notin Registered, NEW o \in Order,
           sale'[n].order = o, sale'[n].status = "COMPLETED",
           \A k \in SaleNumber \ {n} : sale'[k] = sale[k]
    PROVE  /\ \A m \in Method : Paid(m)' = Paid(m) + o.pays[m]
           /\ SalesTotal(CancelledSales)' = SalesTotal(CancelledSales)
<1>1. Registered' = Registered \cup {n} /\ \A k \in Registered : sale'[k] = sale[k]
  BY DEF Registered
<1>2. CancelledSales' = CancelledSales
  BY <1>1 DEF CancelledSales, CompletedSales
<1>3. \A k \in CancelledSales : sale'[k] = sale[k]
  BY <1>1 DEF CancelledSales
<1>4. SalesTotal(CancelledSales)' = SalesTotal(CancelledSales)
  BY <1>2, <1>3 DEF SalesTotal
<1>5. ASSUME NEW m \in Method
      PROVE  Paid(m)' = Paid(m) + o.pays[m]
  <2>1. PICK S, T, f, g : S = Registered /\ T = Registered' /\ f = PaidBy(m) /\ g = PaidBy(m)'
    OBVIOUS
  <2>2. PICK v : v = o.pays[m]
    OBVIOUS
  <2>3. v \in Int
    BY <2>2, SalesAssumption DEF OrderType
  <2>4. IsFiniteSet(S) /\ \A k \in S : f[k] \in Int
    BY <2>1, SaleSums DEF PaidBy
  <2>5. S \ {n} = T \ {n} /\ n \notin S /\ n \in T
    BY <1>1, <2>1
  <2>6. \A k \in S \ {n} : f[k] = g[k]
    BY <1>1, <2>1 DEF PaidBy
  <2>7. g[n] = v
    BY <2>1, <2>2, <2>5 DEF PaidBy
  <2>8. SumFunctionOnSet(g, T) = SumFunctionOnSet(f, S) - 0 + v
    BY <2>3, <2>4, <2>5, <2>6, <2>7, SumMoved
  <2>9. Paid(m) \in Int
    BY PaidIsInt
  <2>10. Paid(m) = SumFunctionOnSet(f, S) /\ Paid(m)' = SumFunctionOnSet(g, T)
    BY <2>1 DEF Paid
  <2>11. QED
    BY <2>2, <2>3, <2>8, <2>9, <2>10
<1>6. QED
  BY <1>4, <1>5

\* One sale is cancelled.
LEMMA SaleCancelledMoney ==
    ASSUME TypeInv, NEW n \in SaleNumber, sale[n].status = "COMPLETED",
           sale'[n].order = sale[n].order, sale'[n].status = "CANCELLED",
           \A k \in SaleNumber \ {n} : sale'[k] = sale[k]
    PROVE  /\ \A m \in Method : Paid(m)' = Paid(m)
           /\ SalesTotal(CancelledSales)' = SalesTotal(CancelledSales) + sale[n].order.total
<1>1. /\ Registered' = Registered /\ n \in Registered
      /\ \A k \in Registered : sale'[k].order = sale[k].order
  BY DEF Registered
<1>2. CancelledSales' = CancelledSales \cup {n} /\ n \notin CancelledSales
  BY <1>1 DEF CancelledSales, CompletedSales, Registered
<1>3. ASSUME NEW m \in Method
      PROVE  Paid(m)' = Paid(m)
  BY <1>1 DEF Paid, PaidBy
<1>4. PICK S, T, f, g : /\ S = CancelledSales /\ T = CancelledSales'
                        /\ f = [k \in CancelledSales |-> sale[k].order.total]
                        /\ g = [k \in CancelledSales' |-> sale'[k].order.total]
  OBVIOUS
<1>5. PICK v : v = sale[n].order.total
  OBVIOUS
<1>6. v \in Int
  BY <1>1, <1>5, SaleSums
<1>7. S \subseteq Registered
  BY <1>4 DEF CancelledSales
<1>8. IsFiniteSet(S) /\ \A k \in S : f[k] \in Int
  BY <1>4, <1>7, SaleSums
<1>9. S \ {n} = T \ {n} /\ n \notin S /\ n \in T
  BY <1>2, <1>4
<1>10. \A k \in S \ {n} : f[k] = g[k]
  BY <1>1, <1>4, <1>7, <1>9
<1>11. g[n] = v
  BY <1>4, <1>5, <1>9
<1>12. SumFunctionOnSet(g, T) = SumFunctionOnSet(f, S) - 0 + v
  BY <1>6, <1>8, <1>9, <1>10, <1>11, SumMoved
<1>13. SumFunctionOnSet(f, S) \in Int
  BY <1>8, SumInt
<1>14. SalesTotal(CancelledSales) = SumFunctionOnSet(f, S)
       /\ SalesTotal(CancelledSales)' = SumFunctionOnSet(g, T)
  BY <1>4 DEF SalesTotal
<1>15. SalesTotal(CancelledSales)' = SalesTotal(CancelledSales) + v
  BY <1>6, <1>12, <1>13, <1>14
<1>16. QED
  BY <1>3, <1>5, <1>15

LEMMA DueOfSale ==
    ASSUME NEW r \in Request, pc'[r] \in SaleLabel \cup {"idle"},
           pc'[r] \notin {"commitSale", "commitCancel"} => posting'[r] = NoPosting,
           pc'[r] = "commitSale" => posting'[r] = Post("SALE", order'[r].pays),
           pc'[r] = "commitCancel" =>
             till'[r] \in Session /\ posting'[r] = PostOne("INCOME", "CASH", -order'[r].total)
    PROVE  DueAt(r)' /\ ServesAt(r)'
<1>1. /\ pc'[r] \notin QuickLabel
      /\ pc'[r] \notin {"commitQuick", "commitRefund", "writeQuick", "payPurchase", "commitPurchase"}
  BY DEF SaleLabel, CreateLabel, CancelLabel, QuickLabel
<1>2. QED
  BY <1>1 DEF DueAt, ServesAt, DueLabel

LEMMA SalesKeepMoney ==
    ASSUME OneRequest, ShopInv, OnceInv, KardexInv, MoneyInv, Next,
           UNCHANGED <<quick, purchase>>
    PROVE  MoneyInv'
<1> USE DEF Step
<1>1. PICK r \in Request :
        \/ \E o \in Order : StartSale(r, o)
        \/ CreateStep(r)
        \/ RollbackSale(r)
        \/ \E n \in SaleNumber : StartCancel(r, n)
        \/ CancelStep(r)
  BY DEF Next, SellNext, CancelNext
<1>2. /\ TypeInv /\ CodesInv /\ QuickInv /\ BuyInv
      /\ DOMAIN pc = Request /\ DOMAIN order = Request /\ DOMAIN posting = Request
      /\ DOMAIN till = Request /\ LocalAt(r)
      /\ DueAt(r) /\ ServesAt(r) /\ ReturnsAt(r) /\ CancelAt(r)
  BY DEF ShopInv, TypeInv, TypeOK, LocalOK, CashBookTypeOK, MoneyInv, KardexInv, OnceInv
<1>3. CashBookTypeOK /\ BooksBalance
  BY <1>2 DEF TypeInv, TypeOK, MoneyInv
<1>4. \A m \in Method : Spent(m)' = Spent(m)
  BY DEF Spent, PurchasesTotal, BoughtBy, PaidFromTill, Ordered
<1>5. \A q \in Request : q = r
  BY DEF OneRequest
<1>6. ASSUME UNCHANGED <<sale, takings, session>>, pc'[r] \in SaleLabel \cup {"idle"},
             pc'[r] # "commitSale", pc'[r] # "commitCancel", posting'[r] = NoPosting
      PROVE  MoneyInv'
  <2>1. DueAt(r)' /\ ServesAt(r)'
    BY <1>6, DueOfSale
  <2>2. QED
    BY <1>4, <1>6, <2>1, QuietMoneyStep
<1>7. ASSUME pc[r] \notin DueLabel, posting'[r] = posting[r]
      PROVE  posting'[r] = NoPosting
  BY <1>2, <1>7 DEF DueAt
<1>8. CASE \E o \in Order : StartSale(r, o)
  <2>1. /\ UNCHANGED <<sale, takings, session, posting>> /\ pc[r] = "idle" /\ pc'[r] = "validate"
    BY <1>2, <1>8 DEF StartSale, cashVars
  <2>2. QED
    BY <1>6, <1>7, <2>1 DEF SaleLabel, CreateLabel, DueLabel
<1>9. CASE \E n \in SaleNumber : StartCancel(r, n)
  <2>1. /\ UNCHANGED <<sale, takings, session, posting>> /\ pc[r] = "idle" /\ pc'[r] = "readStock"
    BY <1>2, <1>9 DEF StartCancel, cashVars
  <2>2. QED
    BY <1>6, <1>7, <2>1 DEF SaleLabel, CancelLabel, DueLabel
<1>10. CASE ValidateItem(r) \/ CountSales(r) \/ InsertSale(r) \/ DecrementStock(r)
  <2>1. /\ UNCHANGED <<sale, takings, session, posting>>
        /\ pc[r] \in {"validate", "count", "insert", "decrement"}
        /\ pc'[r] \in {"validate", "count", "insert", "decrement", "collect"}
    BY <1>2, <1>10 DEF ValidateItem, CountSales, InsertSale, DecrementStock, NextItem, cashVars, saleVars
  <2>2. QED
    BY <1>6, <1>7, <2>1 DEF SaleLabel, CreateLabel, DueLabel
<1>11. CASE ReadStock(r) \/ Restock(r) \/ MarkCancelled(r)
  <2>1. /\ UNCHANGED <<sale, takings, session, posting>>
        /\ pc[r] \in {"readStock", "restock", "mark"}
        /\ pc'[r] \in {"readStock", "restock", "mark", "refund"}
    BY <1>2, <1>11 DEF ReadStock, Restock, MarkCancelled, NextItem, cashVars, saleVars
  <2>2. QED
    BY <1>6, <1>7, <2>1 DEF SaleLabel, CancelLabel, DueLabel
<1>12. CASE RollbackSale(r)
  <2>1. /\ UNCHANGED <<sale, takings, session>> /\ pc'[r] = "idle" /\ posting'[r] = NoPosting
    BY <1>2, <1>12 DEF RollbackSale, DropPostings
  <2>2. QED
    BY <1>6, <2>1
<1>13. CASE CollectPayment(r)
  <2>1. /\ UNCHANGED <<sale, takings, session, order>> /\ pc'[r] = "commitSale"
        /\ posting'[r] = Post("SALE", order[r].pays) /\ OpenSessionsOf(userOf[r]) # {}
    BY <1>2, <1>13 DEF CollectPayment, saleVars
  <2>2. DueAt(r)' /\ ServesAt(r)'
    BY <2>1, DueOfSale DEF SaleLabel, CreateLabel
  <2>3. QED
    BY <1>4, <2>1, <2>2, QuietMoneyStep
<1>14. CASE RefundSale(r)
  <2>1. /\ UNCHANGED <<sale, takings, session, order>> /\ pc[r] = "refund" /\ pc'[r] = "commitCancel"
    BY <1>2, <1>14 DEF RefundSale, saleVars
  <2>2. OpenSessionsOf(userOf[r]) # {}
    <3>1. number[r] \in Registered
      BY <1>2, <2>1 DEF LocalAt, CancelLabel
    <3>2. QED
      BY <3>1 DEF MoneyInv, SellersHaveTills
  <2>3. till'[r] \in Session /\ posting'[r] = PostOne("INCOME", "CASH", -order[r].total)
    BY <1>2, <1>14, <2>2 DEF RefundSale, OpenSessionsOf
  <2>4. DueAt(r)' /\ ServesAt(r)'
    BY <2>1, <2>3, DueOfSale DEF SaleLabel, CancelLabel
  <2>5. QED
    BY <1>4, <2>1, <2>4, QuietMoneyStep
<1>15. ASSUME BooksBalance', quick' = quick, session' = session, pc'[r] = "idle", posting'[r] = NoPosting,
              OpenSessionsOf(userOf[r]) # {}
       PROVE  MoneyInv'
  <2>1. DueAt(r)' /\ ServesAt(r)'
    BY <1>15, DueOfSale
  <2>2. SellersHaveTills'
    BY <1>5, <1>15 DEF SellersHaveTills, OpenSessionsOf
  <2>3. \A n \in Served' : quick'[n].till \in Session
    BY DEF MoneyInv, Served
  <2>4. QED
    BY <1>5, <1>15, <2>1, <2>2, <2>3 DEF MoneyInv
<1>16. CASE CommitSale(r)
  <2>1. /\ pc[r] = "commitSale" /\ pc'[r] = "idle" /\ posting'[r] = NoPosting /\ session' = session
        /\ CommitPostings(r)
    BY <1>2, <1>16 DEF CommitSale, CommitPostings
  <2>2. PICK n, o : n = number[r] /\ o = order[r]
    OBVIOUS
  <2>3. /\ o \in Order /\ n \in SaleNumber /\ till[r] \in Session
        /\ posting[r] = Post("SALE", o.pays)
    BY <1>2, <2>1, <2>2 DEF LocalAt, SaleLabel, CreateLabel, DueAt
  <2>4. n \notin Registered
    <3>1. n = Cardinality(Registered) + 1 /\ Registered = 1..Cardinality(Registered)
      BY <1>2, <2>1, <2>2 DEF CodesInv, NumbersInRange, CodesAreConsecutive, HasInserted
    <3>2. QED
      BY <3>1, <1>2, RegisteredFinite
  <2>5. DOMAIN sale = SaleNumber
    BY <1>2 DEF TypeInv, TypeOK
  <2>6. /\ \A k \in SaleNumber \ {n} : sale'[k] = sale[k]
        /\ sale'[n].order = o /\ sale'[n].status = "COMPLETED"
    BY <1>16, <2>2, <2>3, <2>5 DEF CommitSale
  <2>7. /\ \A m \in Method : Paid(m)' = Paid(m) + o.pays[m]
        /\ SalesTotal(CancelledSales)' = SalesTotal(CancelledSales)
    BY <1>2, <2>3, <2>4, <2>6, SaleRegisteredMoney
  <2>8. \A m \in Method : QuickTotal(QuickBy(m))' = QuickTotal(QuickBy(m))
    BY DEF QuickTotal, QuickBy, CompletedQuick, Served
  <2>9. ASSUME NEW m \in Method
        PROVE  /\ Paid(m)' = Paid(m) + posting[r]["SALE"][m]
               /\ Earned(m)' = Earned(m) + posting[r]["INCOME"][m]
               /\ Spent(m)' = Spent(m) + posting[r]["EXPENSE"][m]
    <3>1. /\ posting[r]["SALE"][m] = o.pays[m] /\ posting[r]["INCOME"][m] = 0
          /\ posting[r]["EXPENSE"][m] = 0
      BY <2>3, PostedSale
    <3>2. Earned(m) \in Int /\ Spent(m) \in Int
      BY <1>2, EarnedIsInt, SpentIsInt
    <3>3. Earned(m)' = Earned(m)
      BY <2>7, <2>8 DEF Earned
    <3>4. QED
      BY <1>4, <2>7, <3>1, <3>2, <3>3
  <2>10. BooksBalance'
    BY <1>3, <2>1, <2>3, <2>9, BooksFollow
  <2>11. OpenSessionsOf(userOf[r]) # {}
    BY <2>1 DEF MoneyInv, SellersHaveTills
  <2>12. QED
    BY <1>15, <2>1, <2>10, <2>11
<1>17. CASE CommitCancel(r)
  <2>1. /\ pc[r] = "commitCancel" /\ pc'[r] = "idle" /\ posting'[r] = NoPosting /\ session' = session
        /\ CommitPostings(r)
    BY <1>2, <1>17 DEF CommitCancel, CommitPostings
  <2>2. PICK n, v : n = number[r] /\ v = order[r].total
    OBVIOUS
  <2>3. /\ n \in SaleNumber /\ sale[n].status = "COMPLETED" /\ sale[n].order.total = v
        /\ till[r] \in Session /\ posting[r] = PostOne("INCOME", "CASH", -v)
    BY <1>2, <2>1, <2>2 DEF CancelAt, ReturnsAt, CancelLabel, DueAt
  <2>4. n \in Registered /\ sale[n] \in SaleRow
    BY <1>2, <2>3, SaleSums DEF Registered
  <2>5. sale' = [sale EXCEPT ![n].status = "CANCELLED", ![n].cancellations = @ + 1]
        /\ DOMAIN sale = SaleNumber
    BY <1>2, <1>17, <2>2 DEF CommitCancel, TypeInv, TypeOK
  <2>6. /\ \A k \in SaleNumber \ {n} : sale'[k] = sale[k]
        /\ sale'[n].order = sale[n].order /\ sale'[n].status = "CANCELLED"
    BY <2>3, <2>4, <2>5 DEF SaleRow
  <2>7. /\ \A m \in Method : Paid(m)' = Paid(m)
        /\ SalesTotal(CancelledSales)' = SalesTotal(CancelledSales) + v
    BY <1>2, <2>3, <2>6, SaleCancelledMoney
  <2>8. \A m \in Method : QuickTotal(QuickBy(m))' = QuickTotal(QuickBy(m))
    BY DEF QuickTotal, QuickBy, CompletedQuick, Served
  <2>9. ASSUME NEW m \in Method
        PROVE  /\ Paid(m)' = Paid(m) + posting[r]["SALE"][m]
               /\ Earned(m)' = Earned(m) + posting[r]["INCOME"][m]
               /\ Spent(m)' = Spent(m) + posting[r]["EXPENSE"][m]
    <3>0. {"SALE", "INCOME", "EXPENSE"} \subseteq MoveType /\ "CASH" \in Method
      BY DEF MoveType, Method
    <3>1. /\ posting[r]["SALE"][m] = 0 /\ posting[r]["EXPENSE"][m] = 0
          /\ posting[r]["INCOME"][m] = IF m = "CASH" THEN -v ELSE 0
      BY <2>3, <3>0, PostedOne
    <3>2. Paid(m) \in Int /\ Spent(m) \in Int
      BY <1>2, PaidIsInt, SpentIsInt
    <3>3. PICK q, c : q = QuickTotal(QuickBy(m)) /\ c = SalesTotal(CancelledSales)
      OBVIOUS
    <3>4. q \in Int /\ c \in Int /\ v \in Int
      BY <1>2, <2>3, <2>4, <3>3, QuickSums, SaleSums DEF CancelledSales, QuickBy, CompletedQuick
    <3>5. /\ Earned(m) = q - IF m = "CASH" THEN c ELSE 0
          /\ Earned(m)' = q - IF m = "CASH" THEN c + v ELSE 0
      BY <2>7, <2>8, <3>3 DEF Earned
    <3>6. Earned(m)' = Earned(m) + posting[r]["INCOME"][m]
      BY <3>1, <3>4, <3>5
    <3>7. QED
      BY <1>4, <2>7, <3>1, <3>2, <3>6
  <2>10. BooksBalance'
    BY <1>3, <2>1, <2>3, <2>9, BooksFollow
  <2>11. OpenSessionsOf(userOf[r]) # {}
    BY <2>4 DEF MoneyInv, SellersHaveTills
  <2>12. QED
    BY <1>15, <2>1, <2>10, <2>11
<1>18. QED
  BY <1>1, <1>8, <1>9, <1>10, <1>11, <1>12, <1>13, <1>14, <1>16, <1>17 DEF CreateStep, CancelStep

\* A step of a quick service moves the money of no sale and no purchase.
LEMMA QuickLeavesMoney ==
    ASSUME UNCHANGED <<sale, purchase>>
    PROVE  /\ \A m \in Method : Paid(m)' = Paid(m) /\ Spent(m)' = Spent(m)
           /\ SalesTotal(CancelledSales)' = SalesTotal(CancelledSales)
  BY DEF Paid, PaidBy, Registered, Spent, PurchasesTotal, BoughtBy, PaidFromTill, Ordered, SalesTotal,
         CancelledSales, CompletedSales

\* The row n of a service is written: a is what it counted before, b what it
\* counts then.
LEMMA QuickMoney ==
    ASSUME QuickInv, NEW n \in QuickNumber, NEW m \in Method, NEW a \in Int, NEW b \in Int,
           \A k \in QuickNumber \ {n} : quick'[k] = quick[k],
           n \in QuickBy(m) => quick[n].sale.total = a, n \notin QuickBy(m) => a = 0,
           n \in QuickBy(m)' => quick'[n].sale.total = b, n \notin QuickBy(m)' => b = 0
    PROVE  QuickTotal(QuickBy(m))' = QuickTotal(QuickBy(m)) - a + b
<1>1. PICK S, T, f, g : /\ S = QuickBy(m) /\ T = QuickBy(m)'
                        /\ f = [k \in QuickBy(m) |-> quick[k].sale.total]
                        /\ g = [k \in QuickBy(m)' |-> quick'[k].sale.total]
  OBVIOUS
<1>2. S \subseteq Served
  BY <1>1 DEF QuickBy, CompletedQuick
<1>3. IsFiniteSet(S) /\ \A k \in S : f[k] \in Int
  BY <1>1, <1>2, QuickSums
<1>4. S \ {n} = T \ {n}
  <2>1. \A k \in QuickNumber \ {n} : k \in QuickBy(m) <=> k \in QuickBy(m)'
    BY DEF QuickBy, CompletedQuick, Served
  <2>2. S \subseteq QuickNumber /\ T \subseteq QuickNumber
    BY <1>1 DEF QuickBy, CompletedQuick, Served
  <2>3. QED
    BY <1>1, <2>1, <2>2
<1>5. \A k \in S \ {n} : f[k] = g[k]
  <2>1. ASSUME NEW k \in S, k # n PROVE f[k] = g[k]
    <3>1. quick'[k] = quick[k]
      BY <1>2, <2>1 DEF Served
    <3>2. k \in T
      BY <1>4, <2>1
    <3>3. QED
      BY <1>1, <2>1, <3>1, <3>2
  <2>2. QED
    BY <2>1
<1>6. /\ n \in S => f[n] = a
      /\ n \notin S => a = 0
      /\ n \in T => g[n] = b
      /\ n \notin T => b = 0
  BY <1>1
<1>7. SumFunctionOnSet(g, T) = SumFunctionOnSet(f, S) - a + b
  BY <1>3, <1>4, <1>5, <1>6, SumMoved
<1>8. QED
  BY <1>1, <1>7 DEF QuickTotal

LEMMA DueOfQuick ==
    ASSUME NEW r \in Request, pc'[r] \in QuickLabel \cup {"idle"},
           pc'[r] \notin {"commitQuick", "commitRefund"} => posting'[r] = NoPosting,
           pc'[r] \in QuickLabel => till'[r] \in Session,
           pc'[r] = "commitQuick" =>
             posting'[r] = PostOne("INCOME", serving'[r].sale.method, serving'[r].sale.total),
           pc'[r] = "commitRefund" =>
             posting'[r] = PostOne("INCOME", serving'[r].sale.method, -serving'[r].sale.total)
    PROVE  DueAt(r)'
<1>1. pc'[r] \notin {"commitSale", "commitCancel", "payPurchase", "commitPurchase"}
  BY DEF QuickLabel
<1>2. QED
  BY <1>1 DEF DueAt, DueLabel

LEMMA QuickKeepsBooks ==
    ASSUME OneRequest, ShopInv, MoneyInv, QuickNext, UNCHANGED <<sale, purchase>>
    PROVE  MoneyInv'
<1> USE DEF Step
<1>1. PICK r \in Request :
        \/ \E q \in QuickSale : StartQuick(r, q)
        \/ \E n \in Served : StartCancelQuick(r, n)
        \/ \E s \in Service : DeactivateService(r, s)
        \/ QuickStep(r)
        \/ RollbackQuick(r)
  BY DEF QuickNext
<1>2. /\ TypeInv /\ QuickInv /\ BuyInv /\ CashBookTypeOK /\ BooksBalance
      /\ DOMAIN pc = Request /\ DOMAIN posting = Request
      /\ DOMAIN till = Request /\ DOMAIN serving = Request /\ DOMAIN quick = QuickNumber
      /\ ServingAt(r) /\ DueAt(r) /\ ServesAt(r)
      /\ \A n \in Served : quick[n].till \in Session
  BY DEF ShopInv, TypeInv, TypeOK, CashBookTypeOK, QuickInv, MoneyInv
<1>3. /\ \A m \in Method : Paid(m)' = Paid(m) /\ Spent(m)' = Spent(m)
      /\ SalesTotal(CancelledSales)' = SalesTotal(CancelledSales)
  BY QuickLeavesMoney
<1>4. \A q \in Request : q = r
  BY DEF OneRequest
<1>5. ASSUME pc[r] \notin DueLabel, posting'[r] = posting[r]
      PROVE  posting'[r] = NoPosting
  BY <1>2, <1>5 DEF DueAt
<1>6. ASSUME UNCHANGED <<quick, takings, session>>, pc'[r] \in QuickLabel \cup {"idle"},
             DueAt(r)', ServesAt(r)'
      PROVE  MoneyInv'
  <2>1. pc'[r] # "commitSale"
    BY <1>6 DEF QuickLabel
  <2>2. QED
    BY <1>3, <1>6, <2>1, QuietMoneyStep
<1>7. CASE \E q \in QuickSale : StartQuick(r, q)
  <2>1. /\ UNCHANGED <<quick, takings, session, posting>>
        /\ pc[r] = "idle" /\ pc'[r] = "readServices" /\ till'[r] \in Session
    BY <1>2, <1>7 DEF StartQuick, OpenSessionsOf
  <2>2. DueAt(r)' /\ ServesAt(r)'
    BY <1>5, <2>1, DueOfQuick DEF QuickLabel, DueLabel, ServesAt
  <2>3. QED
    BY <1>6, <2>1, <2>2 DEF QuickLabel
<1>8. CASE \E n \in Served : StartCancelQuick(r, n)
  <2>1. PICK n \in Served : StartCancelQuick(r, n)
    BY <1>8
  <2>2. PICK b : b = [number |-> n, sale |-> quick[n].sale]
    OBVIOUS
  <2>3. b.number = n /\ b.sale = quick[n].sale
    BY <2>2
  <2>4. /\ UNCHANGED <<quick, takings, session, posting>> /\ quick[n].status = "COMPLETED"
        /\ pc[r] = "idle" /\ pc'[r] = "writeQuick" /\ till'[r] \in Session /\ serving'[r] = b
    BY <1>2, <2>1, <2>2 DEF StartCancelQuick
  <2>5. DueAt(r)' /\ ServesAt(r)'
    BY <1>5, <2>3, <2>4, DueOfQuick DEF QuickLabel, DueLabel, ServesAt
  <2>6. QED
    BY <1>6, <2>4, <2>5 DEF QuickLabel
<1>9. CASE \E s \in Service : DeactivateService(r, s)
  <2>1. UNCHANGED <<pc, session, takings, till, posting, quick, serving>>
    BY <1>9 DEF DeactivateService, cashVars
  <2>2. DueAt(r)' /\ ServesAt(r)'
    <3>1. UNCHANGED <<order, purchasing>> \/ pc[r] = "idle"
      BY <1>9 DEF DeactivateService, Idle
    <3>2. pc[r] = "idle"
      BY <1>9 DEF DeactivateService, Idle
    <3>3. posting'[r] = NoPosting /\ pc'[r] = "idle"
      BY <1>5, <2>1, <3>2 DEF DueLabel
    <3>4. QED
      BY <3>3, DueOfQuick DEF ServesAt, QuickLabel
  <2>3. pc'[r] = "idle"
    BY <1>9, <2>1 DEF DeactivateService, Idle
  <2>4. QED
    BY <1>6, <2>1, <2>2, <2>3
<1>10. CASE ReadServices(r)
  <2>1. /\ UNCHANGED <<quick, takings, session, posting, till>>
        /\ pc[r] = "readServices" /\ pc'[r] = "insertQuick"
    BY <1>2, <1>10 DEF ReadServices, cashVars
  <2>2. till[r] \in Session
    BY <1>2, <2>1 DEF DueAt, QuickLabel
  <2>3. DueAt(r)' /\ ServesAt(r)'
    BY <1>5, <2>1, <2>2, DueOfQuick DEF QuickLabel, DueLabel, ServesAt
  <2>4. QED
    BY <1>6, <2>1, <2>3 DEF QuickLabel
<1>11. CASE InsertQuick(r)
  <2>1. PICK b : b = serving[r]
    OBVIOUS
  <2>2. /\ UNCHANGED <<quick, takings, session, till, serving>>
        /\ pc[r] = "insertQuick" /\ pc'[r] = "commitQuick" /\ b.number \notin Served
        /\ posting'[r] = PostOne("INCOME", b.sale.method, b.sale.total)
    BY <1>2, <1>11, <2>1 DEF InsertQuick, quickVars
  <2>3. till[r] \in Session
    BY <1>2, <2>2 DEF DueAt, QuickLabel
  <2>4. Served' = Served
    BY <2>2 DEF Served
  <2>5. DueAt(r)'
    BY <2>1, <2>2, <2>3, DueOfQuick DEF QuickLabel
  <2>6. ServesAt(r)'
    BY <2>1, <2>2, <2>4 DEF ServesAt
  <2>7. QED
    BY <1>6, <2>2, <2>5, <2>6 DEF QuickLabel
<1>12. CASE WriteQuick(r)
  <2>1. PICK b : b = serving[r]
    OBVIOUS
  <2>2. /\ UNCHANGED <<quick, takings, session, till, serving>>
        /\ pc[r] = "writeQuick" /\ pc'[r] = "commitRefund"
        /\ posting'[r] = PostOne("INCOME", b.sale.method, -b.sale.total)
    BY <1>2, <1>12, <2>1 DEF WriteQuick, quickVars
  <2>3. till[r] \in Session
    BY <1>2, <2>2 DEF DueAt, QuickLabel
  <2>4. DueAt(r)'
    BY <2>1, <2>2, <2>3, DueOfQuick DEF QuickLabel
  <2>5. ServesAt(r)'
    BY <1>2, <2>2 DEF ServesAt
  <2>6. QED
    BY <1>6, <2>2, <2>4, <2>5 DEF QuickLabel
<1>13. CASE RollbackQuick(r)
  <2>1. /\ UNCHANGED <<quick, takings, session>> /\ pc'[r] = "idle" /\ posting'[r] = NoPosting
    BY <1>2, <1>13 DEF RollbackQuick, DropPostings
  <2>2. DueAt(r)' /\ ServesAt(r)'
    BY <2>1, DueOfQuick DEF QuickLabel, ServesAt
  <2>3. QED
    BY <1>6, <2>1, <2>2
<1>14. ASSUME BooksBalance', session' = session, pc'[r] = "idle", posting'[r] = NoPosting,
              \A n \in Served' : quick'[n].till \in Session
       PROVE  MoneyInv'
  <2>1. DueAt(r)' /\ ServesAt(r)'
    BY <1>14, DueOfQuick DEF QuickLabel, ServesAt
  <2>2. SellersHaveTills'
    BY <1>4, <1>14 DEF MoneyInv, SellersHaveTills, Registered, OpenSessionsOf
  <2>3. QED
    BY <1>4, <1>14, <2>1, <2>2 DEF MoneyInv
<1>15. ASSUME CommitPostings(r), till[r] \in Session, NEW method \in Method, NEW v \in Int,
              posting[r] = PostOne("INCOME", method, v),
              \A m \in Method : QuickTotal(QuickBy(m))' =
                QuickTotal(QuickBy(m)) + IF m = method THEN v ELSE 0
       PROVE  BooksBalance'
  <2>1. ASSUME NEW m \in Method
        PROVE  /\ Paid(m)' = Paid(m) + posting[r]["SALE"][m]
               /\ Earned(m)' = Earned(m) + posting[r]["INCOME"][m]
               /\ Spent(m)' = Spent(m) + posting[r]["EXPENSE"][m]
    <3>0. {"SALE", "INCOME", "EXPENSE"} \subseteq MoveType
      BY DEF MoveType
    <3>1. /\ posting[r]["SALE"][m] = 0 /\ posting[r]["EXPENSE"][m] = 0
          /\ posting[r]["INCOME"][m] = IF m = method THEN v ELSE 0
      BY <1>15, <3>0, PostedOne
    <3>2. Paid(m) \in Int /\ Spent(m) \in Int
      BY <1>2, PaidIsInt, SpentIsInt
    <3>3. PICK q, c, d : /\ q = QuickTotal(QuickBy(m)) /\ c = SalesTotal(CancelledSales)
                         /\ d = IF m = method THEN v ELSE 0
      OBVIOUS
    <3>4. q \in Int /\ c \in Int /\ d \in Int
      BY <1>2, <1>15, <3>3, QuickSums, SaleSums DEF CancelledSales, QuickBy, CompletedQuick
    <3>5. /\ Earned(m) = q - IF m = "CASH" THEN c ELSE 0
          /\ Earned(m)' = (q + d) - IF m = "CASH" THEN c ELSE 0
      BY <1>3, <1>15, <3>3 DEF Earned
    <3>6. Earned(m)' = Earned(m) + d
      BY <3>4, <3>5
    <3>7. QED
      BY <1>3, <3>1, <3>2, <3>3, <3>6
  <2>2. QED
    BY <1>2, <1>15, <2>1, BooksFollow
<1>16. CASE CommitQuick(r)
  <2>1. PICK b, n, t : b = serving[r] /\ n = b.number /\ t = till[r]
    OBVIOUS
  <2>2. PICK w : w = [status |-> "COMPLETED", sale |-> b.sale, till |-> t, refunds |-> 0]
    OBVIOUS
  <2>3. w.status = "COMPLETED" /\ w.sale = b.sale /\ w.till = t
    BY <2>2
  <2>4. /\ pc[r] = "commitQuick" /\ pc'[r] = "idle" /\ posting'[r] = NoPosting /\ session' = session
        /\ CommitPostings(r) /\ quick' = [quick EXCEPT ![n] = w]
    BY <1>2, <1>16, <2>1, <2>2 DEF CommitQuick, CommitPostings
  <2>5. /\ b.sale \in QuickSale /\ n \in QuickNumber /\ n \notin Served /\ t \in Session
        /\ posting[r] = PostOne("INCOME", b.sale.method, b.sale.total)
    BY <1>2, <2>1, <2>4 DEF ServingAt, QuickLabel, ServesAt, DueAt
  <2>6. PICK method \in Method, v \in Int : method = b.sale.method /\ v = b.sale.total
    BY <2>5, QuickAssumption
  <2>7. quick'[n] = w /\ \A k \in QuickNumber \ {n} : quick'[k] = quick[k]
    BY <1>2, <2>4, <2>5
  <2>8. Served' = Served \cup {n}
    BY <2>3, <2>5, <2>7 DEF Served
  <2>9. ASSUME NEW m \in Method
        PROVE  QuickTotal(QuickBy(m))' = QuickTotal(QuickBy(m)) + IF m = method THEN v ELSE 0
    <3>1. PICK d : d = IF m = method THEN v ELSE 0
      OBVIOUS
    <3>2. d \in Int
      BY <3>1
    <3>3. n \notin QuickBy(m)
      BY <2>5 DEF QuickBy, CompletedQuick
    <3>4. n \in QuickBy(m)' <=> m = method
      BY <2>3, <2>6, <2>7, <2>8 DEF QuickBy, CompletedQuick
    <3>5. quick'[n].sale.total = v
      BY <2>3, <2>6, <2>7
    <3>6. QuickTotal(QuickBy(m))' = QuickTotal(QuickBy(m)) - 0 + d
      BY <1>2, <2>5, <2>7, <3>1, <3>2, <3>3, <3>4, <3>5, QuickMoney
    <3>7. QuickTotal(QuickBy(m)) \in Int
      BY <1>2, QuickSums DEF QuickBy, CompletedQuick
    <3>8. QED
      BY <3>1, <3>2, <3>6, <3>7
  <2>10. BooksBalance'
    BY <1>15, <2>1, <2>4, <2>5, <2>6, <2>9
  <2>11. ASSUME NEW k \in Served' PROVE quick'[k].till \in Session
    <3>1. CASE k = n
      BY <2>3, <2>5, <2>7, <3>1
    <3>2. CASE k # n
      <4>1. k \in Served /\ quick'[k] = quick[k]
        BY <2>7, <2>8, <3>2 DEF Served
      <4>2. QED
        BY <1>2, <4>1
    <3>3. QED
      BY <3>1, <3>2
  <2>12. QED
    BY <1>14, <2>4, <2>10, <2>11
<1>17. CASE CommitRefund(r)
  <2>1. PICK b, n : b = serving[r] /\ n = b.number
    OBVIOUS
  <2>2. /\ pc[r] = "commitRefund" /\ pc'[r] = "idle" /\ posting'[r] = NoPosting /\ session' = session
        /\ CommitPostings(r)
        /\ quick' = [quick EXCEPT ![n].status = "CANCELLED", ![n].refunds = @ + 1]
    BY <1>2, <1>17, <2>1 DEF CommitRefund, CommitPostings
  <2>3. /\ n \in Served /\ quick[n].status = "COMPLETED" /\ quick[n].sale = b.sale
        /\ till[r] \in Session /\ posting[r] = PostOne("INCOME", b.sale.method, -b.sale.total)
    BY <1>2, <2>1, <2>2 DEF ServingAt, QuickLabel, ServesAt, DueAt
  <2>4. n \in QuickNumber /\ ServedOK(quick[n])
    BY <1>2, <2>3, QuickSums
  <2>5. PICK method \in Method, v \in Int : method = b.sale.method /\ v = b.sale.total
    BY <1>2, <2>3, QuickSums
  <2>6. /\ \A k \in QuickNumber \ {n} : quick'[k] = quick[k]
        /\ quick'[n].status = "CANCELLED" /\ quick'[n].till = quick[n].till
    BY <1>2, <2>2, <2>4 DEF ServedOK
  <2>7. Served' = Served
    BY <2>3, <2>6 DEF Served
  <2>8. ASSUME NEW m \in Method
        PROVE  QuickTotal(QuickBy(m))' = QuickTotal(QuickBy(m)) + IF m = method THEN -v ELSE 0
    <3>1. PICK d : d = IF m = method THEN v ELSE 0
      OBVIOUS
    <3>2. d \in Int
      BY <3>1
    <3>3. n \in QuickBy(m) <=> m = method
      BY <2>3, <2>5 DEF QuickBy, CompletedQuick
    <3>4. n \notin QuickBy(m)'
      BY <2>6 DEF QuickBy, CompletedQuick
    <3>5. quick[n].sale.total = v
      BY <2>3, <2>5
    <3>6. QuickTotal(QuickBy(m))' = QuickTotal(QuickBy(m)) - d + 0
      BY <1>2, <2>4, <2>6, <3>1, <3>2, <3>3, <3>4, <3>5, QuickMoney
    <3>7. QuickTotal(QuickBy(m)) \in Int
      BY <1>2, QuickSums DEF QuickBy, CompletedQuick
    <3>8. QED
      BY <3>1, <3>2, <3>6, <3>7
  <2>9. BooksBalance'
    <3>1. PICK z \in Int : z = -v
      OBVIOUS
    <3>2. \A m \in Method : QuickTotal(QuickBy(m))' = QuickTotal(QuickBy(m)) + IF m = method THEN z ELSE 0
      BY <2>8, <3>1
    <3>3. posting[r] = PostOne("INCOME", method, z)
      BY <2>3, <2>5, <3>1
    <3>4. QED
      BY <1>15, <2>2, <2>3, <3>2, <3>3
  <2>10. \A k \in Served' : quick'[k].till \in Session
    BY <1>2, <2>3, <2>6, <2>7 DEF Served
  <2>11. QED
    BY <1>14, <2>2, <2>9, <2>10
<1>18. QED
  BY <1>1, <1>7, <1>8, <1>9, <1>10, <1>11, <1>12, <1>13, <1>16, <1>17 DEF QuickStep

-----------------------------------------------------------------------------
(* Purchases keep the books *)

\* A step that makes no order and changes what none is for spends nothing.
LEMMA SpentStays ==
    ASSUME \A n \in PurchaseNumber : (purchase'[n].status = "NONE") <=> (purchase[n].status = "NONE"),
           \A n \in Ordered : purchase'[n].supply = purchase[n].supply,
           NEW m \in Method
    PROVE  Spent(m)' = Spent(m)
<1>1. Ordered' = Ordered
  BY DEF Ordered
<1>2. BoughtBy(m)' = BoughtBy(m) /\ \A n \in BoughtBy(m) : purchase'[n].supply = purchase[n].supply
  BY <1>1 DEF BoughtBy, PaidFromTill
<1>3. QED
  BY <1>2 DEF Spent, PurchasesTotal

\* The order n is made.
LEMMA PurchaseMadeMoney ==
    ASSUME BuyInv, NEW n \in PurchaseNumber, n \notin Ordered, NEW s \in Supply,
           purchase'[n].status = "PENDING", purchase'[n].supply = s,
           \A k \in PurchaseNumber \ {n} : purchase'[k] = purchase[k],
           NEW m \in Method
    PROVE  Spent(m)' = Spent(m) + IF s.fromCash /\ m = s.method THEN s.total ELSE 0
<1>1. PICK S, T, f, g : /\ S = BoughtBy(m) /\ T = BoughtBy(m)'
                        /\ f = [k \in BoughtBy(m) |-> purchase[k].supply.total]
                        /\ g = [k \in BoughtBy(m)' |-> purchase'[k].supply.total]
  OBVIOUS
<1>2. PICK d : d = IF s.fromCash /\ m = s.method THEN s.total ELSE 0
  OBVIOUS
<1>3. d \in Int
  BY <1>2, SupplyAssumption DEF SupplyType
<1>4. S \subseteq Ordered /\ n \notin S
  BY <1>1 DEF BoughtBy, PaidFromTill
<1>5. IsFiniteSet(S) /\ \A k \in S : f[k] \in Int
  BY <1>1, <1>4, PurchaseSums
<1>6. Ordered' = Ordered \cup {n}
  BY DEF Ordered
<1>7. n \in T <=> s.fromCash /\ m = s.method
  BY <1>1, <1>6 DEF BoughtBy, PaidFromTill
<1>8. S \ {n} = T \ {n}
  <2>1. \A k \in Ordered : k \in BoughtBy(m) <=> k \in BoughtBy(m)'
    BY <1>6 DEF BoughtBy, PaidFromTill, Ordered
  <2>2. T \subseteq Ordered \cup {n}
    BY <1>1, <1>6 DEF BoughtBy, PaidFromTill
  <2>3. QED
    BY <1>1, <1>4, <2>1, <2>2
<1>9. \A k \in S \ {n} : f[k] = g[k]
  <2>1. ASSUME NEW k \in S PROVE f[k] = g[k]
    <3>1. purchase'[k] = purchase[k]
      BY <1>4, <2>1 DEF Ordered
    <3>2. k \in T
      BY <1>4, <1>8, <2>1
    <3>3. QED
      BY <1>1, <2>1, <3>1, <3>2
  <2>2. QED
    BY <2>1
<1>10. n \in T => g[n] = d
  BY <1>1, <1>2, <1>7
<1>11. n \notin T => d = 0
  BY <1>2, <1>7
<1>12. SumFunctionOnSet(g, T) = SumFunctionOnSet(f, S) - 0 + d
  BY <1>3, <1>4, <1>5, <1>8, <1>9, <1>10, <1>11, SumMoved
<1>13. Spent(m) = SumFunctionOnSet(f, S) /\ Spent(m)' = SumFunctionOnSet(g, T)
  BY <1>1 DEF Spent, PurchasesTotal
<1>14. SumFunctionOnSet(f, S) \in Int
  BY <1>5, SumInt
<1>15. QED
  BY <1>2, <1>3, <1>12, <1>13, <1>14

LEMMA DueOfPurchase ==
    ASSUME NEW r \in Request, pc'[r] \in PurchaseLabel \cup {"idle"},
           pc'[r] # "commitPurchase" => posting'[r] = NoPosting,
           pc'[r] = "payPurchase" => purchasing'[r].supply.fromCash,
           pc'[r] = "commitPurchase" =>
             IF purchasing'[r].supply.fromCash
             THEN /\ till'[r] \in Session
                  /\ posting'[r] = PostOne("EXPENSE", purchasing'[r].supply.method,
                                                      purchasing'[r].supply.total)
             ELSE posting'[r] = NoPosting
    PROVE  DueAt(r)' /\ ServesAt(r)'
<1>1. pc'[r] \notin {"commitSale", "commitCancel", "commitRefund"} \cup QuickLabel
  BY DEF QuickLabel, PurchaseLabel
<1>2. pc'[r] \notin {"commitQuick", "writeQuick"}
  BY <1>1 DEF QuickLabel
<1>3. ServesAt(r)'
  BY <1>1, <1>2 DEF ServesAt
<1>4. DueAt(r)'
  BY <1>1, <1>2 DEF DueAt, DueLabel
<1>5. QED
  BY <1>3, <1>4

LEMMA PurchasesKeepBooks ==
    ASSUME OneRequest, ShopInv, MoneyInv, PurchasesNext, UNCHANGED <<sale, quick>>
    PROVE  MoneyInv'
<1> USE DEF Step
<1>1. PICK r \in Request :
        \/ \E s \in Supply : StartPurchase(r, s)
        \/ \E n \in Ordered : \/ \E due \in Named(n) : StartReceive(r, n, due)
                              \/ StartCancelPurchase(r, n)
                              \/ \E p \in {"PENDING", "PAID"} : StartUpdatePurchase(r, n, p)
        \/ PurchaseStep(r)
        \/ RollbackPurchase(r)
  BY DEF PurchasesNext
<1>2. /\ TypeInv /\ BuyInv /\ CashBookTypeOK /\ BooksBalance
      /\ DOMAIN pc = Request /\ DOMAIN posting = Request /\ DOMAIN till = Request
      /\ DOMAIN purchasing = Request /\ DOMAIN purchase = PurchaseNumber
      /\ BuyerAt(r) /\ DueAt(r)
  BY DEF ShopInv, TypeInv, TypeOK, CashBookTypeOK, BuyInv, MoneyInv
<1>3. ASSUME pc[r] \notin DueLabel, posting'[r] = posting[r]
      PROVE  posting'[r] = NoPosting
  BY <1>2, <1>3 DEF DueAt
<1>4. ASSUME UNCHANGED <<takings, session>>, \A m \in Method : Spent(m)' = Spent(m),
             pc'[r] \in PurchaseLabel \cup {"idle"}, DueAt(r)', ServesAt(r)'
      PROVE  MoneyInv'
  <2>1. pc'[r] # "commitSale"
    BY <1>4 DEF PurchaseLabel
  <2>2. QED
    BY <1>4, <2>1, QuietMoneyStep
<1>5. ASSUME UNCHANGED purchase
      PROVE  \A m \in Method : Spent(m)' = Spent(m)
  BY <1>5, SpentStays
\* Handlers that write neither orders nor movements.
<1>6. ASSUME UNCHANGED <<purchase, takings, session>>, pc[r] \notin DueLabel,
             pc'[r] \in PurchaseLabel \cup {"idle"}, pc'[r] \notin {"payPurchase", "commitPurchase"},
             posting'[r] \in {posting[r], NoPosting}
      PROVE  MoneyInv'
  <2>1. posting'[r] = NoPosting
    BY <1>3, <1>6
  <2>2. QED
    BY <1>4, <1>5, <1>6, <2>1, DueOfPurchase
<1>7. CASE \E s \in Supply : StartPurchase(r, s)
  <2>1. /\ UNCHANGED <<purchase, takings, session, posting>>
        /\ pc[r] = "idle" /\ pc'[r] = "countPurchases"
    BY <1>2, <1>7 DEF StartPurchase, cashVars
  <2>2. QED
    BY <1>6, <2>1 DEF DueLabel, PurchaseLabel
<1>8. CASE \E n \in Ordered : \/ \E due \in Named(n) : StartReceive(r, n, due)
                              \/ StartCancelPurchase(r, n)
                              \/ \E p \in {"PENDING", "PAID"} : StartUpdatePurchase(r, n, p)
  <2>1. /\ UNCHANGED <<purchase, takings, session, posting>>
        /\ pc[r] = "idle" /\ pc'[r] \in {"readItem", "writeCancelled", "writePayment"}
    BY <1>2, <1>8 DEF StartReceive, StartCancelPurchase, StartUpdatePurchase, cashVars
  <2>2. QED
    BY <1>6, <2>1 DEF DueLabel, PurchaseLabel
<1>9. CASE CountPurchases(r) \/ SkipItem(r) \/ ReadItem(r) \/ StoreItem(r)
           \/ RefreshItems(r) \/ WriteReceived(r)
  <2>1. /\ UNCHANGED <<purchase, takings, session, posting>>
        /\ pc[r] \in {"countPurchases", "readItem", "storeItem", "writeStatus"}
        /\ pc'[r] \in {"insertPurchase", "readItem", "storeItem", "writeStatus", "commitReceive"}
    BY <1>2, <1>9
       DEF CountPurchases, SkipItem, ReadItem, StoreItem, RefreshItems, WriteReceived, cashVars,
           purchaseVars
  <2>2. QED
    BY <1>6, <2>1 DEF DueLabel, PurchaseLabel
<1>10. CASE InsertPurchase(r)
  <2>1. /\ UNCHANGED <<purchase, purchasing, takings, session, posting>> /\ pc[r] = "insertPurchase"
        /\ pc'[r] = IF purchasing[r].supply.fromCash THEN "payPurchase" ELSE "commitPurchase"
    BY <1>2, <1>10 DEF InsertPurchase, Purchasing, cashVars, purchaseVars
  <2>2. posting'[r] = NoPosting
    BY <1>3, <2>1 DEF DueLabel
  <2>3. pc'[r] \in PurchaseLabel
    BY <2>1 DEF PurchaseLabel
  <2>4. DueAt(r)' /\ ServesAt(r)'
    BY <2>1, <2>2, <2>3, DueOfPurchase
  <2>5. QED
    BY <1>4, <1>5, <2>1, <2>3, <2>4
<1>11. CASE PayPurchase(r)
  <2>1. PICK s : s = purchasing[r].supply
    OBVIOUS
  <2>2. /\ UNCHANGED <<purchase, purchasing, takings, session>>
        /\ pc[r] = "payPurchase" /\ pc'[r] = "commitPurchase"
        /\ till'[r] \in Session /\ posting'[r] = PostOne("EXPENSE", s.method, s.total)
    BY <1>2, <1>11, <2>1 DEF PayPurchase, Purchasing, OpenSessionsOf, purchaseVars
  <2>3. s.fromCash
    BY <1>2, <2>1, <2>2 DEF DueAt
  <2>4. pc'[r] \in PurchaseLabel
    BY <2>2 DEF PurchaseLabel
  <2>5. DueAt(r)' /\ ServesAt(r)'
    BY <2>1, <2>2, <2>3, <2>4, DueOfPurchase
  <2>6. QED
    BY <1>4, <1>5, <2>2, <2>4, <2>5
<1>12. CASE RollbackPurchase(r)
  <2>1. UNCHANGED <<purchase, takings, session>> /\ pc'[r] = "idle" /\ posting'[r] = NoPosting
    BY <1>2, <1>12 DEF RollbackPurchase, DropPostings
  <2>2. DueAt(r)' /\ ServesAt(r)'
    BY <2>1, DueOfPurchase
  <2>3. QED
    BY <1>4, <1>5, <2>1, <2>2
\* The three handlers that write an order that is there.
<1>13. ASSUME UNCHANGED <<takings, session, posting>>, pc'[r] = "idle",
              pc[r] \notin DueLabel, NEW n \in Ordered,
              purchase'[n].status # "NONE", purchase'[n].supply = purchase[n].supply,
              \A k \in PurchaseNumber \ {n} : purchase'[k] = purchase[k]
       PROVE  MoneyInv'
  <2>1. \A k \in PurchaseNumber : (purchase'[k].status = "NONE") <=> (purchase[k].status = "NONE")
    BY <1>13 DEF Ordered
  <2>2. \A k \in Ordered : purchase'[k].supply = purchase[k].supply
    BY <1>13 DEF Ordered
  <2>3. \A m \in Method : Spent(m)' = Spent(m)
    BY <2>1, <2>2, SpentStays
  <2>4. posting'[r] = NoPosting
    BY <1>3, <1>13
  <2>5. DueAt(r)' /\ ServesAt(r)'
    BY <1>13, <2>4, DueOfPurchase
  <2>6. QED
    BY <1>4, <1>13, <2>3, <2>5
<1>14. CASE WriteCancelled(r) \/ WritePayment(r)
  <2>1. PICK n, z : n = purchasing[r].number /\ z = purchasing[r].payment
    OBVIOUS
  <2>2. /\ UNCHANGED <<takings, session, posting>>
        /\ pc[r] \in {"writeCancelled", "writePayment"} /\ pc'[r] = "idle"
        /\ \/ purchase' = [purchase EXCEPT ![n].status = "CANCELLED"]
           \/ purchase' = [purchase EXCEPT ![n].payment = z]
    BY <1>2, <1>14, <2>1 DEF WriteCancelled, WritePayment, Purchasing, cashVars
  <2>3. n \in Ordered
    BY <1>2, <2>1, <2>2 DEF BuyerAt
  <2>4. n \in PurchaseNumber /\ PurchaseOK(purchase[n])
    BY <1>2, <2>3, PurchaseSums
  <2>5. purchase[n].status # "NONE"
    BY <2>3 DEF Ordered
  <2>6. /\ purchase'[n].status # "NONE" /\ purchase'[n].supply = purchase[n].supply
        /\ \A k \in PurchaseNumber \ {n} : purchase'[k] = purchase[k]
    <3>1. CASE purchase' = [purchase EXCEPT ![n].status = "CANCELLED"]
      BY <1>2, <2>4, <3>1 DEF PurchaseOK
    <3>2. CASE purchase' = [purchase EXCEPT ![n].payment = z]
      BY <1>2, <2>4, <2>5, <3>2 DEF PurchaseOK
    <3>3. QED
      BY <2>2, <3>1, <3>2
  <2>7. pc[r] \notin DueLabel
    BY <2>2 DEF DueLabel
  <2>8. QED
    BY <1>13, <2>2, <2>3, <2>6, <2>7
<1>15. CASE CommitReceive(r)
  <2>1. PICK n, a, b, c :
          /\ n = purchasing[r].number /\ a = purchasing[r].status /\ b = Refreshed(r)
          /\ c = [i \in DOMAIN purchase[n].arrived |->
                    purchase[n].arrived[i] + IF i \in Stored(r) THEN purchasing[r].due[i] ELSE 0]
    OBVIOUS
  <2>2. /\ UNCHANGED <<takings, session, posting>>
        /\ pc[r] = "commitReceive" /\ pc'[r] = "idle"
        /\ purchase' = [purchase EXCEPT ![n] =
             [purchase[n] EXCEPT !.status = a, !.received = b, !.arrived = c]]
    BY <1>2, <1>15, <2>1 DEF CommitReceive, Purchasing, cashVars
  <2>3. n \in Ordered /\ a \in PurchaseStatus
    BY <1>2, <2>1, <2>2 DEF BuyerAt, ReceiveLabel, PurchaseLabel
  <2>4. n \in PurchaseNumber /\ PurchaseOK(purchase[n])
    BY <1>2, <2>3, PurchaseSums
  <2>5. a # "NONE"
    BY <2>3 DEF PurchaseStatus
  <2>6. /\ purchase'[n].status = a /\ purchase'[n].supply = purchase[n].supply
        /\ \A k \in PurchaseNumber \ {n} : purchase'[k] = purchase[k]
    BY <1>2, <2>2, <2>4 DEF PurchaseOK
  <2>7. pc[r] \notin DueLabel
    BY <2>2 DEF DueLabel
  <2>8. QED
    BY <1>13, <2>2, <2>3, <2>5, <2>6, <2>7
<1>16. CASE CommitPurchase(r)
  <2>1. PICK n, s, w : n = purchasing[r].number /\ s = purchasing[r].supply /\ w = NewPurchase(s)
    OBVIOUS
  <2>2. /\ pc[r] = "commitPurchase" /\ pc'[r] = "idle" /\ session' = session /\ CommitPostings(r)
        /\ purchase' = [purchase EXCEPT ![n] = w] /\ posting'[r] = NoPosting
    BY <1>2, <1>16, <2>1 DEF CommitPurchase, Purchasing, CommitPostings
  <2>3. n \in PurchaseNumber \ Ordered /\ s \in Supply
    BY <1>2, <2>1, <2>2 DEF BuyerAt, HasInsertedPurchase, PurchaseLabel
  <2>4. w.status = "PENDING" /\ w.supply = s
    BY <2>1 DEF NewPurchase
  <2>5. /\ purchase'[n].status = "PENDING" /\ purchase'[n].supply = s
        /\ \A k \in PurchaseNumber \ {n} : purchase'[k] = purchase[k]
    BY <1>2, <2>2, <2>3, <2>4
  <2>6. ASSUME NEW m \in Method
        PROVE  Spent(m)' = Spent(m) + IF s.fromCash /\ m = s.method THEN s.total ELSE 0
    BY <1>2, <2>3, <2>5, PurchaseMadeMoney
  <2>7. \A m \in Method : Paid(m)' = Paid(m) /\ Earned(m)' = Earned(m)
    BY DEF Paid, PaidBy, Registered, Earned, QuickTotal, QuickBy, CompletedQuick, Served, SalesTotal,
           CancelledSales, CompletedSales
  <2>8. \A m \in Method : Paid(m) \in Int /\ Earned(m) \in Int /\ Spent(m) \in Int
    BY <1>2, PaidIsInt, EarnedIsInt, SpentIsInt DEF ShopInv
  <2>9. s.total \in Int /\ s.method \in Method /\ s.fromCash \in BOOLEAN
    BY <2>3, SupplyAssumption DEF SupplyType
  <2>10. BooksBalance'
    <3>1. CASE s.fromCash
      <4>1. till[r] \in Session /\ posting[r] = PostOne("EXPENSE", s.method, s.total)
        BY <1>2, <2>1, <2>2, <3>1 DEF DueAt
      <4>2. ASSUME NEW m \in Method
            PROVE  /\ Paid(m)' = Paid(m) + posting[r]["SALE"][m]
                   /\ Earned(m)' = Earned(m) + posting[r]["INCOME"][m]
                   /\ Spent(m)' = Spent(m) + posting[r]["EXPENSE"][m]
        <5>0. {"SALE", "INCOME", "EXPENSE"} \subseteq MoveType
          BY DEF MoveType
        <5>1. /\ posting[r]["SALE"][m] = 0 /\ posting[r]["INCOME"][m] = 0
              /\ posting[r]["EXPENSE"][m] = IF m = s.method THEN s.total ELSE 0
          BY <2>9, <4>1, <5>0, PostedOne
        <5>2. QED
          BY <2>6, <2>7, <2>8, <3>1, <5>1
      <4>3. QED
        BY <1>2, <2>2, <4>1, <4>2, BooksFollow
    <3>2. CASE ~s.fromCash
      <4>1. posting[r] = NoPosting
        BY <1>2, <2>1, <2>2, <3>2 DEF DueAt
      <4>2. takings' = takings
        BY <1>2, <2>2, <4>1, NothingCommitted
      <4>3. \A m \in Method : Spent(m)' = Spent(m)
        BY <2>6, <2>8, <3>2
      <4>4. QED
        BY <1>2, <2>7, <4>2, <4>3, BooksStay
    <3>3. QED
      BY <3>1, <3>2
  <2>11. DueAt(r)' /\ ServesAt(r)'
    BY <2>2, DueOfPurchase
  <2>12. \A q \in Request : q = r
    BY DEF OneRequest
  <2>13. SellersHaveTills'
    BY <2>2, <2>12 DEF MoneyInv, SellersHaveTills, Registered, OpenSessionsOf
  <2>14. \A k \in Served' : quick'[k].till \in Session
    BY DEF MoneyInv, Served
  <2>15. QED
    BY <2>10, <2>11, <2>12, <2>13, <2>14 DEF MoneyInv
<1>17. QED
  BY <1>1, <1>7, <1>8, <1>9, <1>10, <1>11, <1>12, <1>14, <1>15, <1>16 DEF PurchaseStep

-----------------------------------------------------------------------------
(* The books of the shop balance *)

\* A service order has no money of its own.
LEMMA WorkKeepsBooks ==
    ASSUME OneRequest, ShopInv, MoneyInv, WorkNext, UNCHANGED <<cashVars, sale, purchase, quick>>
    PROVE  MoneyInv'
<1>1. PICK r \in Request : WorkKept(r)
  <2>1. TypeInv /\ StockNeverNegative /\ RepairInv
    BY DEF ShopInv, StockInv
  <2>2. QED
    BY <2>1, WorkKeeps DEF WorkBefore
<1>2. pc[r] \in WorkLabel \cup {"idle"} /\ pc'[r] \in WorkLabel \cup {"idle"}
  BY <1>1 DEF WorkKept, OneSlot
<1>3. UNCHANGED <<takings, session, posting>>
  BY DEF cashVars
<1>4. pc[r] \notin DueLabel
  BY <1>2 DEF WorkLabel, DueLabel
<1>5. pc'[r] \notin DueLabel \cup QuickLabel \cup {"payPurchase"}
  BY <1>2 DEF WorkLabel, DueLabel, QuickLabel
<1>6. posting'[r] = NoPosting
  BY <1>3, <1>4 DEF MoneyInv, DueAt
<1>7. DueAt(r)' /\ ServesAt(r)'
  BY <1>5, <1>6 DEF DueAt, ServesAt, DueLabel, QuickLabel
<1>8. \A m \in Method : Spent(m)' = Spent(m)
  BY SpentStays
<1>9. pc'[r] # "commitSale"
  BY <1>5 DEF DueLabel
<1>10. QED
  BY <1>3, <1>7, <1>8, <1>9, QuietMoneyStep

LEMMA NextMoney ==
    ASSUME OneRequest, ShopInv, OnceInv, KardexInv, MoneyInv, [ShopNext]_shopVars
    PROVE  MoneyInv'
<1>1. CASE Next /\ UNCHANGED <<purchaseVars, workVars, quickVars>>
  BY <1>1, SalesKeepMoney DEF purchaseVars, quickVars
<1>2. CASE PurchasesNext /\ UNCHANGED <<saleVars, workVars, quickVars>>
  BY <1>2, PurchasesKeepBooks DEF saleVars, quickVars
<1>3. CASE WorkNext /\ UNCHANGED <<cashVars, saleVars, purchaseVars, quickVars>>
  BY <1>3, WorkKeepsBooks DEF saleVars, purchaseVars, quickVars
<1>4. CASE QuickNext /\ UNCHANGED <<rowVars, saleVars, purchaseVars, workVars>>
  BY <1>4, QuickKeepsBooks DEF saleVars, purchaseVars
<1>5. CASE UNCHANGED shopVars
  <2>1. UNCHANGED <<pc, session, takings, till, posting, sale, order, purchase, purchasing,
                    quick, serving>>
    BY <1>5 DEF shopVars, vars, cashVars, saleVars, purchaseVars, quickVars
  <2>2. \A m \in Method : Spent(m)' = Spent(m)
    BY <2>1, SpentStays
  <2>3. BooksBalance'
    <3>1. \A m \in Method : Paid(m)' = Paid(m) /\ Earned(m)' = Earned(m)
      BY <2>1 DEF Paid, PaidBy, Registered, Earned, QuickTotal, QuickBy, CompletedQuick, Served,
                  SalesTotal, CancelledSales, CompletedSales
    <3>2. QED
      BY <2>1, <2>2, <3>1, BooksStay DEF MoneyInv
  <2>4. SellersHaveTills' /\ \A n \in Served' : quick'[n].till \in Session
    BY <2>1 DEF MoneyInv, SellersHaveTills, Registered, OpenSessionsOf, Served
  <2>5. \A r \in Request : DueAt(r)' /\ ServesAt(r)'
    BY <2>1 DEF MoneyInv, DueAt, ServesAt, Served
  <2>6. QED
    BY <2>3, <2>4, <2>5 DEF MoneyInv
<1>6. QED
  BY <1>1, <1>2, <1>3, <1>4, <1>5 DEF ShopNext

LEMMA InitMoney == ShopInit => MoneyInv
<1> SUFFICES ASSUME ShopInit PROVE MoneyInv
  OBVIOUS
<1>1. /\ Registered = {} /\ Served = {} /\ Ordered = {}
      /\ \A r \in Request : pc[r] = "idle" /\ posting[r] = NoPosting
  BY DEF ShopInit, Init, PurchasesInit, QuickInit, CashBookInit, Registered, Served, Ordered, NoSale,
     NoPurchase, NoQuick
<1>2. ASSUME NEW type \in MoveType, NEW m \in Method
      PROVE  Taken(type, m) = 0
  <2>1. PICK f : f = [s \in Session |-> takings[s][type][m]]
    OBVIOUS
  <2>2. \A s \in Session : f[s] = 0
    BY <2>1 DEF ShopInit, Init, CashBookInit, NoPosting
  <2>3. SumFunctionOnSet(f, Session) = 0
    BY <2>2, SessionFinite, SumZero
  <2>4. QED
    BY <2>1, <2>3 DEF Taken
<1>3. ASSUME NEW m \in Method
      PROVE  Paid(m) = 0 /\ Earned(m) = 0 /\ Spent(m) = 0
  <2>1. CancelledSales = {} /\ QuickBy(m) = {} /\ BoughtBy(m) = {}
    BY <1>1 DEF CancelledSales, CompletedSales, QuickBy, CompletedQuick, BoughtBy, PaidFromTill
  <2>2. SalesTotal(CancelledSales) = 0 /\ QuickTotal(QuickBy(m)) = 0 /\ PurchasesTotal(BoughtBy(m)) = 0
    BY <2>1, SumEmpty DEF SalesTotal, QuickTotal, PurchasesTotal
  <2>3. QED
    BY <1>1, <2>2, SumEmpty DEF Paid, Earned, Spent
<1>4. BooksBalance
  BY <1>2, <1>3 DEF BooksBalance, MoveType
<1>5. SellersHaveTills
  BY <1>1 DEF SellersHaveTills
<1>6. ASSUME NEW r \in Request PROVE DueAt(r) /\ ServesAt(r)
  <2>1. posting[r] = NoPosting /\ pc[r] \notin DueLabel \cup QuickLabel \cup {"payPurchase"}
    BY <1>1 DEF DueLabel, QuickLabel
  <2>2. QED
    BY <2>1 DEF DueAt, ServesAt, DueLabel, QuickLabel
<1>7. QED
  BY <1>1, <1>4, <1>5, <1>6 DEF MoneyInv

-----------------------------------------------------------------------------
(* Products stay active: no handler here writes the flag                     *)

QuietInv == \A p \in Product : active[p]

LEMMA RowStepActive ==
    ASSUME NEW r \in Request, RowStep(r)
    PROVE  active' = active
  BY DEF RowStep, rowVars, CommitRows, RollbackRows, WriteStock

LEMMA NextQuiet ==
    ASSUME ShopInv, ExactInv, QuietInv, [ShopNext]_shopVars
    PROVE  QuietInv'
<1>1. active' = active
  <2>1. CASE Next
    <3>1. PICK r \in Request : RowStep(r) /\ ReadExactly(r)'
      BY <2>1, SaleExact
    <3>2. QED
      BY <3>1, RowStepActive
  <2>2. CASE PurchasesNext
    <3>1. PICK r \in Request : RowStep(r) /\ ReadExactly(r)'
      BY <2>2, BuyExact
    <3>2. QED
      BY <3>1, RowStepActive
  <2>3. CASE WorkNext
    <3>1. PICK r \in Request : RowStep(r) /\ ReadExactly(r)'
      BY <2>3, WorkExact
    <3>2. QED
      BY <3>1, RowStepActive
  <2>4. CASE UNCHANGED rowVars
    BY <2>4 DEF rowVars
  <2>5. QED
    BY <2>1, <2>2, <2>3, <2>4 DEF ShopNext, shopVars, vars
<1>2. QED
  BY <1>1 DEF QuietInv

LEMMA InitQuiet == ShopInit => QuietInv
  BY DEF ShopInit, Init, RowsInit, QuietInv

-----------------------------------------------------------------------------
(* The reports of goods and money *)

\* What sales, services or purchases total is what they total by each method.
LEMMA TotalByMethod ==
    ASSUME NEW S, IsFiniteSet(S), NEW v, \A x \in S : v[x] \in Int,
           NEW w, \A x \in S : w[x] \in Method,
           NEW A, NEW B, NEW C, A = {x \in S : w[x] = "CASH"}, B = {x \in S : w[x] = "YAPE"},
           C = {x \in S : w[x] = "MIXED"}
    PROVE  SumFunctionOnSet([x \in S |-> v[x]], S) =
             SumFunctionOnSet([x \in A |-> v[x]], A) + SumFunctionOnSet([x \in B |-> v[x]], B)
               + SumFunctionOnSet([x \in C |-> v[x]], C)
<1>1. PICK f, a, b, c : /\ f = [x \in S |-> v[x]] /\ a = [x \in A |-> v[x]]
                        /\ b = [x \in B |-> v[x]] /\ c = [x \in C |-> v[x]]
  OBVIOUS
<1>2. S = A \cup B \cup C /\ A \cap B = {} /\ A \cap C = {} /\ B \cap C = {}
  BY DEF Method
<1>3. IsFiniteSet(A) /\ IsFiniteSet(B) /\ IsFiniteSet(C)
  BY FS_Subset
<1>4. \A x \in S : f[x] \in Int
  BY <1>1
<1>5. SumFunctionOnSet(f, S) =
        SumFunctionOnSet(f, A) + SumFunctionOnSet(f, B) + SumFunctionOnSet(f, C)
  BY <1>2, <1>4, SumByMethod
<1>6. (\A x \in A : f[x] = a[x]) /\ (\A x \in B : f[x] = b[x]) /\ \A x \in C : f[x] = c[x]
  BY <1>1
<1>7. /\ SumFunctionOnSet(f, A) = SumFunctionOnSet(a, A)
      /\ SumFunctionOnSet(f, B) = SumFunctionOnSet(b, B)
      /\ SumFunctionOnSet(f, C) = SumFunctionOnSet(c, C)
  BY <1>3, <1>6, SumSame
<1>8. QED
  BY <1>1, <1>5, <1>7

LEMMA QuickTotalByMethod ==
    ASSUME QuickInv
    PROVE  QuickTotal(CompletedQuick) =
             QuickTotal(QuickBy("CASH")) + QuickTotal(QuickBy("YAPE")) + QuickTotal(QuickBy("MIXED"))
<1>1. PICK S, v, w : /\ S = CompletedQuick /\ v = [n \in S |-> quick[n].sale.total]
                     /\ w = [n \in S |-> quick[n].sale.method]
  OBVIOUS
<1>2. IsFiniteSet(S) /\ \A n \in S : quick[n].sale.total \in Int /\ quick[n].sale.method \in Method
  BY <1>1, QuickSums DEF CompletedQuick
<1>3. (\A n \in S : v[n] \in Int) /\ \A n \in S : w[n] \in Method
  BY <1>1, <1>2
<1>4. ASSUME NEW m
      PROVE  /\ QuickBy(m) = {n \in S : w[n] = m}
             /\ QuickTotal(QuickBy(m)) = SumFunctionOnSet([n \in QuickBy(m) |-> v[n]], QuickBy(m))
  BY <1>1 DEF QuickBy, QuickTotal
<1>5. QuickTotal(CompletedQuick) = SumFunctionOnSet([n \in S |-> v[n]], S)
  BY <1>1 DEF QuickTotal
<1>6. PICK A, B, C : A = QuickBy("CASH") /\ B = QuickBy("YAPE") /\ C = QuickBy("MIXED")
  OBVIOUS
<1>7. A = {n \in S : w[n] = "CASH"} /\ B = {n \in S : w[n] = "YAPE"} /\ C = {n \in S : w[n] = "MIXED"}
  BY <1>4, <1>6
<1>8. SumFunctionOnSet([n \in S |-> v[n]], S) =
        SumFunctionOnSet([n \in A |-> v[n]], A) + SumFunctionOnSet([n \in B |-> v[n]], B)
          + SumFunctionOnSet([n \in C |-> v[n]], C)
  BY <1>2, <1>3, <1>7, TotalByMethod
<1>9. QED
  BY <1>4, <1>5, <1>6, <1>8

LEMMA SpentByMethod ==
    ASSUME BuyInv
    PROVE  PurchasesTotal(PaidFromTill) = Spent("CASH") + Spent("YAPE") + Spent("MIXED")
<1>1. PICK S, v, w : /\ S = PaidFromTill /\ v = [n \in S |-> purchase[n].supply.total]
                     /\ w = [n \in S |-> purchase[n].supply.method]
  OBVIOUS
<1>2. /\ IsFiniteSet(S)
      /\ \A n \in S : purchase[n].supply.total \in Int /\ purchase[n].supply.method \in Method
  BY <1>1, PurchaseSums DEF PaidFromTill
<1>3. (\A n \in S : v[n] \in Int) /\ \A n \in S : w[n] \in Method
  BY <1>1, <1>2
<1>4. ASSUME NEW m
      PROVE  /\ BoughtBy(m) = {n \in S : w[n] = m}
             /\ Spent(m) = SumFunctionOnSet([n \in BoughtBy(m) |-> v[n]], BoughtBy(m))
  BY <1>1 DEF BoughtBy, Spent, PurchasesTotal
<1>5. PurchasesTotal(PaidFromTill) = SumFunctionOnSet([n \in S |-> v[n]], S)
  BY <1>1 DEF PurchasesTotal
<1>6. PICK A, B, C : A = BoughtBy("CASH") /\ B = BoughtBy("YAPE") /\ C = BoughtBy("MIXED")
  OBVIOUS
<1>7. A = {n \in S : w[n] = "CASH"} /\ B = {n \in S : w[n] = "YAPE"} /\ C = {n \in S : w[n] = "MIXED"}
  BY <1>4, <1>6
<1>8. SumFunctionOnSet([n \in S |-> v[n]], S) =
        SumFunctionOnSet([n \in A |-> v[n]], A) + SumFunctionOnSet([n \in B |-> v[n]], B)
          + SumFunctionOnSet([n \in C |-> v[n]], C)
  BY <1>2, <1>3, <1>7, TotalByMethod
<1>9. QED
  BY <1>4, <1>5, <1>6, <1>8

\* The movements of a type are those of each method.
LEMMA MovementsByMethod ==
    ASSUME CashBookTypeOK, NEW type \in MoveType
    PROVE  SumMovements(type) = Taken(type, "CASH") + Taken(type, "YAPE") + Taken(type, "MIXED")
<1>1. PICK a, b, c, d, h :
        /\ a = [s \in Session |-> takings[s][type]["CASH"]]
        /\ b = [s \in Session |-> takings[s][type]["YAPE"]]
        /\ c = [s \in Session |-> takings[s][type]["MIXED"]]
        /\ d = [s \in Session |-> a[s] + b[s]]
        /\ h = [s \in Session |-> SumOfType(takings[s], type)]
  OBVIOUS
<1>2. \A s \in Session : a[s] \in Int /\ b[s] \in Int /\ c[s] \in Int
  BY <1>1 DEF CashBookTypeOK, Book, Method
<1>3. \A s \in Session : d[s] = a[s] + b[s] /\ d[s] \in Int
  BY <1>1, <1>2
<1>4. \A s \in Session : h[s] = d[s] + c[s]
  BY <1>1, <1>3 DEF SumOfType
<1>5. SumFunctionOnSet(h, Session) = SumFunctionOnSet(d, Session) + SumFunctionOnSet(c, Session)
  BY <1>2, <1>3, <1>4, SessionFinite, SumPlus
<1>6. SumFunctionOnSet(d, Session) = SumFunctionOnSet(a, Session) + SumFunctionOnSet(b, Session)
  BY <1>2, <1>3, SessionFinite, SumPlus
<1>7. QED
  BY <1>1, <1>5, <1>6 DEF SumMovements, Taken

\* The cash report by method: what every type says.
LEMMA CashByMethod ==
    ASSUME CashBookTypeOK, NEW m \in Method
    PROVE  CashReport.byMethod[m] = Taken("SALE", m) + Taken("INCOME", m) + Taken("EXPENSE", m)
<1>1. PICK a, b, c, d, h :
        /\ a = [s \in Session |-> takings[s]["SALE"][m]]
        /\ b = [s \in Session |-> takings[s]["INCOME"][m]]
        /\ c = [s \in Session |-> takings[s]["EXPENSE"][m]]
        /\ d = [s \in Session |-> a[s] + b[s]]
        /\ h = [s \in Session |-> IncomeBy(takings[s], m) + takings[s]["EXPENSE"][m]]
  OBVIOUS
<1>2. \A s \in Session : a[s] \in Int /\ b[s] \in Int /\ c[s] \in Int
  BY <1>1 DEF CashBookTypeOK, Book, MoveType
<1>3. \A s \in Session : d[s] = a[s] + b[s] /\ d[s] \in Int
  BY <1>1, <1>2
<1>4. \A s \in Session : h[s] = d[s] + c[s]
  BY <1>1, <1>3 DEF IncomeBy
<1>5. SumFunctionOnSet(h, Session) = SumFunctionOnSet(d, Session) + SumFunctionOnSet(c, Session)
  BY <1>2, <1>3, <1>4, SessionFinite, SumPlus
<1>6. SumFunctionOnSet(d, Session) = SumFunctionOnSet(a, Session) + SumFunctionOnSet(b, Session)
  BY <1>2, <1>3, SessionFinite, SumPlus
<1>7. CashReport.byMethod[m] = SumFunctionOnSet(h, Session)
  BY <1>1 DEF CashReport
<1>8. QED
  BY <1>1, <1>5, <1>6, <1>7 DEF Taken

\* What was paid for all sales.
LEMMA PaidInAll ==
    ASSUME TypeInv
    PROVE  SumFunctionOnSet(SalesReport.byMethod, Method) =
             Paid("CASH") + Paid("YAPE") + Paid("MIXED")
<1>1. PICK f : f = SalesReport.byMethod
  OBVIOUS
<1>2. \A m \in Method : f[m] = Paid(m)
  BY <1>1 DEF SalesReport, Paid
<1>3. \A m \in Method : f[m] \in Int
  BY <1>2, PaidIsInt
<1>4. SumFunctionOnSet(f, Method) = f["CASH"] + f["YAPE"] + f["MIXED"]
  BY <1>3, SumOfMethods
<1>5. QED
  BY <1>1, <1>2, <1>4 DEF Method

\* The totals of the cash report, as its sessions and as the documents say.
LEMMA CashTotals ==
    ASSUME ShopInv, MoneyInv
    PROVE  /\ SumMovements("SALE") = SumFunctionOnSet(SalesReport.byMethod, Method)
           /\ SumMovements("INCOME") = QuickTotal(CompletedQuick) - SalesTotal(CancelledSales)
           /\ SumMovements("EXPENSE") = PurchasesTotal(PaidFromTill)
           /\ SumMovements("SALE") \in Int
           /\ QuickTotal(CompletedQuick) \in Int /\ SalesTotal(CancelledSales) \in Int
           /\ SumMovements("EXPENSE") \in Int
<1>1. TypeInv /\ CashBookTypeOK /\ QuickInv /\ BuyInv /\ BooksBalance
  BY DEF ShopInv, TypeInv, TypeOK, MoneyInv
<1>2. {"CASH", "YAPE", "MIXED"} \subseteq Method /\ {"SALE", "INCOME", "EXPENSE"} \subseteq MoveType
  BY DEF Method, MoveType
<1>3. \A m \in Method : Paid(m) \in Int /\ Spent(m) \in Int
  BY <1>1, PaidIsInt, SpentIsInt
<1>4. /\ SumMovements("SALE") = Paid("CASH") + Paid("YAPE") + Paid("MIXED")
      /\ SumMovements("INCOME") = Earned("CASH") + Earned("YAPE") + Earned("MIXED")
      /\ SumMovements("EXPENSE") = Spent("CASH") + Spent("YAPE") + Spent("MIXED")
  BY <1>1, <1>2, MovementsByMethod DEF BooksBalance
<1>5. PICK a, b, c, d : /\ a = QuickTotal(QuickBy("CASH")) /\ b = QuickTotal(QuickBy("YAPE"))
                        /\ c = QuickTotal(QuickBy("MIXED")) /\ d = SalesTotal(CancelledSales)
  OBVIOUS
<1>6. a \in Int /\ b \in Int /\ c \in Int /\ d \in Int
  BY <1>1, <1>5, QuickSums, SaleSums DEF CancelledSales, QuickBy, CompletedQuick
<1>7. Earned("CASH") = a - d /\ Earned("YAPE") = b /\ Earned("MIXED") = c
  BY <1>5, <1>6 DEF Earned
<1>8. QuickTotal(CompletedQuick) = a + b + c
  BY <1>1, <1>5, QuickTotalByMethod
<1>9. SumMovements("INCOME") = (a + b + c) - d
  BY <1>4, <1>6, <1>7
<1>10. SumMovements("SALE") = SumFunctionOnSet(SalesReport.byMethod, Method)
  BY <1>1, <1>4, PaidInAll
<1>11. SumMovements("EXPENSE") = PurchasesTotal(PaidFromTill)
  BY <1>1, <1>4, SpentByMethod
<1>12. SumMovements("SALE") \in Int /\ SumMovements("EXPENSE") \in Int
  BY <1>2, <1>3, <1>4
<1>13. QED
  BY <1>5, <1>6, <1>8, <1>9, <1>10, <1>11, <1>12

\* What is on the shelf and what was sold and kept, at what they cost.
LEMMA GoodsAtCost ==
    ASSUME IsFiniteSet(Product), ShopInv, OnceInv, QuietInv, StockMatchesDocuments
    PROVE  InventoryReport.inventoryValue + Profitability.productCosts =
             AtPurchasePrice([p \in Product |-> InitialStock[p] + Arrived(p) - Fitted(p)])
<1>1. PICK S, u : /\ S = CompletedSales
                  /\ u = [n \in S |-> [p \in Product |-> UnitsOf(sale[n].order.items, p)]]
  OBVIOUS
<1>2. TypeInv /\ BuyInv /\ RepairInv /\ RowsTypeOK
  BY SaleFacts DEF ShopInv
<1>3. S \subseteq Registered
  BY <1>1 DEF CompletedSales
<1>4. IsFiniteSet(S) /\ \A n \in S : sale[n].order \in Order
  BY <1>2, <1>3, SaleSums
<1>5. \A n \in S, p \in Product : u[n][p] \in Int
  BY <1>1, <1>4, TakenIsUnits
<1>6. purchasePrice \in [Product -> Int]
  BY PriceAssumption
<1>7. PICK c : c = purchasePrice
  OBVIOUS
<1> PICK rows, columns :
        /\ columns = [p \in Product |-> [n \in S |-> u[n][p]]]
        /\ rows = [n \in S |-> [p \in Product |-> c[p] * u[n][p]]]
  OBVIOUS
<1>8. PICK f, g, h, d :
        /\ d = [n \in S |-> SumFunctionOnSet(rows[n], Product)]
        /\ f = [p \in Product |-> c[p] * stock[p]]
        /\ g = [p \in Product |-> c[p] * SumFunctionOnSet(columns[p], S)]
        /\ h = [p \in Product |-> c[p] * [q \in Product |-> InitialStock[q] + Arrived(q) - Fitted(q)][p]]
  OBVIOUS
<1>9. SumFunctionOnSet(d, S) = SumFunctionOnSet(g, Product)
  <2>1. c \in [Product -> Int]
    BY <1>6, <1>7
  <2>2. /\ \A n \in S, p \in Product : rows[n][p] = c[p] * u[n][p] /\ columns[p][n] = u[n][p]
        /\ \A n \in S : d[n] = SumFunctionOnSet(rows[n], Product)
        /\ \A p \in Product : g[p] = c[p] * SumFunctionOnSet(columns[p], S)
    BY <1>8
  <2>3. IsFiniteSet(S) /\ \A n \in S, p \in Product : u[n][p] \in Int
    BY <1>4, <1>5
  <2>4. CostTable(S, Product, c, u, rows, columns, d, g)
    BY <2>1, <2>2, <2>3 DEF CostTable
  <2>5. QED
    BY <2>4, SumOfCosts
<1>10. Profitability.productCosts = SumFunctionOnSet(g, Product)
  <2>1. ASSUME NEW n \in S
        PROVE  SaleCost(n) = d[n]
    <3>1. rows[n] = [p \in Product |-> c[p] * [q \in Product |-> UnitsOf(sale[n].order.items, q)][p]]
      BY <1>1, <1>8
    <3>2. QED
      BY <1>7, <1>8, <3>1 DEF SaleCost, AtPurchasePrice
  <2>2. Profitability.productCosts = SumFunctionOnSet([n \in S |-> SaleCost(n)], S)
    BY <1>1 DEF Profitability, SalesCost
  <2>3. [n \in S |-> SaleCost(n)] = d
    BY <1>8, <2>1
  <2>4. QED
    BY <1>9, <2>2, <2>3
<1>11. InventoryReport.inventoryValue = SumFunctionOnSet(f, Product)
  <2>1. {p \in Product : active[p]} = Product
    BY DEF QuietInv
  <2>2. QED
    BY <1>7, <1>8, <2>1 DEF InventoryReport
<1>12. ASSUME NEW p \in Product
       PROVE  f[p] \in Int /\ g[p] \in Int /\ h[p] = f[p] + g[p]
  <2>1. PICK x, y, z, a, i, k : /\ x = stock[p] /\ y = Sold(p) /\ i = InitialStock[p]
                                /\ a = Arrived(p) /\ z = Fitted(p) /\ k = c[p]
    OBVIOUS
  <2>2. y \in Int /\ a \in Int /\ z \in Int
    BY <1>2, <2>1, BackIsSold, DocumentsAreInt
  <2>3. x \in Int /\ i \in Int /\ k \in Int
    BY <1>2, <1>6, <1>7, <2>1, ProductAssumption DEF RowsTypeOK
  <2>4. x = i - y + a - z
    BY <2>1 DEF StockMatchesDocuments
  <2>5. columns[p] = [n \in CompletedSales |-> UnitsOf(sale[n].order.items, p)]
    BY <1>1, <1>8
  <2>6. SumFunctionOnSet(columns[p], S) = y
    BY <1>1, <2>1, <2>5 DEF Sold
  <2>7. f[p] = k * x /\ g[p] = k * y /\ h[p] = k * (i + a - z)
    BY <1>8, <2>1, <2>6
  <2>8. i + a - z = x + y
    BY <2>2, <2>3, <2>4
  <2>9. k * (x + y) = k * x + k * y /\ k * x \in Int /\ k * y \in Int
    BY <2>2, <2>3
  <2>10. QED
    BY <2>7, <2>8, <2>9
<1>13. SumFunctionOnSet(h, Product) = SumFunctionOnSet(f, Product) + SumFunctionOnSet(g, Product)
  BY <1>12, SumPlus
<1>14. AtPurchasePrice([p \in Product |-> InitialStock[p] + Arrived(p) - Fitted(p)]) =
         SumFunctionOnSet(h, Product)
  BY <1>7, <1>8 DEF AtPurchasePrice
<1>15. QED
  BY <1>10, <1>11, <1>13, <1>14

LEMMA GoodsAndMoney ==
    ASSUME IsFiniteSet(Product), ShopInv, OnceInv, QuietInv, MoneyInv, StockMatchesDocuments
    PROVE  GoodsAndMoneyAreAccountedFor
<1>1. TypeInv /\ CashBookTypeOK /\ QuickInv /\ BuyInv /\ BooksBalance
  BY DEF ShopInv, TypeInv, TypeOK, MoneyInv
<1>2. CashReport.income = SumMovements("SALE") + SumMovements("INCOME")
  BY DEF CashReport
<1>3. QuickServicesReport.quickServicesIncome = QuickTotal(CompletedQuick)
  BY DEF QuickServicesReport
<1>4. CashReport.income =
        SumFunctionOnSet(SalesReport.byMethod, Method) + QuickServicesReport.quickServicesIncome
          - SalesTotal(CancelledSales)
  BY <1>2, <1>3, CashTotals
<1>5. CashReport.expenses = PurchasesTotal(PaidFromTill)
  BY CashTotals DEF CashReport
<1>6. ASSUME NEW m \in Method
      PROVE  CashReport.byMethod[m] =
               Summary.paymentMethodSummary[m]
                 + PurchasesTotal({n \in PaidFromTill : purchase[n].supply.method = m})
                 - IF m = "CASH" THEN SalesTotal(CancelledSales) ELSE 0
  <2>1. PICK a, b, c, d : /\ a = Paid(m) /\ b = QuickTotal(QuickBy(m)) /\ c = Spent(m)
                          /\ d = SalesTotal(CancelledSales)
    OBVIOUS
  <2>2. a \in Int /\ b \in Int /\ c \in Int /\ d \in Int
    BY <1>1, <2>1, PaidIsInt, SpentIsInt, QuickSums, SaleSums
       DEF CancelledSales, QuickBy, CompletedQuick
  <2>3. CashReport.byMethod[m] = a + (b - IF m = "CASH" THEN d ELSE 0) + c
    BY <1>1, <2>1, CashByMethod DEF BooksBalance, Earned
  <2>4. SalesReport.byMethod[m] = a
    BY <2>1 DEF SalesReport, Paid
  <2>5. Summary.paymentMethodSummary[m] = SalesReport.byMethod[m] + b
    BY <2>1 DEF Summary, QuickBy
  <2>6. PurchasesTotal({n \in PaidFromTill : purchase[n].supply.method = m}) = c
    BY <2>1 DEF Spent, BoughtBy
  <2>7. QED
    BY <2>1, <2>2, <2>3, <2>4, <2>5, <2>6
<1>7. QED
  BY <1>4, <1>5, <1>6, GoodsAtCost DEF GoodsAndMoneyAreAccountedFor

\* While requests run one at a time: what is on the shelf and what was sold cost
\* what the documents say came, and the tills took in and gave out, in all and by
\* method, what the sales, services and purchases say.
THEOREM ShopGoodsAndMoneyAreAccountedFor ==
    ASSUME OneRequest, IsFiniteSet(Product)
    PROVE  ShopSpec => []GoodsAndMoneyAreAccountedFor
<1>1. ShopInv /\ OnceInv /\ [ShopNext]_shopVars => OnceInv'
  <2>1. OneAdminSlot
    BY DEF OneRequest, OneAdminSlot
  <2>2. QED
    BY <2>1, NextOnce
<1>2. ShopInv /\ ExactInv /\ [ShopNext]_shopVars => ExactInv'
  BY NextExact
<1>3. ShopInv /\ KardexInv /\ [ShopNext]_shopVars => KardexInv'
  BY NextKardex
<1>4. ShopInv /\ ExactInv /\ QuietInv /\ [ShopNext]_shopVars => QuietInv'
  BY NextQuiet
<1>5. ShopInv /\ OnceInv /\ KardexInv /\ MoneyInv /\ [ShopNext]_shopVars => MoneyInv'
  BY NextMoney
<1>6. ShopInv /\ OnceInv /\ QuietInv /\ MoneyInv /\ StockMatchesDocuments
        => GoodsAndMoneyAreAccountedFor
  BY GoodsAndMoney
<1>7. ShopSpec => []StockMatchesDocuments
  BY ShopStockMatchesDocuments
<1>8. QED
  BY <1>1, <1>2, <1>3, <1>4, <1>5, <1>6, <1>7, InitOnce, InitExact, InitKardex, InitQuiet, InitMoney,
     ShopKeepsInvariant, PTL DEF ShopSpec

-----------------------------------------------------------------------------
(* The service orders of the shop, one request at a time: nobody else is at    *)
(* work on an order, as in the workshop.                                       *)

\* Labour and discount of an order, and those that an update states.
CostsInv ==
    /\ \A n \in WorkNumber :
         workOrder[n].contents.labor \in Nat /\ workOrder[n].contents.discount \in Nat
    /\ \A r \in Request : pc[r] = "writeOrder" =>
         /\ repairing[r].what.labor \in Cost \cup {None}
         /\ repairing[r].what.discount \in Cost \cup {None}

WorkshopInv == BenchInv /\ ChargeInv /\ CostsInv

LEMMA OneTechnician ==
    ASSUME OneRequest, WorkNext
    PROVE  OneTechnicianNext
<1>1. PICK r \in Request :
        \/ \E photos \in Photos \cup {0} : StartWorkOrder(r, photos)
        \/ \E n \in WorkReceived : StartWork(r, n)
        \/ WorkStep(r)
        \/ RollbackWork(r)
  BY DEF WorkNext
<1>2. ASSUME NEW n \in WorkReceived, StartWork(r, n)
      PROVE  ~Attended(n)
  <2>1. pc[r] = "idle"
    BY <1>2 DEF StartWork, StartUpdateOrder, StartStage, StartPart, StartRemoveItem, StartPhotos,
                StartDeletePhoto, Step
  <2>2. QED
    BY <2>1 DEF Attended, OneRequest
<1>3. QED
  BY <1>1, <1>2 DEF OneTechnicianNext

\* The other components leave the service orders alone.
LEMMA WorkshopStays ==
    ASSUME OneRequest, WorkshopInv, NEW r \in Request, DOMAIN pc' = Request,
           pc'[r] \notin WorkLabel, UNCHANGED workVars
    PROVE  WorkshopInv'
<1>1. workOrder' = workOrder /\ repairing' = repairing
  BY DEF workVars
<1>2. \A q \in Request : q = r /\ pc'[q] \notin WorkLabel
  BY DEF OneRequest
<1>3. BenchInv'
  <2>1. \A q \in Request : HandlerOK(q)'
    BY <1>2 DEF HandlerOK, TakenLabel, EditLabel, CostLabel, WorkLabel
  <2>2. QED
    BY <1>1, <1>2, <2>1 DEF WorkshopInv, BenchInv
<1>4. ChargeInv'
  <2>1. \A q \in Request : PartAt(q)'
    BY <1>2 DEF PartAt, WorkLabel
  <2>2. QED
    BY <1>1, <2>1 DEF WorkshopInv, ChargeInv
<1>5. CostsInv'
  BY <1>1, <1>2 DEF WorkshopInv, CostsInv, WorkLabel
<1>6. QED
  BY <1>3, <1>4, <1>5 DEF WorkshopInv

\* An order is written with costs that are numbers.
LEMMA CostsWritten ==
    ASSUME OneRequest, BenchInv, CostsInv, NEW r \in Request, pc'[r] # "writeOrder",
           NEW n \in WorkNumber, NEW w, workOrder' = [workOrder EXCEPT ![n] = w],
           w.contents.labor \in Nat, w.contents.discount \in Nat
    PROVE  CostsInv'
<1>1. \A m \in WorkNumber : workOrder'[m] = IF m = n THEN w ELSE workOrder[m]
  BY DEF BenchInv
<1>2. \A q \in Request : pc'[q] # "writeOrder"
  BY DEF OneRequest
<1>3. QED
  BY <1>1, <1>2 DEF CostsInv

LEMMA CostsStay ==
    ASSUME OneRequest, CostsInv, NEW r \in Request, pc'[r] # "writeOrder", workOrder' = workOrder
    PROVE  CostsInv'
  BY DEF CostsInv, OneRequest

LEMMA WorkKeepsCosts ==
    ASSUME OneRequest, BenchInv, CostsInv, WorkNext
    PROVE  CostsInv'
<1>1. PICK r \in Request :
        \/ \E photos \in Photos \cup {0} : StartWorkOrder(r, photos)
        \/ \E n \in WorkReceived : StartWork(r, n)
        \/ WorkStep(r)
        \/ RollbackWork(r)
  BY DEF WorkNext
<1> DEFINE n == repairing[r].number
           w == workOrder[n]
           c == workOrder[n].contents
<1>2. DOMAIN pc = Request /\ DOMAIN repairing = Request
  BY DEF BenchInv
<1>3. ASSUME pc[r] \in WorkLabel
      PROVE  /\ n \in WorkNumber /\ OrderOK(w) /\ c.labor \in Nat /\ c.discount \in Nat
             /\ "contents" \in DOMAIN w /\ {"labor", "discount"} \subseteq DOMAIN c
  <2>1. n \in WorkNumber
    BY <1>3 DEF BenchInv, HandlerOK, TakenLabel, EditLabel, WorkLabel
  <2>2. QED
    BY <2>1 DEF BenchInv, CostsInv, OrderOK
<1>4. \A q \in Request : q = r
  BY <1>1, Zenon DEF OneRequest
<1>5. ASSUME NEW v, v.contents.labor \in Nat, v.contents.discount \in Nat,
             workOrder' = [workOrder EXCEPT ![n] = v], pc[r] \in WorkLabel, pc'[r] # "writeOrder"
      PROVE  CostsInv'
  BY <1>1, <1>3, <1>5, CostsWritten
<1>6. ASSUME NEW k \in WorkReceived, StartWork(r, k)
      PROVE  CostsInv'
  <2>1. CASE \E labor, discount \in Cost \cup {None} : StartUpdateOrder(r, k, labor, discount)
    <3>1. PICK labor \in Cost \cup {None}, discount \in Cost \cup {None} :
            StartUpdateOrder(r, k, labor, discount)
      BY <2>1
    <3>2. repairing'[r].what = [labor |-> labor, discount |-> discount] /\ workOrder' = workOrder
      BY <1>2, <3>1 DEF StartUpdateOrder, Begin
    <3>3. QED
      BY <1>4, <3>2 DEF CostsInv
  <2>2. CASE ~\E labor, discount \in Cost \cup {None} : StartUpdateOrder(r, k, labor, discount)
    <3>1. pc'[r] # "writeOrder" /\ workOrder' = workOrder
      BY <1>2, <1>6, <2>2 DEF StartWork, StartStage, StartPart, StartRemoveItem, StartPhotos,
                              StartDeletePhoto, Step
    <3>2. QED
      BY <1>1, <3>1, CostsStay
  <2>3. QED
    BY <2>1, <2>2
<1>7. ASSUME \/ \E photos \in Photos \cup {0} : StartWorkOrder(r, photos)
             \/ InsertWorkOrder(r) \/ WriteStage(r) \/ ReadPart(r) \/ StorePart(r) \/ WritePart(r)
             \/ CountPhotos(r) \/ RollbackWork(r)
      PROVE  CostsInv'
  <2>1. pc'[r] # "writeOrder" /\ workOrder' = workOrder
    BY <1>2, <1>7 DEF StartWorkOrder, InsertWorkOrder, WriteStage, ReadPart, StorePart, WritePart,
                      CountPhotos, RollbackWork, Step, workVars
  <2>2. QED
    BY <1>1, <2>1, CostsStay
<1>8. ASSUME CommitWorkOrder(r)
      PROVE  CostsInv'
  <2>1. PICK v : /\ v = [status |-> "RECEIVED", delivered |-> FALSE,
                         contents |-> [NoContents EXCEPT !.photos = repairing[r].what]]
                 /\ workOrder' = [workOrder EXCEPT ![n] = v]
    BY <1>8 DEF CommitWorkOrder
  <2>2. v.contents.labor \in Nat /\ v.contents.discount \in Nat
    BY <2>1 DEF NoContents
  <2>3. pc[r] \in WorkLabel /\ pc'[r] # "writeOrder"
    BY <1>2, <1>8 DEF CommitWorkOrder, Step, WorkLabel
  <2>4. QED
    BY <1>5, <2>1, <2>2, <2>3, Zenon
<1>9. ASSUME WriteOrder(r)
      PROVE  CostsInv'
  <2>1. pc[r] = "writeOrder" /\ pc'[r] = "idle"
    BY <1>2, <1>9 DEF WriteOrder, Step
  <2>2. PICK l, d, t : /\ l = Stated(repairing[r].what.labor, c.labor)
                       /\ d = Stated(repairing[r].what.discount, c.discount)
                       /\ workOrder' = [workOrder EXCEPT ![n].contents =
                            [c EXCEPT !.labor = l, !.discount = d, !.total = t]]
    <3> DEFINE total == CalculateTotal(Stated(repairing[r].what.labor, repairing[r].labor),
                                       repairing[r].parts,
                                       Stated(repairing[r].what.discount, repairing[r].discount))
    <3>1. workOrder' = [workOrder EXCEPT ![n].contents =
            [c EXCEPT !.labor = Stated(repairing[r].what.labor, c.labor),
                      !.discount = Stated(repairing[r].what.discount, c.discount),
                      !.total = total]]
      BY <1>9, Zenon DEF WriteOrder
    <3> HIDE DEF total
    <3>2. PICK t : t = total
      OBVIOUS
    <3>3. QED
      BY <3>1, <3>2, Zenon
  <2>3. pc[r] \in WorkLabel
    BY <2>1 DEF WorkLabel
  <2>4. l \in Nat /\ d \in Nat
    BY <1>3, <2>1, <2>2, <2>3, ServiceOrderAssumption DEF CostsInv, Stated
  <2>5. PICK v : v = [w EXCEPT !.contents = [c EXCEPT !.labor = l, !.discount = d, !.total = t]]
    OBVIOUS
  <2>6. v.contents = [c EXCEPT !.labor = l, !.discount = d, !.total = t]
    BY <1>3, <2>3, <2>5
  <2>7. v.contents.labor = l /\ v.contents.discount = d
    BY <1>3, <2>3, <2>6
  <2>8. workOrder' = [workOrder EXCEPT ![n] = v]
    BY <2>2, <2>5
  <2>9. QED
    BY <1>5, <2>1, <2>3, <2>4, <2>7, <2>8
<1>10. ASSUME NEW v, v.contents.labor = c.labor, v.contents.discount = c.discount,
             workOrder' = [workOrder EXCEPT ![n] = v], pc[r] \in WorkLabel, pc'[r] # "writeOrder"
      PROVE  CostsInv'
  BY <1>3, <1>10, <1>5
<1>11. ASSUME CommitStage(r) \/ WriteDelivered(r)
      PROVE  CostsInv'
  <2>1. pc[r] \in WorkLabel /\ pc'[r] # "writeOrder"
    BY <1>2, <1>11 DEF CommitStage, WriteDelivered, Step, WorkLabel
  <2>2. \/ workOrder' = [workOrder EXCEPT ![n].status = repairing[r].what.status]
        \/ workOrder' = [workOrder EXCEPT ![n].delivered = TRUE]
    BY <1>11 DEF CommitStage, WriteDelivered
  <2>3. PICK v : /\ \/ v = [w EXCEPT !.status = repairing[r].what.status]
                    \/ v = [w EXCEPT !.delivered = TRUE]
                 /\ workOrder' = [workOrder EXCEPT ![n] = v]
    BY <2>2
  <2>4. v.contents = c
    BY <1>3, <2>1, <2>3
  <2>5. QED
    BY <1>10, <2>1, <2>3, <2>4
<1>12. ASSUME CommitPart(r) \/ DeleteItem(r) \/ WriteRemoved(r) \/ CommitPhotos(r) \/ DeletePhoto(r)
       PROVE  CostsInv'
  <2>1. pc[r] \in WorkLabel /\ pc'[r] # "writeOrder"
    BY <1>2, <1>12 DEF CommitPart, DeleteItem, WriteRemoved, CommitPhotos, DeletePhoto, Step, WorkLabel
  <2>2. PICK d : /\ d.labor = c.labor /\ d.discount = c.discount
                 /\ workOrder' = [workOrder EXCEPT ![n] = [w EXCEPT !.contents = d]]
    <3>1. CASE CommitPart(r)
      <4> DEFINE parts == repairing[r].parts + Subtotal(repairing[r].what)
                 added == Append(c.items, [part |-> repairing[r].what, kept |-> TRUE])
                 total == CalculateTotal(repairing[r].labor, parts, repairing[r].discount)
      <4>1. workOrder' = [workOrder EXCEPT ![n] = [workOrder[n] EXCEPT !.contents =
              [c EXCEPT !.items = added, !.parts = parts, !.total = total]]]
        BY <3>1, Zenon DEF CommitPart
      <4>2. PICK i, p, t : i = added /\ p = parts /\ t = total
        OBVIOUS
      <4>3. PICK d : d = [c EXCEPT !.items = i, !.parts = p, !.total = t]
        OBVIOUS
      <4>4. d.labor = c.labor /\ d.discount = c.discount
        BY <1>3, <2>1, <4>3
      <4>5. workOrder' = [workOrder EXCEPT ![n] = [w EXCEPT !.contents = d]]
        BY <4>1, <4>2, <4>3, Zenon
      <4>6. QED
        BY <4>4, <4>5
    <3>2. CASE WriteRemoved(r)
      <4>1. PICK i, p, t :
              workOrder' = [workOrder EXCEPT ![n].contents = [c EXCEPT !.parts = p, !.total = t]]
        BY <3>2 DEF WriteRemoved
      <4>2. PICK d : d = [c EXCEPT !.parts = p, !.total = t]
        OBVIOUS
      <4>3. d.labor = c.labor /\ d.discount = c.discount
        BY <1>3, <2>1, <4>2
      <4>4. workOrder' = [workOrder EXCEPT ![n] = [w EXCEPT !.contents = d]]
        BY <4>1, <4>2, Zenon
      <4>5. QED
        BY <4>3, <4>4
    <3>3. CASE CommitPhotos(r) \/ DeletePhoto(r)
      <4>1. PICK photos : workOrder' = [workOrder EXCEPT ![n].contents.photos = photos]
        <5>1. CASE CommitPhotos(r)
          BY <1>3, <2>1, <5>1 DEF CommitPhotos
        <5>2. CASE DeletePhoto(r)
          BY <1>3, <2>1, <5>2 DEF DeletePhoto
        <5>3. QED
          BY <3>3, <5>1, <5>2
      <4>2. PICK d : d = [c EXCEPT !.photos = photos]
        OBVIOUS
      <4>3. d.labor = c.labor /\ d.discount = c.discount
        BY <1>3, <2>1, <4>2
      <4>4. workOrder' = [workOrder EXCEPT ![n] = [w EXCEPT !.contents = d]]
        BY <1>3, <2>1, <4>1, <4>2
      <4>5. QED
        BY <4>3, <4>4
    <3>4. CASE DeleteItem(r)
      <4>1. PICK i, kept : i = repairing[r].what /\ kept = FALSE
        OBVIOUS
      <4>2. workOrder' = [workOrder EXCEPT ![n].contents.items[i].kept = kept]
        BY <3>4, <4>1, Zenon DEF DeleteItem
      <4>3. PICK items : items = [c.items EXCEPT ![i] = [c.items[i] EXCEPT !.kept = kept]]
        OBVIOUS
      <4>4. PICK d : d = [c EXCEPT !.items = items]
        OBVIOUS
      <4>5. d.labor = c.labor /\ d.discount = c.discount
        BY <1>3, <2>1, <4>4
      <4>6. workOrder' = [workOrder EXCEPT ![n] = [w EXCEPT !.contents = d]]
        BY <4>2, <4>3, <4>4, Zenon
      <4>7. QED
        BY <4>5, <4>6
    <3>5. QED
      BY <1>12, <3>1, <3>2, <3>3, <3>4
  <2>3. PICK v : v = [w EXCEPT !.contents = d]
    OBVIOUS
  <2>4. v.contents = d /\ workOrder' = [workOrder EXCEPT ![n] = v]
    BY <1>3, <2>1, <2>2, <2>3
  <2>5. QED
    BY <1>10, <2>1, <2>2, <2>4
<1>13. QED
  BY <1>1, <1>6, <1>7, <1>8, <1>9, <1>11, <1>12 DEF WorkStep

LEMMA NextWorkshop ==
    ASSUME OneRequest, ShopInv, WorkshopInv, [ShopNext]_shopVars
    PROVE  WorkshopInv'
<1>1. TypeInv /\ CodesInv /\ QuickInv /\ BuyInv /\ RepairInv /\ StockNeverNegative
  BY DEF ShopInv, StockInv
<1>2. DOMAIN pc' = Request
  <2>1. ShopInv'
    BY NextShop
  <2>2. TypeInv'
    BY <2>1 DEF ShopInv
  <2>3. QED
    BY <2>2 DEF TypeInv, TypeOK
<1>3. CASE Next /\ UNCHANGED <<purchaseVars, workVars, quickVars>>
  <2>1. PICK r \in Request : pc'[r] \in SaleLabel \cup {"idle"}
    BY <1>1, <1>3, SaleLabels
  <2>2. pc'[r] \notin WorkLabel
    BY <2>1, LabelsApart DEF OtherLabel
  <2>3. QED
    BY <1>2, <1>3, <2>2, WorkshopStays
<1>4. CASE PurchasesNext /\ UNCHANGED <<saleVars, workVars, quickVars>>
  <2>1. PICK r \in Request : BuyKept(r)
    BY <1>1, <1>4, BuyKeeps DEF BuyBefore
  <2>2. pc'[r] \notin WorkLabel
    BY <2>1, LabelsApart DEF BuyKept, OneSlot, OtherLabel
  <2>3. QED
    BY <1>2, <1>4, <2>2, WorkshopStays
<1>5. CASE WorkNext
  <2>1. OneTechnicianNext
    BY <1>5, OneTechnician
  <2>2. BenchInv' /\ ChargeInv'
    BY <2>1, BenchNextFollows, BenchNextCharges DEF WorkshopInv
  <2>3. CostsInv'
    BY <1>5, WorkKeepsCosts DEF WorkshopInv
  <2>4. QED
    BY <2>2, <2>3 DEF WorkshopInv
<1>6. CASE QuickNext /\ UNCHANGED <<rowVars, saleVars, purchaseVars, workVars>>
  <2>1. PICK r \in Request : QuickKept(r)
    BY <1>1, <1>6, QuickKeeps
  <2>2. pc'[r] \notin WorkLabel
    BY <2>1, LabelsApart DEF QuickKept, OneSlot, OtherLabel
  <2>3. QED
    BY <1>2, <1>6, <2>2, WorkshopStays
<1>7. CASE UNCHANGED shopVars
  <2>1. UNCHANGED benchVars /\ pc' = pc /\ workOrder' = workOrder /\ repairing' = repairing
    BY <1>7 DEF shopVars, vars, workVars, benchVars
  <2>2. BenchInv' /\ ChargeInv'
    BY <2>1, BenchNextFollows, BenchNextCharges DEF WorkshopInv
  <2>3. CostsInv'
    BY <2>1 DEF WorkshopInv, CostsInv
  <2>4. QED
    BY <2>2, <2>3 DEF WorkshopInv
<1>8. QED
  BY <1>3, <1>4, <1>5, <1>6, <1>7 DEF ShopNext

LEMMA InitWorkshop == ShopInit => WorkshopInv
<1> SUFFICES ASSUME ShopInit PROVE WorkshopInv
  OBVIOUS
<1>1. /\ \A r \in Request : pc[r] = "idle"
      /\ pc = [r \in Request |-> "idle"]
      /\ workOrder = [n \in WorkNumber |-> NoWorkOrder] /\ repairing = [r \in Request |-> None]
  BY DEF ShopInit, Init, WorkInit
<1>2. BenchInv
  <2>1. OrderOK(NoWorkOrder)
    BY DEF OrderOK, NoWorkOrder, NoContents, CalculateTotal
  <2>2. QED
    BY <1>1, <2>1 DEF BenchInv, HandlerOK, Apart, InsertApart, TakenLabel, EditLabel, CostLabel
<1>3. ChargeInv
  <2>1. ASSUME NEW r \in Request PROVE PartAt(r)
    <3>1. pc[r] = "idle"
      BY <1>1
    <3>2. QED
      BY <3>1 DEF PartAt
  <2>2. ASSUME NEW n \in WorkNumber PROVE ChargeOK(workOrder[n].contents)
    <3>1. PICK c : c = workOrder[n].contents
      OBVIOUS
    <3>2. c.items = <<>> /\ c.parts = 0
      BY <1>1, <3>1 DEF NoWorkOrder, NoContents
    <3>3. <<>> \in Seq(ItemRow)
      OBVIOUS
    <3>4. QED
      BY <3>1, <3>2, <3>3, CostOfNothing DEF ChargeOK
  <2>3. QED
    BY <2>1, <2>2 DEF ChargeInv
<1>4. CostsInv
  BY <1>1 DEF CostsInv, NoWorkOrder, NoContents
<1>5. QED
  BY <1>2, <1>3, <1>4 DEF WorkshopInv

-----------------------------------------------------------------------------
(* The results the owner is shown *)

\* What the sales and services cost is a number.
LEMMA CostsAreInt ==
    ASSUME IsFiniteSet(Product), IsFiniteSet(Service), TypeInv, QuickInv
    PROVE  SalesCost(Registered) \in Int /\ QuicksCost(Served) \in Int
<1>1. ASSUME NEW n \in Registered
      PROVE  SaleCost(n) \in Int
  <2>1. sale[n].order \in Order
    BY <1>1, SaleSums
  <2>2. PICK u : u = [p \in Product |-> UnitsOf(sale[n].order.items, p)]
    OBVIOUS
  <2>3. PICK f : f = [p \in Product |-> purchasePrice[p] * u[p]]
    OBVIOUS
  <2>4. \A p \in Product : u[p] \in Nat
    BY <2>1, <2>2, TakenIsUnits
  <2>5. \A p \in Product : f[p] \in Int
    BY <2>3, <2>4, PriceAssumption
  <2>6. SumFunctionOnSet(f, Product) \in Int
    BY <2>5, SumInt
  <2>7. QED
    BY <2>2, <2>3, <2>6 DEF SaleCost, AtPurchasePrice
<1>2. ASSUME NEW n \in Served
      PROVE  QuickCost(n) \in Int
  <2>1. quick[n].sale \in QuickSale
    BY <1>2, QuickSums DEF ServedOK
  <2>2. quick[n].sale.services \in SUBSET Service
    BY <2>1, QuickAssumption
  <2>3. IsFiniteSet(quick[n].sale.services) /\ \A s \in quick[n].sale.services : costPrice[s] \in Int
    BY <2>2, FS_Subset, PriceAssumption
  <2>4. QED
    BY <2>3, SumInt DEF QuickCost
<1>3. PICK f, g : f = [n \in Registered |-> SaleCost(n)] /\ g = [n \in Served |-> QuickCost(n)]
  OBVIOUS
<1>4. (\A n \in Registered : f[n] \in Int) /\ \A n \in Served : g[n] \in Int
  BY <1>1, <1>2, <1>3
<1>5. IsFiniteSet(Registered) /\ IsFiniteSet(Served)
  BY RegisteredFinite, QuickSums
<1>6. QED
  BY <1>3, <1>4, <1>5, SumInt DEF SalesCost, QuicksCost

\* The costs of an order, and that it asks for no less than them.
LEMMA WorkSums ==
    ASSUME WorkshopInv, NEW ns, ns \subseteq WorkReceived
    PROVE  /\ IsFiniteSet(ns) /\ Cardinality(ns) \in Nat /\ WorkTotal(ns) \in Int
           /\ \A n \in ns :
                LET c == workOrder[n].contents
                IN  /\ workOrder[n].status \in WorkStatus
                    /\ c.labor \in Nat /\ c.parts \in Int /\ c.discount \in Nat /\ c.total \in Int
                    /\ c.items \in Seq(ItemRow) /\ c.parts >= PartsCost(c.items)
                    /\ c.total = CalculateTotal(c.labor, c.parts, c.discount)
                    /\ c.labor + c.parts <= c.total + c.discount
<1>1. IsFiniteSet(ns) /\ ns \subseteq WorkNumber
  <2>1. IsFiniteSet(WorkNumber)
    BY FS_Interval, ServiceOrderAssumption DEF WorkNumber
  <2>2. ns \in SUBSET WorkNumber
    BY DEF WorkReceived
  <2>3. QED
    BY <2>1, <2>2, FS_Subset
<1>2. ASSUME NEW n \in ns
      PROVE  LET c == workOrder[n].contents
             IN  /\ workOrder[n].status \in WorkStatus
                 /\ c.labor \in Nat /\ c.parts \in Int /\ c.discount \in Nat /\ c.total \in Int
                 /\ c.items \in Seq(ItemRow) /\ c.parts >= PartsCost(c.items)
                 /\ c.total = CalculateTotal(c.labor, c.parts, c.discount)
                 /\ c.labor + c.parts <= c.total + c.discount
  <2>1. PICK c : c = workOrder[n].contents
    OBVIOUS
  <2>2. n \in WorkNumber /\ n \in WorkReceived
    BY <1>1, <1>2
  <2>3. c.labor \in Nat /\ c.discount \in Nat
    BY <2>1, <2>2 DEF WorkshopInv, CostsInv
  <2>4. c.parts \in Int /\ c.items \in Seq(ItemRow) /\ c.parts >= PartsCost(c.items)
    BY <2>1, <2>2 DEF WorkshopInv, ChargeInv, ChargeOK
  <2>5. OrderOK(workOrder[n])
    BY <2>2 DEF WorkshopInv, BenchInv
  <2>6. workOrder[n].status \in WorkStatus
    BY <2>2, <2>5 DEF OrderOK, WorkReceived
  <2>7. c.total = CalculateTotal(c.labor, c.parts, c.discount)
    BY <2>1, <2>5 DEF OrderOK
  <2>8. PICK l, p, d : l = c.labor /\ p = c.parts /\ d = c.discount
    OBVIOUS
  <2>9. CalculateTotal(l, p, d) \in Int /\ l + p <= CalculateTotal(l, p, d) + d
    BY <2>3, <2>4, <2>8 DEF CalculateTotal
  <2>10. QED
    BY <2>1, <2>3, <2>4, <2>6, <2>7, <2>8, <2>9
<1>3. PICK f : f = [n \in ns |-> workOrder[n].contents.total]
  OBVIOUS
<1>4. \A n \in ns : f[n] \in Int
  BY <1>2, <1>3
<1>5. SumFunctionOnSet(f, ns) \in Int
  BY <1>1, <1>4, SumInt
<1>6. Cardinality(ns) \in Nat
  BY <1>1, FS_CardinalityType
<1>7. QED
  BY <1>1, <1>2, <1>3, <1>5, <1>6 DEF WorkTotal

\* The sales are those that stand and those cancelled.
LEMMA SalesByStatus ==
    ASSUME TypeInv
    PROVE  /\ SalesTotal(Registered) = SalesTotal(CompletedSales) + SalesTotal(CancelledSales)
           /\ SalesTotal(CompletedSales) \in Int /\ SalesTotal(CancelledSales) \in Int
<1>1. PICK S, A, B : S = Registered /\ A = CompletedSales /\ B = CancelledSales
  OBVIOUS
<1>2. A \subseteq S /\ B = S \ A
  BY <1>1 DEF CompletedSales, CancelledSales
<1>3. /\ IsFiniteSet(S) /\ IsFiniteSet(A) /\ IsFiniteSet(B)
      /\ \A n \in S : sale[n].order.total \in Int
      /\ SalesTotal(A) \in Int /\ SalesTotal(B) \in Int
  BY <1>1, <1>2, SaleSums
<1>4. PICK f, a, b : /\ f = [n \in S |-> sale[n].order.total]
                     /\ a = [n \in A |-> sale[n].order.total]
                     /\ b = [n \in B |-> sale[n].order.total]
  OBVIOUS
<1>5. \A n \in S : f[n] \in Int
  BY <1>3, <1>4
<1>6. SumFunctionOnSet(f, S) = SumFunctionOnSet(f, A) + SumFunctionOnSet(f, B)
  BY <1>2, <1>3, <1>5, SumUnion
<1>7. (\A n \in A : f[n] = a[n]) /\ \A n \in B : f[n] = b[n]
  BY <1>2, <1>4
<1>8. SumFunctionOnSet(f, A) = SumFunctionOnSet(a, A) /\ SumFunctionOnSet(f, B) = SumFunctionOnSet(b, B)
  BY <1>3, <1>7, SumSame
<1>9. QED
  BY <1>1, <1>3, <1>4, <1>6, <1>8 DEF SalesTotal

LEMMA ResultsAdd ==
    ASSUME IsFiniteSet(Product), IsFiniteSet(Service), ShopInv, MoneyInv, WorkshopInv
    PROVE  ResultsAreCashPlusOwed
<1>1. TypeInv /\ QuickInv /\ BuyInv
  BY DEF ShopInv
<1>2. PICK a, x, t, q, e, i, s, k, w, b :
        /\ a = SalesTotal(CompletedSales) /\ x = SalesTotal(CancelledSales)
        /\ t = SalesTotal(Registered) /\ q = QuickTotal(CompletedQuick)
        /\ e = SumMovements("EXPENSE") /\ i = SumMovements("INCOME") /\ s = SumMovements("SALE")
        /\ k = SalesCost(Registered) + QuicksCost(Served)
        /\ w = WorkTotal(WorkIn({"READY", "DELIVERED"})) /\ b = PurchasesTotal(ActivePurchases)
  OBVIOUS
<1>3. PICK owed, result :
        /\ owed = SalesTotal(Registered) - SumFunctionOnSet(SalesReport.byMethod, Method)
        /\ result = Dashboard.netCashToday + (SalesTotal(Registered)
                      - SumFunctionOnSet(SalesReport.byMethod, Method))
  OBVIOUS
<1>4. /\ a \in Int /\ x \in Int /\ q \in Int /\ e \in Int /\ s \in Int
      /\ t = a + x /\ i = q - x /\ owed = t - s
  BY <1>1, <1>2, <1>3, SalesByStatus, CashTotals
<1>5. k \in Int
  <2>1. SalesCost(Registered) \in Int /\ QuicksCost(Served) \in Int
    BY <1>1, CostsAreInt
  <2>2. QED
    BY <1>2, <2>1
<1>6. w \in Int /\ b \in Int
  <2>1. WorkIn({"READY", "DELIVERED"}) \subseteq WorkReceived /\ ActivePurchases \subseteq Ordered
    BY DEF WorkIn, ActivePurchases
  <2>2. QED
    BY <1>1, <1>2, <2>1, WorkSums, PurchaseSums
<1>7. result = s + i - e + owed
  BY <1>2, <1>3 DEF Dashboard
<1>8. result = a + q - e
  BY <1>4, <1>7
<1>9. Dashboard.netProfitEstimated = result
  BY <1>2, <1>8 DEF Dashboard
<1>10. ProfitabilityBasic.estimatedGrossProfit + ProfitabilityBasic.estimatedCosts = result
  <2>1. CashReport.expenses = e
    BY <1>2 DEF CashReport
  <2>2. /\ ProfitabilityBasic.estimatedGrossProfit =
             (SalesTotal(CompletedSales) + QuickTotal(CompletedQuick))
               - (SalesCost(Registered) + QuicksCost(Served)) - CashReport.expenses
        /\ ProfitabilityBasic.estimatedCosts = SalesCost(Registered) + QuicksCost(Served)
    BY DEF ProfitabilityBasic
  <2>3. ProfitabilityBasic.estimatedGrossProfit = a + q - k - e /\ ProfitabilityBasic.estimatedCosts = k
    BY <1>2, <1>4, <1>5, <2>1, <2>2
  <2>4. (a + q - k - e) + k = a + q - e
    BY <1>4, <1>5
  <2>5. QED
    BY <1>8, <2>3, <2>4
<1>11. ASSUME NEW c, c \in {BusinessContext, LocalContext}
       PROVE  c.rows.incomeMonth + QuickServicesReport.quickServicesIncome
                = result + Summary.totalExpenses
  <2>1. ASSUME NEW take
        PROVE  ContextRows(take).incomeMonth = a
    BY <1>2 DEF ContextRows
  <2>2. c.rows.incomeMonth = a
    <3>1. BusinessContext.rows = ContextRows(maxContextItems) /\ LocalContext.rows = ContextRows(15)
      BY DEF BusinessContext, LocalContext
    <3>2. QED
      BY <1>11, <2>1, <3>1
  <2>3. Summary.totalExpenses = e
    BY <1>2 DEF Summary, SummaryCounts
  <2>4. QuickServicesReport.quickServicesIncome = q
    BY <1>2 DEF QuickServicesReport
  <2>5. a + q = (a + q - e) + e
    BY <1>4
  <2>6. QED
    BY <1>8, <2>2, <2>3, <2>4, <2>5
<1>12. Summary.netIncome = result
         + Summary.totalServiceOrdersAmount - PurchasesReport.totalPurchasedAmount
  <2>1. Summary.netIncome = a + q + w - b - e /\ Summary.totalServiceOrdersAmount = w
    BY <1>2 DEF Summary, SummaryCounts
  <2>2. PurchasesReport.totalPurchasedAmount = b
    BY <1>2 DEF PurchasesReport
  <2>3. a + q + w - b - e = (a + q - e) + w - b
    BY <1>4, <1>6
  <2>4. QED
    BY <1>8, <2>1, <2>2, <2>3
<1>13. QED
  BY <1>3, <1>9, <1>10, <1>11, <1>12 DEF ResultsAreCashPlusOwed

-----------------------------------------------------------------------------
(* The receipts *)

\* A receipt names the methods that paid something: they paid everything.
LEMMA PaidOnReceipt ==
    ASSUME NEW pays \in [Method -> Nat]
    PROVE  SumFunctionOnSet(pays, {m \in Method : pays[m] > 0}) =
             pays["CASH"] + pays["YAPE"] + pays["MIXED"]
<1>1. PICK A, B : A = {m \in Method : pays[m] > 0} /\ B = Method \ A
  OBVIOUS
<1>2. IsFiniteSet(Method) /\ A \subseteq Method /\ IsFiniteSet(B)
  <2>1. IsFiniteSet(Method)
    <3>1. Method = ({"CASH"} \cup {"YAPE"}) \cup {"MIXED"}
      BY DEF Method
    <3>2. QED
      BY <3>1, FS_Singleton, FS_Union
  <2>2. A \subseteq Method /\ B \subseteq Method
    BY <1>1
  <2>3. QED
    BY <2>1, <2>2, FS_Subset
<1>3. (\A m \in Method : pays[m] \in Int) /\ \A m \in B : pays[m] = 0
  BY <1>1
<1>4. SumFunctionOnSet(pays, Method) = SumFunctionOnSet(pays, A) + SumFunctionOnSet(pays, B)
  BY <1>1, <1>2, <1>3, SumUnion
<1>5. SumFunctionOnSet(pays, B) = 0
  BY <1>2, <1>3, SumZero
<1>6. SumFunctionOnSet(pays, A) \in Int
  <2>1. IsFiniteSet(A) /\ \A m \in A : pays[m] \in Int
    BY <1>2, <1>3, FS_Subset
  <2>2. QED
    BY <2>1, SumInt
<1>7. SumFunctionOnSet(pays, Method) = pays["CASH"] + pays["YAPE"] + pays["MIXED"]
  BY <1>3, SumOfMethods
<1>8. QED
  BY <1>1, <1>4, <1>5, <1>6, <1>7

\* What the receipts leave unpaid is what is owed.
LEMMA UnpaidIsOwed ==
    ASSUME TypeInv
    PROVE  LET unpaid == [n \in Registered |-> SaleReceipt(n).total
                            - SumFunctionOnSet(sale[n].order.pays, SaleReceipt(n).methods)]
           IN  SumFunctionOnSet(unpaid, Registered) =
                 SalesTotal(Registered) - SumFunctionOnSet(SalesReport.byMethod, Method)
<1>1. PICK S, u : /\ S = Registered
                  /\ u = [n \in Registered |-> SaleReceipt(n).total
                            - SumFunctionOnSet(sale[n].order.pays, SaleReceipt(n).methods)]
  OBVIOUS
<1>2. PICK t, a, b, c : /\ t = [n \in S |-> sale[n].order.total] /\ a = PaidBy("CASH")
                        /\ b = PaidBy("YAPE") /\ c = PaidBy("MIXED")
  OBVIOUS
<1>3. IsFiniteSet(S) /\ \A n \in S : /\ sale[n].order \in Order
                                     /\ \A m \in Method : sale[n].order.pays[m] \in Int
  BY <1>1, SaleSums
<1>4. ASSUME NEW n \in S
      PROVE  /\ t[n] \in Int /\ a[n] \in Int /\ b[n] \in Int /\ c[n] \in Int
             /\ u[n] = t[n] - (a[n] + b[n] + c[n])
  <2>1. PICK pays : pays = sale[n].order.pays
    OBVIOUS
  <2>2. pays \in [Method -> Nat] /\ sale[n].order.total \in Nat
    BY <1>3, <2>1, SalesAssumption DEF OrderType
  <2>3. a[n] = pays["CASH"] /\ b[n] = pays["YAPE"] /\ c[n] = pays["MIXED"]
        /\ t[n] = sale[n].order.total
    BY <1>1, <1>2, <2>1 DEF PaidBy
  <2>4. SaleReceipt(n).total = sale[n].order.total
        /\ SaleReceipt(n).methods = {m \in Method : pays[m] > 0}
    BY <2>1 DEF SaleReceipt
  <2>5. u[n] = sale[n].order.total - SumFunctionOnSet(pays, {m \in Method : pays[m] > 0})
    BY <1>1, <2>1, <2>4
  <2>6. SumFunctionOnSet(pays, {m \in Method : pays[m] > 0}) =
          pays["CASH"] + pays["YAPE"] + pays["MIXED"]
    BY <2>2, PaidOnReceipt
  <2>7. pays["CASH"] \in Int /\ pays["YAPE"] \in Int /\ pays["MIXED"] \in Int
    BY <2>2 DEF Method
  <2>8. QED
    BY <2>2, <2>3, <2>5, <2>6, <2>7
<1>5. PICK j, k : j = [n \in S |-> a[n] + b[n]] /\ k = [n \in S |-> (a[n] + b[n]) + c[n]]
  OBVIOUS
<1>6. \A n \in S : /\ j[n] = a[n] + b[n] /\ j[n] \in Int
                   /\ k[n] = j[n] + c[n] /\ k[n] \in Int
                   /\ t[n] = u[n] + k[n] /\ u[n] \in Int
  BY <1>4, <1>5
<1>7. SumFunctionOnSet(j, S) = SumFunctionOnSet(a, S) + SumFunctionOnSet(b, S)
  BY <1>3, <1>4, <1>6, SumPlus
<1>8. SumFunctionOnSet(k, S) = SumFunctionOnSet(j, S) + SumFunctionOnSet(c, S)
  BY <1>3, <1>4, <1>6, SumPlus
<1>9. SumFunctionOnSet(t, S) = SumFunctionOnSet(u, S) + SumFunctionOnSet(k, S)
  BY <1>3, <1>6, SumPlus
<1>10. SumFunctionOnSet(k, S) = SumFunctionOnSet(SalesReport.byMethod, Method)
  BY <1>1, <1>2, <1>7, <1>8, PaidInAll DEF Paid
<1>11. SumFunctionOnSet(t, S) = SalesTotal(Registered)
  BY <1>1, <1>2 DEF SalesTotal
<1>12. SumFunctionOnSet(u, S) \in Int /\ SumFunctionOnSet(k, S) \in Int
  BY <1>3, <1>6, SumInt
<1>13. SumFunctionOnSet(u, S) = SalesTotal(Registered) - SumFunctionOnSet(SalesReport.byMethod, Method)
  BY <1>9, <1>10, <1>11, <1>12
<1>14. QED
  BY <1>1, <1>13

\* The receipts that do not say cancelled are those of what stands.
LEMMA ValidReceipts ==
    ASSUME TypeInv, QuickInv
    PROVE  LET valid == {n \in Registered : SaleReceipt(n).status # "CANCELLED"}
               served == {n \in Served : QuickReceipt(n).status # "CANCELLED"}
           IN  /\ SumFunctionOnSet([n \in valid |-> SaleReceipt(n).total], valid)
                    = SalesTotal(CompletedSales)
               /\ SumFunctionOnSet([n \in served |-> QuickReceipt(n).total], served)
                    = QuickTotal(CompletedQuick)
<1>1. \A n \in Registered : sale[n].status \in {"COMPLETED", "CANCELLED"}
  BY SaleSums DEF SaleRow
<1>2. \A n \in Served : quick[n].status \in {"COMPLETED", "CANCELLED"}
  BY QuickSums DEF ServedOK
<1>3. PICK valid, served :
        /\ valid = {n \in Registered : SaleReceipt(n).status # "CANCELLED"}
        /\ served = {n \in Served : QuickReceipt(n).status # "CANCELLED"}
  OBVIOUS
<1>4. /\ \A n : SaleReceipt(n).status = sale[n].status /\ SaleReceipt(n).total = sale[n].order.total
      /\ \A n : QuickReceipt(n).status = quick[n].status /\ QuickReceipt(n).total = quick[n].sale.total
  BY DEF SaleReceipt, QuickReceipt
<1>5. valid = CompletedSales /\ served = CompletedQuick
  BY <1>1, <1>2, <1>3, <1>4 DEF CompletedSales, CompletedQuick
<1>6. /\ [n \in valid |-> SaleReceipt(n).total] = [n \in CompletedSales |-> sale[n].order.total]
      /\ [n \in served |-> QuickReceipt(n).total] = [n \in CompletedQuick |-> quick[n].sale.total]
  BY <1>4, <1>5
<1>7. QED
  BY <1>3, <1>5, <1>6 DEF SalesTotal, QuickTotal

\* The items on an order cost no less than nothing.
LEMMA PartsCostNat ==
    ASSUME NEW items \in Seq(ItemRow)
    PROVE  PartsCost(items) \in Nat
<1>1. PICK f, S : /\ PartsCost(items) = SumFunctionOnSet(f, S) /\ PartsCost(items) \in Int
                  /\ S = {i \in 1..Len(items) : items[i].kept} /\ IsFiniteSet(S)
                  /\ \A i \in 1..Len(items) : f[i] = Subtotal(items[i].part) /\ f[i] \in Int
  BY CostFacts
<1>2. \A i \in 1..Len(items) : items[i].part \in Part
  <2>1. \A i \in 1..Len(items) : items[i] \in ItemRow
    BY ElementOfSeq
  <2>2. QED
    BY <2>1 DEF ItemRow
<1>3. \A part \in Part : Subtotal(part) \in Nat
  <2>1. ASSUME NEW part \in Part PROVE Subtotal(part) \in Nat
    <3>1. part.quantity \in Nat /\ part.price \in Nat
      BY ServiceOrderAssumption
    <3>2. PICK q, p : q = part.quantity /\ p = part.price
      OBVIOUS
    <3>3. q * p \in Nat
      BY <3>1, <3>2
    <3>4. QED
      BY <3>2, <3>3 DEF Subtotal
  <2>2. QED
    BY <2>1
<1>4. PICK z : z = [i \in S |-> 0]
  OBVIOUS
<1>5. \A i \in S : f[i] \in Int /\ z[i] \in Int /\ z[i] <= f[i] /\ z[i] = 0
  BY <1>1, <1>2, <1>3, <1>4
<1>6. SumFunctionOnSet(z, S) <= SumFunctionOnSet(f, S) /\ SumFunctionOnSet(z, S) = 0
  BY <1>1, <1>5, SumMonotone, SumZero
<1>7. QED
  BY <1>1, <1>6

\* The receipt of a service order.
LEMMA WorkReceiptAgrees ==
    ASSUME WorkshopInv, NEW n \in WorkReceived
    PROVE  LET w == WorkReceipt(n)
               shown == SumFunctionOnSet(w.rows, DOMAIN w.rows)
           IN  w.total >= w.subtotal - w.discount /\ shown <= w.subtotal
<1>1. PICK c : c = workOrder[n].contents
  OBVIOUS
<1>2. PICK l, p, d, t, items :
        l = c.labor /\ p = c.parts /\ d = c.discount /\ t = c.total /\ items = c.items
  OBVIOUS
<1>3. /\ l \in Nat /\ p \in Int /\ d \in Nat /\ t \in Int /\ items \in Seq(ItemRow)
      /\ p >= PartsCost(items) /\ t = CalculateTotal(l, p, d) /\ l + p <= t + d
  BY <1>1, <1>2, WorkSums
<1>4. PartsCost(items) \in Nat
  BY <1>3, PartsCostNat
<1>5. PICK w, rows : w = WorkReceipt(n) /\ rows = WorkReceipt(n).rows
  OBVIOUS
<1>6. PICK kept : kept = {i \in DOMAIN items : items[i].kept}
  OBVIOUS
<1>7. /\ w.total = t /\ w.subtotal = l + p /\ w.discount = d
      /\ rows = IF kept = {} THEN <<t>> ELSE [i \in kept |-> Subtotal(items[i].part)]
  BY <1>1, <1>2, <1>5, <1>6 DEF WorkReceipt
<1>8. w.total >= w.subtotal - w.discount
  BY <1>3, <1>7
<1>9. SumFunctionOnSet(rows, DOMAIN rows) <= l + p
  <2>1. CASE kept = {}
    <3>1. rows = <<t>>
      BY <1>7, <2>1
    <3>2. DOMAIN rows = {1} /\ rows[1] = t
      BY <3>1
    <3>3. SumFunctionOnSet(rows, {1}) = t
      BY <1>3, <3>2, SumOne
    <3>4. t <= l + p
      BY <1>3, <1>4 DEF CalculateTotal
    <3>5. QED
      BY <3>2, <3>3, <3>4
  <2>2. CASE kept # {}
    <3>1. PICK f, S : /\ PartsCost(items) = SumFunctionOnSet(f, S)
                      /\ S = {i \in 1..Len(items) : items[i].kept} /\ IsFiniteSet(S)
                      /\ \A i \in 1..Len(items) : f[i] = Subtotal(items[i].part) /\ f[i] \in Int
      BY <1>3, CostFacts
    <3>2. S = kept
      BY <1>3, <1>6, <3>1
    <3>3. rows = [i \in kept |-> Subtotal(items[i].part)]
      BY <1>7, <2>2
    <3>4. DOMAIN rows = S /\ \A i \in S : rows[i] = f[i]
      BY <3>1, <3>2, <3>3
    <3>5. SumFunctionOnSet(rows, S) = SumFunctionOnSet(f, S)
      BY <3>1, <3>4, SumSame
    <3>6. QED
      BY <1>3, <1>4, <3>1, <3>4, <3>5
  <2>3. QED
    BY <2>1, <2>2
<1>10. QED
  BY <1>5, <1>7, <1>8, <1>9

LEMMA ReceiptsAdd ==
    ASSUME ShopInv, MoneyInv, WorkshopInv
    PROVE  ReceiptsAgree
<1>1. TypeInv /\ QuickInv
  BY DEF ShopInv
<1>2. PICK a, x, t, q, s, u, v, g :
        /\ a = SalesTotal(CompletedSales) /\ x = SalesTotal(CancelledSales)
        /\ t = SalesTotal(Registered) /\ q = QuickTotal(CompletedQuick) /\ s = SumMovements("SALE")
        /\ u = SumFunctionOnSet([n \in Registered |-> SaleReceipt(n).total
                 - SumFunctionOnSet(sale[n].order.pays, SaleReceipt(n).methods)], Registered)
        /\ v = SumFunctionOnSet([n \in {n \in Registered : SaleReceipt(n).status # "CANCELLED"}
                 |-> SaleReceipt(n).total], {n \in Registered : SaleReceipt(n).status # "CANCELLED"})
        /\ g = SumFunctionOnSet([n \in {n \in Served : QuickReceipt(n).status # "CANCELLED"}
                 |-> QuickReceipt(n).total], {n \in Served : QuickReceipt(n).status # "CANCELLED"})
  OBVIOUS
<1>3. a \in Int /\ x \in Int /\ q \in Int /\ s \in Int /\ t = a + x
  BY <1>1, <1>2, SalesByStatus, CashTotals
<1>4. u = t - s
  BY <1>1, <1>2, UnpaidIsOwed, CashTotals
<1>5. v = a /\ g = q
  BY <1>1, <1>2, ValidReceipts
<1>6. CashReport.income = s + (q - x)
  <2>1. CashReport.income = SumMovements("SALE") + SumMovements("INCOME")
    BY DEF CashReport
  <2>2. QED
    BY <1>2, <1>3, <2>1, CashTotals
<1>7. v + g = CashReport.income + u
  BY <1>3, <1>4, <1>5, <1>6
<1>8. \A n \in WorkReceived :
        LET w == WorkReceipt(n)
            shown == SumFunctionOnSet(w.rows, DOMAIN w.rows)
        IN  w.total >= w.subtotal - w.discount /\ shown <= w.subtotal
  BY WorkReceiptAgrees
<1>9. QED
  BY <1>2, <1>7, <1>8, Zenon DEF ReceiptsAgree

-----------------------------------------------------------------------------
(* The service orders in the reports *)

\* Orders in one status or another.
LEMMA WorkInEither ==
    ASSUME WorkshopInv, NEW A, NEW B, A \cap B = {}
    PROVE  /\ Cardinality(WorkIn(A \cup B)) = Cardinality(WorkIn(A)) + Cardinality(WorkIn(B))
           /\ Cardinality(WorkIn(A)) \in Nat /\ Cardinality(WorkIn(B)) \in Nat
           /\ WorkTotal(WorkIn(A \cup B)) = WorkTotal(WorkIn(A)) + WorkTotal(WorkIn(B))
<1>1. PICK S, T, U : S = WorkIn(A) /\ T = WorkIn(B) /\ U = WorkIn(A \cup B)
  OBVIOUS
<1>2. /\ U = S \cup T /\ S \cap T = {} /\ T = U \ S /\ S \subseteq U
      /\ S \subseteq WorkReceived /\ T \subseteq WorkReceived /\ U \subseteq WorkReceived
  BY <1>1 DEF WorkIn
<1>3. /\ IsFiniteSet(S) /\ IsFiniteSet(T) /\ IsFiniteSet(U)
      /\ Cardinality(S) \in Nat /\ Cardinality(T) \in Nat
      /\ \A n \in U : workOrder[n].contents.total \in Int
  BY <1>2, WorkSums
<1>4. Cardinality(U) = Cardinality(S) + Cardinality(T)
  <2>1. Cardinality(U) = Cardinality(S) + Cardinality(T) - Cardinality(S \cap T)
    BY <1>2, <1>3, FS_Union
  <2>2. Cardinality(S \cap T) = 0
    BY <1>2, FS_EmptySet
  <2>3. QED
    BY <1>3, <2>1, <2>2
<1>5. PICK f, g, h : /\ f = [n \in U |-> workOrder[n].contents.total]
                     /\ g = [n \in S |-> workOrder[n].contents.total]
                     /\ h = [n \in T |-> workOrder[n].contents.total]
  OBVIOUS
<1>6. /\ \A n \in U : f[n] \in Int
      /\ \A n \in S : f[n] = g[n]
      /\ \A n \in T : f[n] = h[n]
  BY <1>2, <1>3, <1>5
<1>7. SumFunctionOnSet(f, U) = SumFunctionOnSet(f, S) + SumFunctionOnSet(f, T)
  BY <1>2, <1>3, <1>6, SumUnion
<1>8. SumFunctionOnSet(f, S) = SumFunctionOnSet(g, S) /\ SumFunctionOnSet(f, T) = SumFunctionOnSet(h, T)
  BY <1>3, <1>6, SumSame
<1>9. QED
  BY <1>1, <1>3, <1>4, <1>5, <1>7, <1>8 DEF WorkTotal

LEMMA OrdersAdd ==
    ASSUME WorkshopInv
    PROVE  OrdersAgree
<1>1. PICK report : report = ServiceOrdersReport
  OBVIOUS
<1>2. /\ report.pendingOrders = Cardinality(WorkIn(PendingWork))
      /\ report.totalOrders = Cardinality(WorkReceived)
      /\ report.ordersByStatus = OrdersByStatus
      /\ report.serviceOrderIncome = WorkTotal(WorkIn({"DELIVERED"}))
  BY <1>1 DEF ServiceOrdersReport
<1>3. /\ Cardinality(WorkIn(PendingWork)) =
           Cardinality(WorkIn(PendingWork \ {"READY"})) + Cardinality(WorkIn({"READY"}))
      /\ Cardinality(WorkIn(PendingWork)) \in Nat
  <2>1. PICK A, B : A = PendingWork \ {"READY"} /\ B = {"READY"}
    OBVIOUS
  <2>2. A \cap B = {} /\ A \cup B = PendingWork
    BY <2>1 DEF PendingWork
  <2>3. /\ Cardinality(WorkIn(A \cup B)) = Cardinality(WorkIn(A)) + Cardinality(WorkIn(B))
        /\ Cardinality(WorkIn(A)) \in Nat /\ Cardinality(WorkIn(B)) \in Nat
    BY <2>2, WorkInEither
  <2>4. Cardinality(WorkIn(A)) + Cardinality(WorkIn(B)) \in Nat
    BY <2>3
  <2>5. QED
    BY <2>1, <2>2, <2>3, <2>4, Zenon
<1>4. report.pendingOrders = BusinessContext.pending + Dashboard.serviceOrdersReady
  BY <1>2, <1>3 DEF BusinessContext, ContextPending, Dashboard
<1>5. report.totalOrders
        = report.pendingOrders + report.ordersByStatus["DELIVERED"]
            + report.ordersByStatus["CANCELLED"]
  <2>1. PICK A, B, C, D : /\ A = PendingWork /\ B = {"DELIVERED"} /\ C = {"CANCELLED"}
                          /\ D = PendingWork \cup {"DELIVERED"}
    OBVIOUS
  <2>2. A \cap B = {} /\ D = A \cup B /\ D \cap C = {} /\ D \cup C = WorkStatus
    BY <2>1 DEF PendingWork, WorkStatus
  <2>3. Cardinality(WorkIn(A \cup B)) = Cardinality(WorkIn(A)) + Cardinality(WorkIn(B))
    BY <2>2, WorkInEither
  <2>4. Cardinality(WorkIn(D \cup C)) = Cardinality(WorkIn(D)) + Cardinality(WorkIn(C))
    BY <2>2, WorkInEither
  <2>5. WorkIn(WorkStatus) = WorkReceived
    BY WorkSums DEF WorkIn
  <2>6. /\ report.ordersByStatus["DELIVERED"] = Cardinality(WorkIn(B))
        /\ report.ordersByStatus["CANCELLED"] = Cardinality(WorkIn(C))
    BY <1>2, <2>1 DEF OrdersByStatus, WorkStatus
  <2>7. QED
    BY <1>2, <2>1, <2>2, <2>3, <2>4, <2>5, <2>6
<1>6. report.serviceOrderIncome + WorkTotal(WorkIn({"READY"})) = Summary.totalServiceOrdersAmount
  <2>1. PICK A, B : A = {"DELIVERED"} /\ B = {"READY"}
    OBVIOUS
  <2>2. A \cap B = {} /\ A \cup B = {"READY", "DELIVERED"}
    BY <2>1
  <2>3. WorkTotal(WorkIn(A \cup B)) = WorkTotal(WorkIn(A)) + WorkTotal(WorkIn(B))
    BY <2>2, WorkInEither
  <2>4. Summary.totalServiceOrdersAmount = WorkTotal(WorkIn({"READY", "DELIVERED"}))
    BY DEF Summary
  <2>5. QED
    BY <1>2, <2>1, <2>2, <2>3, <2>4
<1>7. report.laborTotal + report.partsTotal - report.discountTotal
        <= WorkTotal(WorkReceived \ WorkIn({"CANCELLED"}))
  <2>1. PICK S : S = WorkReceived \ WorkIn({"CANCELLED"})
    OBVIOUS
  <2>2. PICK l, p, d, t : /\ l = [n \in S |-> workOrder[n].contents.labor]
                          /\ p = [n \in S |-> workOrder[n].contents.parts]
                          /\ d = [n \in S |-> workOrder[n].contents.discount]
                          /\ t = [n \in S |-> workOrder[n].contents.total]
    OBVIOUS
  <2>3. S \subseteq WorkReceived
    BY <2>1
  <2>4. /\ IsFiniteSet(S)
        /\ \A n \in S : /\ l[n] \in Int /\ p[n] \in Int /\ d[n] \in Int /\ t[n] \in Int
                        /\ l[n] + p[n] <= t[n] + d[n]
    <3>1. ASSUME NEW n \in S
          PROVE  LET c == workOrder[n].contents
                 IN  /\ c.labor \in Nat /\ c.parts \in Int /\ c.discount \in Nat /\ c.total \in Int
                     /\ c.labor + c.parts <= c.total + c.discount
      BY <2>3, WorkSums
    <3>2. IsFiniteSet(S)
      BY <2>3, WorkSums
    <3>3. QED
      BY <2>2, <3>1, <3>2
  <2>5. PICK costs, asked : costs = [n \in S |-> l[n] + p[n]] /\ asked = [n \in S |-> t[n] + d[n]]
    OBVIOUS
  <2>6. \A n \in S : /\ costs[n] = l[n] + p[n] /\ asked[n] = t[n] + d[n]
                     /\ costs[n] \in Int /\ asked[n] \in Int /\ costs[n] <= asked[n]
    BY <2>4, <2>5
  <2>7. SumFunctionOnSet(costs, S) = SumFunctionOnSet(l, S) + SumFunctionOnSet(p, S)
    BY <2>4, <2>6, SumPlus
  <2>8. SumFunctionOnSet(asked, S) = SumFunctionOnSet(t, S) + SumFunctionOnSet(d, S)
    BY <2>4, <2>6, SumPlus
  <2>9. SumFunctionOnSet(costs, S) <= SumFunctionOnSet(asked, S)
    BY <2>4, <2>6, SumMonotone
  <2>10. /\ SumFunctionOnSet(l, S) \in Int /\ SumFunctionOnSet(p, S) \in Int
         /\ SumFunctionOnSet(d, S) \in Int /\ SumFunctionOnSet(t, S) \in Int
    BY <2>4, SumInt
  <2>11. /\ report.laborTotal = SumFunctionOnSet(l, S)
         /\ report.partsTotal = SumFunctionOnSet(p, S)
         /\ report.discountTotal = SumFunctionOnSet(d, S)
    BY <1>1, <2>1, <2>2 DEF ServiceOrdersReport
  <2>12. WorkTotal(S) = SumFunctionOnSet(t, S)
    BY <2>2 DEF WorkTotal
  <2>13. QED
    BY <2>1, <2>7, <2>8, <2>9, <2>10, <2>11, <2>12
<1>8. QED
  BY <1>1, <1>4, <1>5, <1>6, <1>7 DEF OrdersAgree

-----------------------------------------------------------------------------
(* The alerts of the assistant *)

LEMMA SomeShown ==
    ASSUME NEW S, IsFiniteSet(S), NEW take \in 1..50
    PROVE  Shown(S, take) > 0 <=> Cardinality(S) > 0
<1>1. Cardinality(S) \in Nat
  BY FS_CardinalityType
<1>2. QED
  BY <1>1 DEF Shown

LEMMA AlertsCount ==
    ASSUME IsFiniteSet(Product), ShopInv, WorkshopInv
    PROVE  AlertsAgree
<1>1. PICK alerts : alerts = Alerts(BusinessContext)
  OBVIOUS
<1>2. /\ "lowStock" \in alerts <=> Shown(LowStock, maxContextItems) > 0
      /\ "outOfStock" \in alerts
           <=> Shown({p \in Product : active[p] /\ stock[p] = 0}, maxContextItems) > 0
      /\ "pendingPurchases" \in alerts
           <=> Shown({n \in Ordered : ~Finished(n)}, maxContextItems) > 0
      /\ "pendingOrders" \in alerts <=> ContextPending > 0
      /\ "readyOrders" \in alerts <=> OrdersByStatus["READY"] > 0
  BY <1>1 DEF Alerts, BusinessContext, ContextRows
<1> USE PriceAssumption
<1>3. "lowStock" \in alerts <=> Summary.productsLowStock > 0
  <2>1. IsFiniteSet(LowStock)
    <3>1. LowStock \subseteq Product
      BY DEF LowStock
    <3>2. QED
      BY <3>1, FS_Subset
  <2>2. Summary.productsLowStock = Cardinality(LowStock)
    BY DEF Summary, SummaryCounts
  <2>3. QED
    BY <1>2, <2>1, <2>2, SomeShown
<1>4. "outOfStock" \in alerts <=> InventoryReport.outOfStockProducts > 0
  <2>1. PICK S : S = {p \in Product : active[p] /\ stock[p] = 0}
    OBVIOUS
  <2>2. \A p \in Product : stock[p] \in Nat
    BY DEF ShopInv, StockInv, StockNeverNegative, TypeInv, TypeOK, RowsTypeOK
  <2>3. {p \in {p \in Product : active[p]} : stock[p] <= 0} = S
    BY <2>1, <2>2
  <2>4. InventoryReport.outOfStockProducts = Cardinality(S)
    BY <2>3 DEF InventoryReport
  <2>5. IsFiniteSet(S)
    BY <2>1, FS_Subset
  <2>6. QED
    BY <1>2, <2>1, <2>4, <2>5, SomeShown
<1>5. "pendingPurchases" \in alerts <=> Summary.pendingPurchases > 0
  <2>1. PICK S : S = {n \in Ordered : ~Finished(n)}
    OBVIOUS
  <2>2. IsFiniteSet(S)
    BY <2>1, OrderedFinite, FS_Subset
  <2>3. Summary.pendingPurchases = Cardinality(S)
    BY <2>1 DEF Summary, SummaryCounts
  <2>4. QED
    BY <1>2, <2>1, <2>2, <2>3, SomeShown
<1>6. ("pendingOrders" \in alerts \/ "readyOrders" \in alerts) <=> Summary.pendingServiceOrders > 0
  <2>1. PICK A, B : A = PendingWork \ {"READY"} /\ B = {"READY"}
    OBVIOUS
  <2>2. A \cap B = {} /\ A \cup B = PendingWork
    BY <2>1 DEF PendingWork
  <2>3. /\ Cardinality(WorkIn(A \cup B)) = Cardinality(WorkIn(A)) + Cardinality(WorkIn(B))
        /\ Cardinality(WorkIn(A)) \in Nat /\ Cardinality(WorkIn(B)) \in Nat
    BY <2>2, WorkInEither
  <2>4. ContextPending = Cardinality(WorkIn(A)) /\ OrdersByStatus["READY"] = Cardinality(WorkIn(B))
    BY <2>1 DEF ContextPending, OrdersByStatus, WorkStatus
  <2>5. Summary.pendingServiceOrders = Cardinality(WorkIn(A \cup B))
    BY <2>2 DEF Summary, SummaryCounts
  <2>6. QED
    BY <1>2, <2>3, <2>4, <2>5
<1>7. QED
  BY <1>1, <1>3, <1>4, <1>5, <1>6 DEF AlertsAgree

\* While requests run one at a time, what the owner is shown is the cash that went
\* through the tills plus what is owed; receipts, orders and alerts agree with it.
THEOREM ShopResultsReconcile ==
    ASSUME OneRequest, IsFiniteSet(Product), IsFiniteSet(Service)
    PROVE  ShopSpec => []ResultsReconcile
<1>1. ShopInv /\ OnceInv /\ [ShopNext]_shopVars => OnceInv'
  <2>1. OneAdminSlot
    BY DEF OneRequest, OneAdminSlot
  <2>2. QED
    BY <2>1, NextOnce
<1>2. ShopInv /\ KardexInv /\ [ShopNext]_shopVars => KardexInv'
  BY NextKardex
<1>3. ShopInv /\ OnceInv /\ KardexInv /\ MoneyInv /\ [ShopNext]_shopVars => MoneyInv'
  BY NextMoney
<1>4. ShopInv /\ WorkshopInv /\ [ShopNext]_shopVars => WorkshopInv'
  BY NextWorkshop
<1>5. ShopInv /\ MoneyInv /\ WorkshopInv => ResultsReconcile
  BY ResultsAdd, ReceiptsAdd, OrdersAdd, AlertsCount DEF ResultsReconcile
<1>6. QED
  BY <1>1, <1>2, <1>3, <1>4, <1>5, InitOnce, InitKardex, InitMoney,
     InitWorkshop, ShopKeepsInvariant, PTL DEF ShopSpec
=============================================================================

------------------------------ MODULE CashBook ------------------------------
(***************************************************************************)
(* The CashSession and CashMovement tables.  A session is identified by    *)
(* the number in its code CJ-000001, CJ-000002, ...  Movements are kept as *)
(* the sums buildSessionTotals reads: per session, per type and method.    *)
(* Nothing in the schema stops a CashMovement from being inserted while    *)
(* its session is being closed: the foreign key only locks the row's key.  *)
(***************************************************************************)
EXTENDS Requests, Integers, FiniteSets, Sequences

CONSTANTS
    MaxSessions,    \* bound: sessions ever opened
    OpenAtStart     \* users with an open session when the history starts

ASSUME SessionAssumption ==
    /\ MaxSessions \in Nat /\ None \notin Nat
    /\ OpenAtStart \in Seq(User) /\ Len(OpenAtStart) <= MaxSessions
    /\ \A i, j \in DOMAIN OpenAtStart : OpenAtStart[i] = OpenAtStart[j] => i = j

VARIABLES
    session,    \* committed CashSession rows
    takings,    \* committed CashMovement amounts of each session
    till,       \* the session the handler of r works on, or None
    posting     \* amounts of the CashMovement rows r has not yet committed

cashVars == <<session, takings, till, posting>>

Session == 1..MaxSessions

\* buildSessionTotals treats INCOME, SERVICE_PAYMENT and ADJUSTMENT alike:
\* "INCOME" stands for the three.
MoveType == {"SALE", "INCOME", "EXPENSE"}

\* "YAPE" stands for the electronic methods (YAPE, PLIN, TRANSFER), each with
\* a total of its own; MIXED enters no per-method total.
Method == {"CASH", "YAPE", "MIXED"}

\* Sums of CashMovement.amount per type and method.
Book == [MoveType -> [Method -> Int]]

NoPosting == [t \in MoveType |-> [m \in Method |-> 0]]

\* A CashMovement of each method of `amounts', all of one type.
Post(type, amounts) ==
    [NoPosting EXCEPT ![type] = amounts]

\* A single CashMovement.
PostOne(type, method, amount) ==
    [NoPosting EXCEPT ![type][method] = amount]

Add(book, more) ==
    [t \in MoveType |-> [m \in Method |-> book[t][m] + more[t][m]]]

\* sumByMethod over the income types.
IncomeBy(book, method) == book["SALE"][method] + book["INCOME"][method]

SumOfType(book, type) ==
    book[type]["CASH"] + book[type]["YAPE"] + book[type]["MIXED"]

\* The totals written when a session is closed.
BuildSessionTotals(book, opening) ==
    [sales    |-> SumOfType(book, "SALE"),
     expenses |-> SumOfType(book, "EXPENSE"),
     cash     |-> IncomeBy(book, "CASH"),
     yape     |-> IncomeBy(book, "YAPE"),
     expected |-> opening + IncomeBy(book, "CASH") - SumOfType(book, "EXPENSE")]

NewSession(user, opening) ==
    [status |-> "OPEN", owner |-> user, opening |-> opening, real |-> 0,
     difference |-> 0, alerts |-> 0,
     totals |-> [BuildSessionTotals(NoPosting, 0) EXCEPT !.expected = opening]]

NoSession == [NewSession(None, 0) EXCEPT !.status = "NONE"]

Totals == [sales: Int, expenses: Int, cash: Int, yape: Int, expected: Int]

SessionRow ==
    [status: {"NONE", "OPEN", "CLOSED"}, owner: User \cup {None}, opening: Int,
     real: Int, difference: Int, alerts: Nat, totals: Totals]

CashBookTypeOK ==
    /\ session \in [Session -> SessionRow]
    /\ takings \in [Session -> Book]
    /\ till \in [Request -> Session \cup {None}]
    /\ posting \in [Request -> Book]

CashBookInit ==
    /\ session = [s \in Session |->
                    IF s <= Len(OpenAtStart) THEN NewSession(OpenAtStart[s], 0)
                                             ELSE NoSession]
    /\ takings = [s \in Session |-> NoPosting]
    /\ till = [r \in Request |-> None]
    /\ posting = [r \in Request |-> NoPosting]

Opened == {s \in Session : session[s].status # "NONE"}

OpenSessionsOf(u) ==
    {s \in Session : session[s].status = "OPEN" /\ session[s].owner = u}

\* The movements of r become visible, in the session r found open earlier,
\* whatever has become of that session since.
CommitPostings(r) ==
    /\ takings' = [s \in Session |->
                     IF till[r] = s
                     THEN Add(takings[s], posting[r])
                     ELSE takings[s]]
    /\ till' = [till EXCEPT ![r] = None]
    /\ posting' = [posting EXCEPT ![r] = NoPosting]

DropPostings(r) ==
    /\ till' = [till EXCEPT ![r] = None]
    /\ posting' = [posting EXCEPT ![r] = NoPosting]
    /\ UNCHANGED takings
=============================================================================

--------------------------------- MODULE Cash ---------------------------------
(***************************************************************************)
(* CashService.open, createMovement and close, one action per statement    *)
(* that another request can come between.  open reads outside its          *)
(* transaction, close both outside and inside; neither locks what it read. *)
(***************************************************************************)
EXTENDS CashBook

CONSTANTS
    Amount,     \* amounts a user may type: opening, counted, movement
    MaxTotal    \* bound: sum of the manual movements of a session

ASSUME AmountAssumption == Amount \subseteq Nat /\ MaxTotal \in Nat

VARIABLE draft      \* the CashSession row r is about to write, or None

deskVars == <<pc, cashVars, draft>>

\* What findOpenByUser returns: the newest of the sessions the user has open,
\* if any.  Codes and openedAt grow together.
FindOpenByUser(u) == {s \in OpenSessionsOf(u) : \A t \in OpenSessionsOf(u) : t <= s}

\* The row close writes for a session whose movements add up to `book'.
Closing(row, book, real) ==
    LET totals == BuildSessionTotals(book, row.opening)
    IN  [row EXCEPT !.status = "CLOSED", !.totals = totals, !.real = real,
                    !.difference = real - totals.expected]

-----------------------------------------------------------------------------
(* open *)

\* Faulty variant: the check for an open session is missing.
FaultyStartOpen(r, amount) ==
    /\ Step(r, "idle", "countSessions")
    /\ draft' = [draft EXCEPT ![r] = NewSession(userOf[r], amount)]
    /\ UNCHANGED cashVars

\* findOpenByUser finds no open session.
StartOpen(r, amount) ==
    /\ Step(r, "idle", "countSessions")
    /\ FindOpenByUser(userOf[r]) = {}
    /\ draft' = [draft EXCEPT ![r] = NewSession(userOf[r], amount)]
    /\ UNCHANGED cashVars

HasInsertedSession(r) == pc[r] = "commitOpen"

\* Faulty variant: the code comes from a counter that also counts the sessions
\* still in flight.
FaultyCountSessions(r) ==
    LET reserved == Opened \cup {till[q] : q \in {x \in Request : HasInsertedSession(x)}}
    IN  /\ Step(r, "countSessions", "insertSession")
        /\ Cardinality(reserved) < MaxSessions
        /\ till' = [till EXCEPT ![r] = Cardinality(reserved) + 1]
        /\ UNCHANGED <<session, takings, posting, draft>>

\* count + 1, still outside the transaction.
CountSessions(r) ==
    /\ Step(r, "countSessions", "insertSession")
    /\ Cardinality(Opened) < MaxSessions
    /\ till' = [till EXCEPT ![r] = Cardinality(Opened) + 1]
    /\ UNCHANGED <<session, takings, posting, draft>>

\* Faulty variant: CashSession.code without its unique index.
FaultyInsertSession(r) ==
    /\ Step(r, "insertSession", "commitOpen")
    /\ UNCHANGED <<cashVars, draft>>

\* The unique index on CashSession.code.
InsertSession(r) ==
    /\ Step(r, "insertSession", "commitOpen")
    /\ till[r] \notin Opened
    /\ \A q \in Request : HasInsertedSession(q) => till[q] # till[r]
    /\ UNCHANGED <<cashVars, draft>>

CommitOpen(r) ==
    /\ Step(r, "commitOpen", "idle")
    /\ session' = [session EXCEPT ![till[r]] = draft[r]]
    /\ till' = [till EXCEPT ![r] = None]
    /\ draft' = [draft EXCEPT ![r] = None]
    /\ UNCHANGED <<takings, posting>>

-----------------------------------------------------------------------------
(* createMovement *)

\* Faulty variant: any session of the user, open or not.
FaultyPostMovement(r, type, method, amount) ==
    /\ Step(r, "idle", "commitMovement")
    /\ type # "SALE" /\ amount > 0
    /\ \E s \in Opened :
         /\ session[s].owner = userOf[r]
         /\ SumOfType(takings[s], "INCOME") + SumOfType(takings[s], "EXPENSE") + amount
              <= MaxTotal
         /\ till' = [till EXCEPT ![r] = s]
    /\ posting' = [posting EXCEPT ![r] = PostOne(type, method, amount)]
    /\ UNCHANGED <<session, takings, draft>>

\* The user's open session is found and the movement inserted in it.  Nothing
\* waits for the insert and nothing sees it before the commit.
PostMovement(r, type, method, amount) ==
    /\ Step(r, "idle", "commitMovement")
    /\ type # "SALE" /\ amount > 0
    /\ \E s \in OpenSessionsOf(userOf[r]) :
         /\ SumOfType(takings[s], "INCOME") + SumOfType(takings[s], "EXPENSE") + amount
              <= MaxTotal
         /\ till' = [till EXCEPT ![r] = s]
    /\ posting' = [posting EXCEPT ![r] = PostOne(type, method, amount)]
    /\ UNCHANGED <<session, takings, draft>>

CommitMovement(r) ==
    /\ Step(r, "commitMovement", "idle")
    /\ CommitPostings(r)
    /\ UNCHANGED <<session, draft>>

-----------------------------------------------------------------------------
(* close *)

\* findOpenByUser, outside the transaction; `real' is the amount counted.
StartClose(r, real) ==
    /\ Step(r, "idle", "recheck")
    /\ \E s \in FindOpenByUser(userOf[r]) :
         /\ till' = [till EXCEPT ![r] = s]
         /\ draft' = [draft EXCEPT ![r] = [session[s] EXCEPT !.real = real]]
    /\ UNCHANGED <<session, takings, posting>>

\* The status is read again inside the transaction, without a lock.
RecheckOpen(r) ==
    /\ Step(r, "recheck", "sum")
    /\ session[till[r]].status = "OPEN"
    /\ UNCHANGED <<cashVars, draft>>

SumMovements(r) ==
    /\ Step(r, "sum", "writeClose")
    /\ draft' = [draft EXCEPT ![r] = Closing(draft[r], takings[till[r]], draft[r].real)]
    /\ UNCHANGED cashVars

HasClosed(r) == pc[r] = "commitClose"

\* The update waits for another close that holds the row and does not look at
\* the status again.
WriteClose(r) ==
    /\ Step(r, "writeClose", "commitClose")
    /\ \A q \in Request : HasClosed(q) => till[q] # till[r]
    /\ UNCHANGED <<cashVars, draft>>

\* Faulty variant: only a surplus is notified.
FaultyCommitClose(r) ==
    /\ Step(r, "commitClose", "idle")
    /\ session' = [session EXCEPT ![till[r]] =
                     [draft[r] EXCEPT !.alerts = session[till[r]].alerts +
                                        (IF draft[r].difference > 0 THEN 1 ELSE 0)]]
    /\ till' = [till EXCEPT ![r] = None]
    /\ draft' = [draft EXCEPT ![r] = None]
    /\ UNCHANGED <<takings, posting>>

\* A difference other than zero leaves a CASH_DIFFERENCE notification.
CommitClose(r) ==
    /\ Step(r, "commitClose", "idle")
    /\ session' = [session EXCEPT ![till[r]] =
                     [draft[r] EXCEPT !.alerts = session[till[r]].alerts +
                                        (IF draft[r].difference # 0 THEN 1 ELSE 0)]]
    /\ till' = [till EXCEPT ![r] = None]
    /\ draft' = [draft EXCEPT ![r] = None]
    /\ UNCHANGED <<takings, posting>>

-----------------------------------------------------------------------------
OpenLabel == {"countSessions", "insertSession", "commitOpen"}
CloseLabel == {"recheck", "sum", "writeClose", "commitClose"}
CashLabel == OpenLabel \cup CloseLabel \cup {"commitMovement"}

RollbackCash(r) ==
    /\ pc[r] \in CashLabel
    /\ pc' = [pc EXCEPT ![r] = "idle"]
    /\ DropPostings(r)
    /\ draft' = [draft EXCEPT ![r] = None]
    /\ UNCHANGED session

\* The statement open or close executes next cannot succeed.
CashRefused(r) ==
    \/ pc[r] = "countSessions" /\ Cardinality(Opened) >= MaxSessions
    \/ pc[r] = "insertSession" /\ till[r] \in Opened
    \/ pc[r] = "recheck" /\ session[till[r]].status # "OPEN"

CashStep(r) ==
    \/ CountSessions(r) \/ InsertSession(r) \/ CommitOpen(r)
    \/ CommitMovement(r)
    \/ RecheckOpen(r) \/ SumMovements(r) \/ WriteClose(r) \/ CommitClose(r)

CashNext ==
    \E r \in Request :
        \/ \E a \in Amount : StartOpen(r, a) \/ StartClose(r, a)
        \/ \E t \in MoveType, m \in Method, a \in Amount : PostMovement(r, t, m, a)
        \/ CashStep(r)
        \/ RollbackCash(r)

CashInit ==
    /\ pc = [r \in Request |-> "idle"]
    /\ CashBookInit
    /\ draft = [r \in Request |-> None]

CashSpec == CashInit /\ [][CashNext]_deskVars

-----------------------------------------------------------------------------
(* Properties *)

\* Every variable has its type.  Of pc only the slots are fixed: a composition
\* adds the statements of other handlers.
CashTypeOK ==
    /\ DOMAIN pc = Request
    /\ CashBookTypeOK
    /\ draft \in [Request -> SessionRow \cup {None}]

\* The codes of the sessions are CJ-000001, CJ-000002, ... without gap or
\* repetition, although open counts them before its transaction begins.
SessionCodesAreConsecutive == Opened = 1..Cardinality(Opened)

\* A user has at most one open session ("Ya tienes una caja abierta").
OneOpenSessionPerUser ==
    \A u \in User : \A s, t \in OpenSessionsOf(u) : s = t

\* The closing totals and the difference account for every movement of the
\* session, and a difference has been notified once.
ClosedTotalsExact ==
    \A s \in Opened : session[s].status = "CLOSED" =>
        /\ session[s] = Closing(session[s], takings[s], session[s].real)
        /\ session[s].alerts = IF session[s].difference # 0 THEN 1 ELSE 0

\* A closed session is closed for good ("La caja ya no esta abierta").
ClosedIsFinal ==
    [][\A s \in Session : session[s].status = "CLOSED" => session'[s] = session[s]]_deskVars

\* Movements only enter a session that is open ("Debes abrir caja antes de
\* registrar movimientos").
MovementsNeedOpenSession ==
    [][\A s \in Session : takings'[s] # takings[s] => session[s].status = "OPEN"]_deskVars
=============================================================================

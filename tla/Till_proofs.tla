----------------------------- MODULE Till_proofs -----------------------------
(***************************************************************************)
(* Proofs of the safety properties of Cash: type correctness and the codes *)
(* for any requests, one open session per user and exact closing totals    *)
(* for users who wait for each answer; and of sales and cash desks         *)
(* together: for such users, every session accounts for the sales, refunds *)
(* and movements of all the requests that run at once.                     *)
(***************************************************************************)
EXTENDS Till, MCCounter, Sales_proofs


-----------------------------------------------------------------------------
(* Facts about the rows *)

\* The row a close writes, field by field.
LEMMA ClosingFacts ==
    ASSUME NEW row \in SessionRow, NEW book \in Book, NEW real \in Int
    PROVE  /\ Closing(row, book, real) \in SessionRow
           /\ Closing(row, book, real) =
                [status |-> "CLOSED", owner |-> row.owner, opening |-> row.opening,
                 real |-> real,
                 difference |-> real - BuildSessionTotals(book, row.opening).expected,
                 alerts |-> row.alerts, totals |-> BuildSessionTotals(book, row.opening)]
<1> DEFINE totals == BuildSessionTotals(book, row.opening)
<1>1. totals \in Totals
  BY BuildTotalsType DEF SessionRow
<1>2. totals.expected \in Int
  BY <1>1 DEF Totals
<1>3. Closing(row, book, real) =
        [row EXCEPT !.status = "CLOSED", !.totals = totals, !.real = real,
                    !.difference = real - totals.expected]
  BY DEF Closing
<1> HIDE DEF totals
<1>4. Closing(row, book, real) =
        [status |-> "CLOSED", owner |-> row.owner, opening |-> row.opening, real |-> real,
         difference |-> real - totals.expected, alerts |-> row.alerts, totals |-> totals]
  BY <1>3 DEF SessionRow
<1>5. Closing(row, book, real) \in SessionRow
  BY <1>1, <1>2, <1>4 DEF SessionRow
<1>6. QED
  BY <1>4, <1>5 DEF totals

\* The number of alerts can be set on any row.
LEMMA AlertsFacts ==
    ASSUME NEW row \in SessionRow, NEW n \in Nat
    PROVE  /\ [row EXCEPT !.alerts = n] \in SessionRow
           /\ [row EXCEPT !.alerts = n].status = row.status
           /\ [row EXCEPT !.alerts = n] =
                [status |-> row.status, owner |-> row.owner, opening |-> row.opening,
                 real |-> row.real, difference |-> row.difference, alerts |-> n,
                 totals |-> row.totals]
  BY DEF SessionRow

\* So can the amount counted.
LEMMA RealFacts ==
    ASSUME NEW row \in SessionRow, NEW real \in Int
    PROVE  /\ [row EXCEPT !.real = real] \in SessionRow
           /\ [row EXCEPT !.real = real] =
                [status |-> row.status, owner |-> row.owner, opening |-> row.opening,
                 real |-> real, difference |-> row.difference, alerts |-> row.alerts,
                 totals |-> row.totals]
  BY DEF SessionRow

\* What a session looks like when it is opened.
LEMMA NewSessionFacts ==
    ASSUME NEW user, NEW opening
    PROVE  /\ NewSession(user, opening).status = "OPEN"
           /\ NewSession(user, opening).owner = user
           /\ NewSession(user, opening).alerts = 0
  BY DEF NewSession

\* The sessions can be counted.
LEMMA OpenedFinite ==
    /\ IsFiniteSet(Opened)
    /\ Cardinality(Opened) \in Nat
<1>1. IsFiniteSet(Session)
  BY FS_Interval, SessionAssumption DEF Session
<1>2. Opened \subseteq Session
  BY DEF Opened
<1>3. QED
  BY <1>1, <1>2, FS_Subset, FS_CardinalityType

-----------------------------------------------------------------------------
(* Type correctness *)

\* What a handler that has started has found or computed.
DeskAt(r) ==
    /\ pc[r] \in OpenLabel \cup CloseLabel => draft[r] \in SessionRow
    /\ pc[r] \in OpenLabel => draft[r].status = "OPEN"
    /\ pc[r] \in {"writeClose", "commitClose"} => draft[r].status = "CLOSED"
    /\ pc[r] \in {"insertSession", "commitOpen", "commitMovement"} \cup CloseLabel =>
         till[r] \in Session
    /\ pc[r] \in CloseLabel \cup {"commitMovement"} => till[r] \in Opened

DeskTypeInv == CashTypeOK /\ \A r \in Request : DeskAt(r)

\* A step of r leaves the local variables of the other handlers alone, and no
\* session disappears.
LEMMA DeskFrame ==
    ASSUME \A q \in Request : DeskAt(q), NEW r \in Request, DeskAt(r)',
           Opened \subseteq Opened',
           \A q \in Request \ {r} : pc'[q] = pc[q] /\ draft'[q] = draft[q] /\ till'[q] = till[q]
    PROVE  \A q \in Request : DeskAt(q)'
  BY DEF DeskAt

\* The initial state has the type.
LEMMA InitDeskType == CashInit => DeskTypeInv
<1> SUFFICES ASSUME CashInit PROVE DeskTypeInv
  OBVIOUS
<1>1. CashBookTypeOK
  BY CashBookInitType DEF CashInit
<1>2. QED
  BY <1>1 DEF CashInit, DeskTypeInv, CashTypeOK, DeskAt, CashLabel, OpenLabel, CloseLabel

\* Every step keeps it.
LEMMA NextDeskType == DeskTypeInv /\ [CashNext]_deskVars => DeskTypeInv'
<1> SUFFICES ASSUME DeskTypeInv, [CashNext]_deskVars PROVE DeskTypeInv'
  OBVIOUS
<1> USE DEF CashLabel, OpenLabel, CloseLabel, Step
<1>0. CashTypeOK /\ CashBookTypeOK /\ \A r \in Request : DeskAt(r)
  BY DEF DeskTypeInv, CashTypeOK
<1>1. ASSUME NEW r \in Request, NEW a \in Amount, StartOpen(r, a)
      PROVE  DeskTypeInv'
  <2>1. NewSession(userOf[r], a) \in SessionRow /\ NewSession(userOf[r], a).status = "OPEN"
    BY NewSessionType, NewSessionFacts, RequestAssumption, AmountAssumption
  <2>2. CashTypeOK'
    BY <1>0, <1>1, <2>1, SameCashType DEF StartOpen, CashTypeOK
  <2>3. DeskAt(r)'
    BY <1>0, <1>1, <2>1 DEF StartOpen, CashTypeOK, DeskAt
  <2>4. QED
    BY <1>0, <1>1, <2>2, <2>3, DeskFrame DEF StartOpen, CashTypeOK, cashVars, DeskTypeInv, Opened
<1>2. ASSUME NEW r \in Request, CountSessions(r)
      PROVE  DeskTypeInv'
  <2>1. Cardinality(Opened) + 1 \in Session
    BY <1>2, OpenedFinite, SessionAssumption DEF CountSessions, Session
  <2>2. CashBookTypeOK'
    BY <1>0, <1>2, <2>1 DEF CountSessions, CashBookTypeOK
  <2>3. CashTypeOK'
    BY <1>0, <1>2, <2>2 DEF CountSessions, CashTypeOK
  <2>4. DeskAt(r)'
    BY <1>0, <1>2, <2>1 DEF CountSessions, CashTypeOK, CashBookTypeOK, DeskAt
  <2>5. QED
    BY <1>0, <1>2, <2>3, <2>4, DeskFrame DEF CountSessions, CashTypeOK, CashBookTypeOK,
       DeskTypeInv, Opened
<1>3. ASSUME NEW r \in Request, UNCHANGED <<cashVars, draft>>, NEW from, NEW to,
             <<from, to>> \in {<<"insertSession", "commitOpen">>, <<"recheck", "sum">>,
                               <<"writeClose", "commitClose">>},
             Step(r, from, to)
      PROVE  DeskTypeInv'
  <2>1. CashTypeOK'
    BY <1>0, <1>3, SameCashType DEF CashTypeOK
  <2>2. DeskAt(r)'
    BY <1>0, <1>3 DEF CashTypeOK, cashVars, DeskAt, Opened
  <2>3. QED
    BY <1>0, <1>3, <2>1, <2>2, DeskFrame DEF CashTypeOK, cashVars, DeskTypeInv, Opened
<1>4. ASSUME NEW r \in Request, CommitOpen(r)
      PROVE  DeskTypeInv'
  <2>1. till[r] \in Session /\ draft[r] \in SessionRow /\ draft[r].status = "OPEN"
    BY <1>0, <1>4 DEF CommitOpen, DeskAt
  <2>2. CashBookTypeOK' /\ Opened \subseteq Opened'
    BY <1>0, <1>4, <2>1 DEF CommitOpen, CashBookTypeOK, Opened
  <2>3. CashTypeOK'
    BY <1>0, <1>4, <2>2 DEF CommitOpen, CashTypeOK
  <2>4. DeskAt(r)'
    BY <1>0, <1>4 DEF CommitOpen, CashTypeOK, DeskAt
  <2>5. QED
    BY <1>0, <1>4, <2>2, <2>3, <2>4, DeskFrame DEF CommitOpen, CashTypeOK, CashBookTypeOK,
       DeskTypeInv
<1>5. ASSUME NEW r \in Request, NEW t \in MoveType, NEW m \in Method, NEW a \in Amount,
             PostMovement(r, t, m, a)
      PROVE  DeskTypeInv'
  <2>1. PostOne(t, m, a) \in Book
    BY PostOneType, AmountAssumption
  <2>2. PICK s \in OpenSessionsOf(userOf[r]) : till' = [till EXCEPT ![r] = s]
    BY <1>5 DEF PostMovement
  <2>3. s \in Session /\ s \in Opened
    BY DEF OpenSessionsOf, Opened
  <2>4. CashBookTypeOK'
    BY <1>0, <1>5, <2>1, <2>2, <2>3 DEF PostMovement, CashBookTypeOK
  <2>5. CashTypeOK'
    BY <1>0, <1>5, <2>4 DEF PostMovement, CashTypeOK
  <2>6. DeskAt(r)'
    BY <1>0, <1>5, <2>2, <2>3 DEF PostMovement, CashTypeOK, CashBookTypeOK, DeskAt, Opened
  <2>7. QED
    BY <1>0, <1>5, <2>2, <2>5, <2>6, DeskFrame DEF PostMovement, CashTypeOK, CashBookTypeOK,
       DeskTypeInv, Opened
<1>6. ASSUME NEW r \in Request, CommitMovement(r)
      PROVE  DeskTypeInv'
  <2>1. CashBookTypeOK'
    BY <1>0, <1>6, CommitPostingsType DEF CommitMovement
  <2>2. CashTypeOK'
    BY <1>0, <1>6, <2>1 DEF CommitMovement, CashTypeOK
  <2>3. DeskAt(r)'
    BY <1>0, <1>6 DEF CommitMovement, CashTypeOK, DeskAt
  <2>4. QED
    BY <1>0, <1>6, <2>2, <2>3, DeskFrame DEF CommitMovement, CommitPostings, CashTypeOK,
       CashBookTypeOK, DeskTypeInv, Opened
<1>7. ASSUME NEW r \in Request, NEW a \in Amount, StartClose(r, a)
      PROVE  DeskTypeInv'
  <2>1. PICK s \in FindOpenByUser(userOf[r]) :
          /\ till' = [till EXCEPT ![r] = s]
          /\ draft' = [draft EXCEPT ![r] = [session[s] EXCEPT !.real = a]]
    BY <1>7 DEF StartClose
  <2>2. s \in Session /\ s \in Opened /\ session[s] \in SessionRow
    BY <1>0 DEF FindOpenByUser, OpenSessionsOf, Opened, CashBookTypeOK
  <2>3. [session[s] EXCEPT !.real = a] \in SessionRow
    <3>1. a \in Int
      BY AmountAssumption
    <3>2. \A row \in SessionRow : [row EXCEPT !.real = a] \in SessionRow
      BY <3>1, RealFacts
    <3>3. QED
      BY <2>2, <3>2
  <2>4. CashBookTypeOK'
    BY <1>0, <1>7, <2>1, <2>2 DEF StartClose, CashBookTypeOK
  <2>5. CashTypeOK'
    BY <1>0, <1>7, <2>1, <2>3, <2>4 DEF StartClose, CashTypeOK
  <2>6. DeskAt(r)'
    BY <1>0, <1>7, <2>1, <2>2, <2>3 DEF StartClose, CashTypeOK, CashBookTypeOK, DeskAt, Opened
  <2>7. QED
    BY <1>0, <1>7, <2>1, <2>5, <2>6, DeskFrame DEF StartClose, CashTypeOK, CashBookTypeOK,
       DeskTypeInv, Opened
<1>8. ASSUME NEW r \in Request, SumMovements(r)
      PROVE  DeskTypeInv'
  <2>1. draft[r] \in SessionRow /\ till[r] \in Session /\ till[r] \in Opened
    BY <1>0, <1>8 DEF SumMovements, DeskAt
  <2> DEFINE row == Closing(draft[r], takings[till[r]], draft[r].real)
  <2>2. row \in SessionRow /\ row.status = "CLOSED"
    <3>1. takings[till[r]] \in Book /\ draft[r].real \in Int
      BY <1>0, <2>1 DEF CashBookTypeOK, SessionRow
    <3>2. QED
      BY <2>1, <3>1, ClosingFacts
  <2>3. draft' = [draft EXCEPT ![r] = row]
    BY <1>8 DEF SumMovements
  <2> HIDE DEF row
  <2>4. CashTypeOK'
    BY <1>0, <1>8, <2>2, <2>3, SameCashType DEF SumMovements, CashTypeOK
  <2>5. DeskAt(r)'
    BY <1>0, <1>8, <2>1, <2>2, <2>3 DEF SumMovements, CashTypeOK, DeskAt, cashVars, Opened
  <2>6. QED
    BY <1>0, <1>8, <2>3, <2>4, <2>5, DeskFrame DEF SumMovements, CashTypeOK, cashVars,
       DeskTypeInv, Opened
<1>9. ASSUME NEW r \in Request, CommitClose(r)
      PROVE  DeskTypeInv'
  <2> DEFINE n == session[till[r]].alerts + (IF draft[r].difference # 0 THEN 1 ELSE 0)
             row == [draft[r] EXCEPT !.alerts = n]
  <2>1. /\ till[r] \in Session /\ till[r] \in Opened
        /\ draft[r] \in SessionRow /\ draft[r].status = "CLOSED"
    BY <1>0, <1>9 DEF CommitClose, DeskAt
  <2>2. n \in Nat
    BY <1>0, <2>1 DEF CashBookTypeOK, SessionRow
  <2> HIDE DEF n
  <2>3. row \in SessionRow /\ row.status = "CLOSED"
    <3>1. ASSUME NEW x \in SessionRow
          PROVE  /\ [x EXCEPT !.alerts = n] \in SessionRow
                 /\ [x EXCEPT !.alerts = n].status = x.status
      BY <2>2, AlertsFacts
    <3>2. QED
      BY <2>1, <3>1
  <2>4. session' = [session EXCEPT ![till[r]] = row]
    BY <1>9 DEF CommitClose, n
  <2> HIDE DEF row
  <2>5. CashBookTypeOK' /\ Opened \subseteq Opened'
    BY <1>0, <1>9, <2>1, <2>3, <2>4 DEF CommitClose, CashBookTypeOK, Opened
  <2>6. CashTypeOK'
    BY <1>0, <1>9, <2>5 DEF CommitClose, CashTypeOK
  <2>7. DeskAt(r)'
    BY <1>0, <1>9 DEF CommitClose, CashTypeOK, DeskAt
  <2>8. QED
    BY <1>0, <1>9, <2>5, <2>6, <2>7, DeskFrame DEF CommitClose, CashTypeOK, CashBookTypeOK,
       DeskTypeInv
<1>10. ASSUME NEW r \in Request, RollbackCash(r)
       PROVE  DeskTypeInv'
  <2>1. CashBookTypeOK'
    BY <1>0, <1>10, DropPostingsType DEF RollbackCash
  <2>2. CashTypeOK'
    BY <1>0, <1>10, <2>1 DEF RollbackCash, CashTypeOK
  <2>3. DeskAt(r)'
    BY <1>0, <1>10 DEF RollbackCash, CashTypeOK, DeskAt
  <2>4. QED
    BY <1>0, <1>10, <2>2, <2>3, DeskFrame DEF RollbackCash, DropPostings, CashTypeOK,
       CashBookTypeOK, DeskTypeInv, Opened
<1>11. CASE UNCHANGED deskVars
  BY <1>0, <1>11, SameCashType DEF deskVars, cashVars, DeskTypeInv, CashTypeOK, DeskAt, Opened
<1>12. ASSUME NEW r \in Request, CashStep(r)
       PROVE  DeskTypeInv'
  BY <1>2, <1>3, <1>4, <1>6, <1>8, <1>9, <1>12 DEF CashStep, InsertSession, RecheckOpen,
     WriteClose
<1>13. QED
  BY <1>1, <1>5, <1>7, <1>10, <1>11, <1>12 DEF CashNext

\* The type invariant of Cash holds in every reachable state.
THEOREM CashTypeCorrect == CashSpec => []CashTypeOK
<1>1. DeskTypeInv => CashTypeOK
  BY DEF DeskTypeInv
<1>2. QED
  BY <1>1, InitDeskType, NextDeskType, PTL DEF CashSpec

-----------------------------------------------------------------------------
(* Session codes *)

\* The number computed is at most the next one, the number inserted is the next
\* one, and one request at a time has inserted it.
SessionNumbers ==
    /\ \A r \in Request :
         /\ pc[r] = "insertSession" => till[r] <= Cardinality(Opened) + 1
         /\ pc[r] = "commitOpen" => till[r] = Cardinality(Opened) + 1
    /\ \A q, r \in Request : HasInsertedSession(q) /\ HasInsertedSession(r) => q = r

SessionCodesInv == SessionCodesAreConsecutive /\ SessionNumbers

\* A step that opens no session and enters no insert.
LEMMA SessionCodesFrame ==
    ASSUME SessionCodesInv, NEW r \in Request, Opened' = Opened,
           \A q \in Request \ {r} : pc'[q] = pc[q] /\ till'[q] = till[q],
           pc'[r] = "insertSession" => till'[r] <= Cardinality(Opened) + 1,
           pc'[r] # "commitOpen"
    PROVE  SessionCodesInv'
<1> USE DEF SessionCodesInv, HasInsertedSession
<1>1. SessionCodesAreConsecutive'
  BY DEF SessionCodesAreConsecutive
<1>2. SessionNumbers'
  BY DEF SessionNumbers
<1>3. QED
  BY <1>1, <1>2

\* Closing a session opens none.
LEMMA CloseOpensNothing ==
    ASSUME DeskTypeInv, NEW r \in Request, CommitClose(r)
    PROVE  Opened' = Opened
<1>0. CashTypeOK /\ CashBookTypeOK /\ DeskAt(r)
  BY DEF DeskTypeInv, CashTypeOK
<1>1. till[r] \in Session /\ till[r] \in Opened /\ draft[r] \in SessionRow
      /\ draft[r].status = "CLOSED"
  BY <1>0 DEF CommitClose, Step, DeskAt, CloseLabel
<1> DEFINE n == session[till[r]].alerts + (IF draft[r].difference # 0 THEN 1 ELSE 0)
<1>2. session' = [session EXCEPT ![till[r]] = [draft[r] EXCEPT !.alerts = n]]
  BY DEF CommitClose
<1>3. n \in Nat
  BY <1>0, <1>1 DEF CashBookTypeOK, SessionRow
<1> HIDE DEF n
<1>4. [draft[r] EXCEPT !.alerts = n].status = "CLOSED"
  BY <1>1, <1>3, AlertsFacts
<1>5. QED
  BY <1>0, <1>1, <1>2, <1>4 DEF CashBookTypeOK, Opened

\* Every step keeps the codes consecutive.
LEMMA NextSessionCodes ==
    DeskTypeInv /\ SessionCodesInv /\ [CashNext]_deskVars => SessionCodesInv'
<1> SUFFICES ASSUME DeskTypeInv, SessionCodesInv, [CashNext]_deskVars PROVE SessionCodesInv'
  OBVIOUS
<1> DEFINE c == Cardinality(Opened)
<1>0. /\ CashTypeOK /\ CashBookTypeOK /\ \A r \in Request : DeskAt(r)
      /\ SessionCodesAreConsecutive /\ SessionNumbers
      /\ c \in Nat
  BY OpenedFinite DEF DeskTypeInv, SessionCodesInv, CashTypeOK
<1>1. ASSUME NEW r \in Request, CountSessions(r)
      PROVE  SessionCodesInv'
  <2>1. Opened' = Opened
    BY <1>1 DEF CountSessions, Opened
  <2>2. /\ till'[r] = c + 1 /\ pc'[r] = "insertSession"
        /\ \A q \in Request \ {r} : pc'[q] = pc[q] /\ till'[q] = till[q]
    BY <1>0, <1>1 DEF CountSessions, Step, CashTypeOK, CashBookTypeOK
  <2>3. QED
    BY <1>0, <2>1, <2>2, SessionCodesFrame
<1>2. ASSUME NEW r \in Request, InsertSession(r)
      PROVE  SessionCodesInv'
  <2>1. /\ Opened' = Opened /\ till' = till
        /\ pc[r] = "insertSession" /\ pc' = [pc EXCEPT ![r] = "commitOpen"]
    BY <1>2 DEF InsertSession, Step, cashVars, Opened
  <2>2. till[r] = c + 1
    <3>1. till[r] \in Session /\ till[r] <= c + 1
      BY <1>0, <2>1 DEF DeskAt, SessionNumbers
    <3>2. till[r] \notin 1..c
      BY <1>0, <1>2 DEF InsertSession, SessionCodesAreConsecutive
    <3>3. QED
      BY <1>0, <3>1, <3>2, SessionAssumption DEF Session
  <2>3. \A q \in Request : ~HasInsertedSession(q)
    BY <1>0, <1>2, <2>2 DEF InsertSession, SessionNumbers, HasInsertedSession
  <2>4. \A q \in Request \ {r} : pc'[q] = pc[q]
    BY <1>0, <2>1 DEF CashTypeOK
  <2>5. SessionCodesAreConsecutive'
    BY <1>0, <2>1 DEF SessionCodesAreConsecutive
  <2>6. SessionNumbers'
    BY <1>0, <2>1, <2>2, <2>3, <2>4 DEF SessionNumbers, HasInsertedSession, CashTypeOK
  <2>7. QED
    BY <2>5, <2>6 DEF SessionCodesInv
<1>3. ASSUME NEW r \in Request, CommitOpen(r)
      PROVE  SessionCodesInv'
  <2>1. pc[r] = "commitOpen" /\ pc' = [pc EXCEPT ![r] = "idle"]
    BY <1>3 DEF CommitOpen, Step
  <2>2. /\ till[r] = c + 1 /\ till[r] \in Session
        /\ draft[r].status = "OPEN"
    BY <1>0, <2>1 DEF SessionNumbers, DeskAt, OpenLabel
  <2>3. Opened' = Opened \cup {c + 1}
    BY <1>0, <1>3, <2>2 DEF CommitOpen, Opened, CashBookTypeOK
  <2>4. c + 1 \notin Opened
    BY <1>0 DEF SessionCodesAreConsecutive
  <2>5. Cardinality(Opened') = c + 1
    BY <2>3, <2>4, OpenedFinite, FS_AddElement
  <2>6. /\ pc'[r] = "idle"
        /\ \A q \in Request \ {r} : pc'[q] = pc[q] /\ till'[q] = till[q]
    BY <1>0, <1>3, <2>1 DEF CommitOpen, CashTypeOK, CashBookTypeOK
  <2>7. \A q \in Request : pc'[q] # "commitOpen"
    BY <1>0, <2>1, <2>6 DEF SessionNumbers, HasInsertedSession
  <2>8. SessionCodesAreConsecutive'
    BY <1>0, <2>3, <2>5 DEF SessionCodesAreConsecutive
  <2>9. \A q \in Request : pc'[q] = "insertSession" => till'[q] <= c + 1 /\ till'[q] \in Session
    BY <1>0, <2>6 DEF SessionNumbers, DeskAt
  <2>10. SessionNumbers'
    BY <1>0, <2>5, <2>7, <2>9, SessionAssumption DEF SessionNumbers, HasInsertedSession, Session
  <2>11. QED
    BY <2>8, <2>10 DEF SessionCodesInv
<1>4. ASSUME NEW r \in Request, Opened' = Opened,
             \A q \in Request \ {r} : till'[q] = till[q],
             NEW to, to \notin {"insertSession", "commitOpen"}, pc' = [pc EXCEPT ![r] = to]
      PROVE  SessionCodesInv'
  BY <1>0, <1>4, SessionCodesFrame DEF CashTypeOK
<1>5. ASSUME NEW r \in Request, NEW a \in Amount, StartOpen(r, a)
      PROVE  SessionCodesInv'
  BY <1>4, <1>5 DEF StartOpen, Step, cashVars, Opened
<1>6. ASSUME NEW r \in Request, NEW t \in MoveType, NEW m \in Method, NEW a \in Amount,
             PostMovement(r, t, m, a)
      PROVE  SessionCodesInv'
  BY <1>0, <1>4, <1>6 DEF PostMovement, Step, Opened, CashBookTypeOK
<1>7. ASSUME NEW r \in Request, NEW a \in Amount, StartClose(r, a)
      PROVE  SessionCodesInv'
  BY <1>0, <1>4, <1>7 DEF StartClose, Step, Opened, CashBookTypeOK
<1>8. ASSUME NEW r \in Request,
             RecheckOpen(r) \/ SumMovements(r) \/ WriteClose(r) \/ CommitMovement(r)
      PROVE  SessionCodesInv'
  BY <1>0, <1>4, <1>8 DEF RecheckOpen, SumMovements, WriteClose, CommitMovement,
     CommitPostings, Step, cashVars, Opened, CashBookTypeOK
<1>9. ASSUME NEW r \in Request, CommitClose(r)
      PROVE  SessionCodesInv'
  BY <1>0, <1>4, <1>9, CloseOpensNothing DEF CommitClose, Step, CashBookTypeOK
<1>10. ASSUME NEW r \in Request, RollbackCash(r)
       PROVE  SessionCodesInv'
  BY <1>0, <1>4, <1>10 DEF RollbackCash, DropPostings, Opened, CashBookTypeOK
<1>11. CASE UNCHANGED deskVars
  BY <1>11 DEF deskVars, cashVars, SessionCodesInv, SessionCodesAreConsecutive, SessionNumbers,
     HasInsertedSession, Opened
<1>12. QED
  BY <1>1, <1>2, <1>3, <1>5, <1>6, <1>7, <1>8, <1>9, <1>10, <1>11 DEF CashNext, CashStep

\* The sessions open when the history starts have the first codes.
LEMMA InitSessionCodes == CashInit => SessionCodesInv
<1> SUFFICES ASSUME CashInit PROVE SessionCodesInv
  OBVIOUS
<1> DEFINE n == Len(OpenAtStart)
<1>1. n \in Nat /\ n <= MaxSessions /\ MaxSessions \in Nat
  BY SessionAssumption
<1>2. \A s \in Session : session[s].status # "NONE" <=> s <= n
  <2>1. NoSession.status = "NONE"
    BY DEF NoSession, NewSession
  <2>2. QED
    BY <2>1, NewSessionFacts DEF CashInit, CashBookInit
<1>3. Opened = 1..n
  BY <1>1, <1>2 DEF Opened, Session
<1>4. \A k \in Nat : Cardinality(1..k) = k
  <2>1. ASSUME NEW k \in Nat PROVE Cardinality(1..k) = IF 1 > k THEN 0 ELSE k - 1 + 1
    BY FS_Interval
  <2>2. QED
    BY <2>1
<1>5. QED
  BY <1>1, <1>3, <1>4 DEF CashInit, SessionCodesInv, SessionCodesAreConsecutive, SessionNumbers,
     HasInsertedSession

\* The session codes have no gap and no repetition, whatever runs at once.
THEOREM CashCodesAreConsecutive == CashSpec => []SessionCodesAreConsecutive
<1>1. CashInit => DeskTypeInv /\ SessionCodesInv
  BY InitDeskType, InitSessionCodes
<1>2. DeskTypeInv /\ SessionCodesInv /\ [CashNext]_deskVars => (DeskTypeInv /\ SessionCodesInv)'
  BY NextDeskType, NextSessionCodes
<1>3. DeskTypeInv /\ SessionCodesInv => SessionCodesAreConsecutive
  BY DEF SessionCodesInv
<1>4. QED
  BY <1>1, <1>2, <1>3, PTL DEF CashSpec

-----------------------------------------------------------------------------
(* Users who wait for each answer *)

\* Closing a closed row again, with the same movements, changes nothing.
LEMMA ClosingTwice ==
    ASSUME NEW row \in SessionRow, NEW book \in Book, NEW real \in Int,
           NEW new, new = Closing(row, book, real)
    PROVE  new = Closing(new, book, new.real)
<1>1. /\ new \in SessionRow
      /\ new = [status |-> "CLOSED", owner |-> row.owner, opening |-> row.opening,
                real |-> real,
                difference |-> real - BuildSessionTotals(book, row.opening).expected,
                alerts |-> row.alerts, totals |-> BuildSessionTotals(book, row.opening)]
  BY ClosingFacts
<1>2. new.opening = row.opening /\ new.real = real /\ new.owner = row.owner
      /\ new.alerts = row.alerts
  BY <1>1
<1>3. Closing(new, book, real) =
        [status |-> "CLOSED", owner |-> new.owner, opening |-> new.opening, real |-> real,
         difference |-> real - BuildSessionTotals(book, new.opening).expected,
         alerts |-> new.alerts, totals |-> BuildSessionTotals(book, new.opening)]
  BY <1>1, ClosingFacts
<1>4. QED
  BY <1>1, <1>2, <1>3

WithAlerts(row, n) == [row EXCEPT !.alerts = n]

\* Counting the alert does not disturb the totals of a closed row.
LEMMA ClosingAlerts ==
    ASSUME NEW row \in SessionRow, NEW book \in Book, row = Closing(row, book, row.real),
           NEW n \in Nat, NEW new, new = WithAlerts(row, n)
    PROVE  /\ new = Closing(new, book, new.real)
           /\ new \in SessionRow
           /\ new.status = "CLOSED"
           /\ new.difference = row.difference
           /\ new.alerts = n
<1>1. /\ new \in SessionRow
      /\ new = [status |-> row.status, owner |-> row.owner, opening |-> row.opening,
                real |-> row.real, difference |-> row.difference, alerts |-> n,
                totals |-> row.totals]
  BY AlertsFacts DEF WithAlerts
<1>2. row.real \in Int
  BY DEF SessionRow
<1>3. row = [status |-> "CLOSED", owner |-> row.owner, opening |-> row.opening,
             real |-> row.real,
             difference |-> row.real - BuildSessionTotals(book, row.opening).expected,
             alerts |-> row.alerts, totals |-> BuildSessionTotals(book, row.opening)]
  BY <1>2, ClosingFacts
<1>4. /\ row.status = "CLOSED"
      /\ row.difference = row.real - BuildSessionTotals(book, row.opening).expected
      /\ row.totals = BuildSessionTotals(book, row.opening)
  BY <1>3
<1>5. /\ new.owner = row.owner /\ new.opening = row.opening /\ new.real = row.real
      /\ new.alerts = n /\ new.difference = row.difference /\ new.status = row.status
  BY <1>1
<1>6. Closing(new, book, new.real) =
        [status |-> "CLOSED", owner |-> new.owner, opening |-> new.opening, real |-> new.real,
         difference |-> new.real - BuildSessionTotals(book, new.opening).expected,
         alerts |-> new.alerts, totals |-> BuildSessionTotals(book, new.opening)]
  <2>1. new.real \in Int
    BY <1>2, <1>5
  <2>2. QED
    BY <1>1, <2>1, ClosingFacts
<1>7. QED
  BY <1>1, <1>4, <1>5, <1>6

\* What a handler found about its user's sessions is still so.
OwnDesk(r) ==
    /\ pc[r] \in OpenLabel =>
         /\ OpenSessionsOf(userOf[r]) = {}
         /\ draft[r].owner = userOf[r]
         /\ draft[r].alerts = 0
    /\ pc[r] \in CloseLabel \cup {"commitMovement"} => till[r] \in OpenSessionsOf(userOf[r])
    /\ pc[r] \in {"writeClose", "commitClose"} =>
         draft[r] = Closing(draft[r], takings[till[r]], draft[r].real)

DeskInv ==
    /\ OneOpenSessionPerUser
    /\ ClosedTotalsExact
    /\ \A s \in Session : session[s].status = "OPEN" => session[s].alerts = 0
    /\ \A r \in Request : OwnDesk(r)

\* A step of r that changes no session and no movement.
LEMMA OwnDeskFrame ==
    ASSUME DeskInv, NEW r \in Request, session' = session, takings' = takings, OwnDesk(r)',
           \A q \in Request \ {r} : pc'[q] = pc[q] /\ draft'[q] = draft[q] /\ till'[q] = till[q]
    PROVE  DeskInv'
<1>1. \A u : OpenSessionsOf(u)' = OpenSessionsOf(u)
  BY DEF OpenSessionsOf
<1>2. \A q \in Request : OwnDesk(q)'
  BY <1>1 DEF DeskInv, OwnDesk
<1>3. OneOpenSessionPerUser' /\ ClosedTotalsExact'
  BY <1>1 DEF DeskInv, OneOpenSessionPerUser, ClosedTotalsExact, Opened
<1>4. QED
  BY <1>2, <1>3 DEF DeskInv

\* A step of r that changes only what belongs to its user.
LEMMA OtherDesks ==
    ASSUME OneRequestPerUser, DeskInv, NEW r \in Request, OwnDesk(r)',
           \A q \in Request \ {r} : pc'[q] = pc[q] /\ draft'[q] = draft[q] /\ till'[q] = till[q],
           NEW s \in Session,
           \A x \in Session \ {s} : session'[x] = session[x] /\ takings'[x] = takings[x],
           session[s].status = "OPEN" => session[s].owner = userOf[r],
           session'[s].status = "OPEN" => session'[s].owner = userOf[r]
    PROVE  \A q \in Request : OwnDesk(q)'
<1> SUFFICES ASSUME NEW q \in Request, q # r PROVE OwnDesk(q)'
  OBVIOUS
<1>1. userOf[q] # userOf[r]
  BY DEF OneRequestPerUser
<1>2. OpenSessionsOf(userOf[q])' = OpenSessionsOf(userOf[q])
  BY <1>1 DEF OpenSessionsOf
<1>3. s \notin OpenSessionsOf(userOf[q])
  BY <1>1 DEF OpenSessionsOf
<1>4. \A x \in OpenSessionsOf(userOf[q]) : takings'[x] = takings[x]
  BY <1>3 DEF OpenSessionsOf
<1>5. QED
  BY <1>2, <1>4 DEF DeskInv, OwnDesk, CloseLabel

\* Every step keeps the sessions of users who wait for each answer in order.
LEMMA NextDeskInv ==
    ASSUME OneRequestPerUser
    PROVE  DeskTypeInv /\ SessionCodesInv /\ DeskInv /\ [CashNext]_deskVars => DeskInv'
<1> SUFFICES ASSUME DeskTypeInv, SessionCodesInv, DeskInv, [CashNext]_deskVars PROVE DeskInv'
  OBVIOUS
<1> USE DEF OpenLabel, CloseLabel, Step
<1>0. /\ CashTypeOK /\ CashBookTypeOK /\ \A r \in Request : DeskAt(r)
      /\ SessionCodesAreConsecutive /\ SessionNumbers
      /\ OneOpenSessionPerUser /\ ClosedTotalsExact
      /\ \A s \in Session : session[s].status = "OPEN" => session[s].alerts = 0
      /\ \A r \in Request : OwnDesk(r)
      /\ userOf \in [Request -> User]
  BY RequestAssumption DEF DeskTypeInv, SessionCodesInv, DeskInv, CashTypeOK
<1>1. ASSUME NEW r \in Request, NEW a \in Amount, StartOpen(r, a)
      PROVE  DeskInv'
  <2>1. OpenSessionsOf(userOf[r]) = {}
    BY <1>0, <1>1 DEF StartOpen, FindOpenByUser, OneOpenSessionPerUser, OpenSessionsOf, Session
  <2>2. OpenSessionsOf(userOf[r])' = {}
    BY <1>1, <2>1 DEF StartOpen, cashVars, OpenSessionsOf
  <2>3. OwnDesk(r)'
    BY <1>0, <1>1, <2>2, NewSessionFacts DEF StartOpen, OwnDesk, CashTypeOK
  <2>4. QED
    BY <1>0, <1>1, <2>3, OwnDeskFrame DEF StartOpen, cashVars, CashTypeOK
<1>2. ASSUME NEW r \in Request, CountSessions(r)
      PROVE  DeskInv'
  <2>1. OpenSessionsOf(userOf[r])' = OpenSessionsOf(userOf[r])
    BY <1>2 DEF CountSessions, OpenSessionsOf
  <2>2. OwnDesk(r)'
    BY <1>0, <1>2, <2>1 DEF CountSessions, OwnDesk, CashTypeOK
  <2>3. QED
    BY <1>0, <1>2, <2>2, OwnDeskFrame DEF CountSessions, CashTypeOK, CashBookTypeOK
<1>3. ASSUME NEW r \in Request, UNCHANGED <<cashVars, draft>>, NEW from, NEW to,
             <<from, to>> \in {<<"insertSession", "commitOpen">>, <<"recheck", "sum">>,
                               <<"writeClose", "commitClose">>},
             Step(r, from, to)
      PROVE  DeskInv'
  <2>1. OpenSessionsOf(userOf[r])' = OpenSessionsOf(userOf[r])
    BY <1>3 DEF cashVars, OpenSessionsOf
  <2>2. OwnDesk(r)'
    BY <1>0, <1>3, <2>1 DEF OwnDesk, CashTypeOK, cashVars
  <2>3. QED
    BY <1>0, <1>3, <2>2, OwnDeskFrame DEF cashVars, CashTypeOK
<1>4. ASSUME NEW r \in Request, CommitOpen(r)
      PROVE  DeskInv'
  <2> DEFINE s == till[r]
  <2>1. pc[r] = "commitOpen"
    BY <1>4 DEF CommitOpen
  <2>2. /\ s \in Session /\ s \notin Opened
        /\ draft[r].status = "OPEN" /\ draft[r].owner = userOf[r] /\ draft[r].alerts = 0
        /\ OpenSessionsOf(userOf[r]) = {}
    BY <1>0, <2>1, OpenedFinite DEF SessionNumbers, SessionCodesAreConsecutive, DeskAt, OwnDesk
  <2>3. session[s].status = "NONE"
    BY <2>2 DEF Opened
  <2>4. /\ session'[s] = draft[r]
        /\ \A x \in Session \ {s} : session'[x] = session[x]
        /\ takings' = takings
    BY <1>0, <1>4, <2>2 DEF CommitOpen, CashBookTypeOK
  <2>5. /\ pc'[r] = "idle"
        /\ \A q \in Request \ {r} : pc'[q] = pc[q] /\ draft'[q] = draft[q] /\ till'[q] = till[q]
    BY <1>0, <1>4 DEF CommitOpen, CashTypeOK, CashBookTypeOK
  <2> HIDE DEF s
  <2>6. \A q \in Request : OwnDesk(q)'
    <3>1. OwnDesk(r)'
      BY <2>5 DEF OwnDesk
    <3>2. QED
      BY <2>2, <2>3, <2>4, <2>5, <3>1, OtherDesks
  <2>7. OneOpenSessionPerUser'
    BY <1>0, <2>2, <2>3, <2>4 DEF OneOpenSessionPerUser, OpenSessionsOf
  <2>8. ClosedTotalsExact'
    BY <1>0, <2>2, <2>4 DEF ClosedTotalsExact, Opened
  <2>9. QED
    BY <1>0, <2>2, <2>4, <2>6, <2>7, <2>8 DEF DeskInv
<1>5. ASSUME NEW r \in Request, NEW t \in MoveType, NEW m \in Method, NEW a \in Amount,
             PostMovement(r, t, m, a)
      PROVE  DeskInv'
  <2>1. PICK s \in OpenSessionsOf(userOf[r]) : till' = [till EXCEPT ![r] = s]
    BY <1>5 DEF PostMovement
  <2>2. OpenSessionsOf(userOf[r])' = OpenSessionsOf(userOf[r])
    BY <1>5 DEF PostMovement, OpenSessionsOf
  <2>3. OwnDesk(r)'
    BY <1>0, <1>5, <2>1, <2>2 DEF PostMovement, OwnDesk, CashTypeOK, CashBookTypeOK
  <2>4. QED
    BY <1>0, <1>5, <2>1, <2>3, OwnDeskFrame DEF PostMovement, CashTypeOK, CashBookTypeOK
<1>6. ASSUME NEW r \in Request, CommitMovement(r)
      PROVE  DeskInv'
  <2> DEFINE s == till[r]
  <2>1. s \in OpenSessionsOf(userOf[r]) /\ s \in Session /\ session[s].status = "OPEN"
        /\ session[s].owner = userOf[r]
    BY <1>0, <1>6 DEF CommitMovement, OwnDesk, OpenSessionsOf
  <2>2. /\ session' = session
        /\ \A x \in Session \ {s} : takings'[x] = takings[x]
    BY <1>6 DEF CommitMovement, CommitPostings
  <2>3. /\ pc'[r] = "idle"
        /\ \A q \in Request \ {r} : pc'[q] = pc[q] /\ draft'[q] = draft[q] /\ till'[q] = till[q]
    BY <1>0, <1>6 DEF CommitMovement, CommitPostings, CashTypeOK, CashBookTypeOK
  <2> HIDE DEF s
  <2>4. \A q \in Request : OwnDesk(q)'
    <3>1. OwnDesk(r)'
      BY <2>3 DEF OwnDesk
    <3>2. QED
      BY <2>1, <2>2, <2>3, <3>1, OtherDesks
  <2>5. OneOpenSessionPerUser'
    BY <1>0, <2>2 DEF OneOpenSessionPerUser, OpenSessionsOf
  <2>6. ClosedTotalsExact'
    BY <1>0, <2>1, <2>2 DEF ClosedTotalsExact, Opened
  <2>7. QED
    BY <1>0, <2>2, <2>4, <2>5, <2>6 DEF DeskInv
<1>7. ASSUME NEW r \in Request, NEW a \in Amount, StartClose(r, a)
      PROVE  DeskInv'
  <2>1. PICK s \in OpenSessionsOf(userOf[r]) : till' = [till EXCEPT ![r] = s]
    BY <1>7 DEF StartClose, FindOpenByUser
  <2>2. OpenSessionsOf(userOf[r])' = OpenSessionsOf(userOf[r])
    BY <1>7 DEF StartClose, OpenSessionsOf
  <2>3. OwnDesk(r)'
    BY <1>0, <1>7, <2>1, <2>2 DEF StartClose, OwnDesk, CashTypeOK, CashBookTypeOK
  <2>4. QED
    BY <1>0, <1>7, <2>1, <2>3, OwnDeskFrame DEF StartClose, CashTypeOK, CashBookTypeOK
<1>8. ASSUME NEW r \in Request, SumMovements(r)
      PROVE  DeskInv'
  <2>1. draft[r] \in SessionRow /\ till[r] \in Session /\ till[r] \in OpenSessionsOf(userOf[r])
    BY <1>0, <1>8 DEF SumMovements, DeskAt, OwnDesk
  <2>2. takings[till[r]] \in Book /\ draft[r].real \in Int
    BY <1>0, <2>1 DEF CashBookTypeOK, SessionRow
  <2>3. draft'[r] = Closing(draft[r], takings[till[r]], draft[r].real)
    BY <1>0, <1>8 DEF SumMovements, CashTypeOK
  <2>4. draft'[r] = Closing(draft'[r], takings[till[r]], draft'[r].real)
    BY <2>1, <2>2, <2>3, ClosingTwice
  <2>5. OpenSessionsOf(userOf[r])' = OpenSessionsOf(userOf[r])
    BY <1>8 DEF SumMovements, cashVars, OpenSessionsOf
  <2>6. OwnDesk(r)'
    BY <1>0, <1>8, <2>1, <2>4, <2>5 DEF SumMovements, cashVars, OwnDesk, CashTypeOK
  <2>7. QED
    BY <1>0, <1>8, <2>6, OwnDeskFrame DEF SumMovements, cashVars, CashTypeOK
<1>9. ASSUME NEW r \in Request, CommitClose(r)
      PROVE  DeskInv'
  <2> DEFINE s == till[r]
             n == session[s].alerts + (IF draft[r].difference # 0 THEN 1 ELSE 0)
             row == WithAlerts(draft[r], n)
  <2>1. /\ s \in OpenSessionsOf(userOf[r]) /\ s \in Session
        /\ draft[r] = Closing(draft[r], takings[s], draft[r].real)
        /\ draft[r] \in SessionRow
    BY <1>0, <1>9 DEF CommitClose, OwnDesk, DeskAt
  <2>2. session[s].status = "OPEN" /\ session[s].owner = userOf[r] /\ session[s].alerts = 0
    BY <1>0, <2>1 DEF OpenSessionsOf
  <2>3. n \in Nat /\ n = IF draft[r].difference # 0 THEN 1 ELSE 0
    BY <2>2
  <2>4. takings[s] \in Book
    BY <1>0, <2>1 DEF CashBookTypeOK
  <2>5. /\ session' = [session EXCEPT ![s] = row]
        /\ takings' = takings
    BY <1>9 DEF CommitClose, WithAlerts
  <2>6. /\ pc'[r] = "idle"
        /\ \A q \in Request \ {r} : pc'[q] = pc[q] /\ draft'[q] = draft[q] /\ till'[q] = till[q]
    BY <1>0, <1>9 DEF CommitClose, CashTypeOK, CashBookTypeOK
  <2> HIDE DEF s, n
  <2>7. /\ row = Closing(row, takings[s], row.real)
        /\ row \in SessionRow /\ row.status = "CLOSED"
        /\ row.difference = draft[r].difference /\ row.alerts = n
    BY <2>1, <2>3, <2>4, ClosingAlerts
  <2> HIDE DEF row
  <2>8. session'[s] = row /\ \A x \in Session \ {s} : session'[x] = session[x]
    BY <1>0, <2>1, <2>5 DEF CashBookTypeOK
  <2>9. \A q \in Request : OwnDesk(q)'
    <3>1. OwnDesk(r)'
      BY <2>6 DEF OwnDesk
    <3>2. QED
      BY <2>1, <2>2, <2>5, <2>6, <2>7, <2>8, <3>1, OtherDesks
  <2>10. OneOpenSessionPerUser'
    BY <1>0, <2>7, <2>8 DEF OneOpenSessionPerUser, OpenSessionsOf
  <2>11. ClosedTotalsExact'
    BY <1>0, <2>3, <2>5, <2>7, <2>8 DEF ClosedTotalsExact, Opened
  <2>12. QED
    BY <1>0, <2>7, <2>8, <2>9, <2>10, <2>11 DEF DeskInv
<1>10. ASSUME NEW r \in Request, RollbackCash(r)
       PROVE  DeskInv'
  <2>1. OwnDesk(r)'
    BY <1>0, <1>10 DEF RollbackCash, OwnDesk, CashTypeOK
  <2>2. QED
    BY <1>0, <1>10, <2>1, OwnDeskFrame DEF RollbackCash, DropPostings, CashTypeOK, CashBookTypeOK
<1>11. CASE UNCHANGED deskVars
  <2>1. \A u : OpenSessionsOf(u)' = OpenSessionsOf(u)
    BY <1>11 DEF deskVars, cashVars, OpenSessionsOf
  <2>2. QED
    BY <1>11, <2>1 DEF deskVars, cashVars, DeskInv, OwnDesk, OneOpenSessionPerUser,
       ClosedTotalsExact, Opened
<1>12. ASSUME NEW r \in Request, CashStep(r)
       PROVE  DeskInv'
  BY <1>2, <1>3, <1>4, <1>6, <1>8, <1>9, <1>12 DEF CashStep, InsertSession, RecheckOpen,
     WriteClose
<1>13. QED
  BY <1>1, <1>5, <1>7, <1>10, <1>11, <1>12 DEF CashNext

\* Different users have the sessions open when the history starts.
LEMMA InitDeskInv == CashInit => DeskInv
<1> SUFFICES ASSUME CashInit PROVE DeskInv
  OBVIOUS
<1> DEFINE n == Len(OpenAtStart)
<1>1. \A s \in Session : IF s <= n THEN /\ session[s].status = "OPEN"
                                       /\ session[s].owner = OpenAtStart[s]
                                       /\ session[s].alerts = 0
                                  ELSE session[s].status = "NONE"
  <2>1. NoSession.status = "NONE"
    BY DEF NoSession, NewSession
  <2>2. QED
    BY <2>1, NewSessionFacts DEF CashInit, CashBookInit
<1>2. \A s, t \in Session : s <= n /\ t <= n /\ OpenAtStart[s] = OpenAtStart[t] => s = t
  <2>1. DOMAIN OpenAtStart = 1..n /\ n \in Nat
    BY SessionAssumption
  <2>2. QED
    BY <2>1, SessionAssumption DEF Session
<1>3. OneOpenSessionPerUser
  BY <1>1, <1>2 DEF OneOpenSessionPerUser, OpenSessionsOf
<1>4. ClosedTotalsExact
  BY <1>1 DEF ClosedTotalsExact, Opened
<1>5. QED
  BY <1>1, <1>3, <1>4 DEF DeskInv, OwnDesk, CashInit, OpenLabel, CloseLabel

\* Only three statements change a session or its movements.
LEMMA SessionWriters ==
    ASSUME [CashNext]_deskVars
    PROVE  \/ session' = session /\ takings' = takings
           \/ \E r \in Request : CommitOpen(r)
           \/ \E r \in Request : CommitClose(r)
           \/ \E r \in Request : CommitMovement(r)
<1>1. ASSUME NEW r \in Request, CashStep(r)
      PROVE  \/ session' = session /\ takings' = takings
             \/ CommitOpen(r) \/ CommitClose(r) \/ CommitMovement(r)
  BY <1>1 DEF CashStep, CountSessions, InsertSession, RecheckOpen, SumMovements, WriteClose,
     cashVars
<1>2. ASSUME NEW r \in Request, NEW a \in Amount, StartOpen(r, a) \/ StartClose(r, a)
      PROVE  session' = session /\ takings' = takings
  BY <1>2 DEF StartOpen, StartClose, cashVars
<1>3. ASSUME NEW r \in Request, NEW t \in MoveType, NEW m \in Method, NEW a \in Amount,
             PostMovement(r, t, m, a)
      PROVE  session' = session /\ takings' = takings
  BY <1>3 DEF PostMovement
<1>4. ASSUME NEW r \in Request, RollbackCash(r)
      PROVE  session' = session /\ takings' = takings
  BY <1>4 DEF RollbackCash, DropPostings
<1>5. CASE UNCHANGED deskVars
  BY <1>5 DEF deskVars, cashVars
<1>6. QED
  BY <1>1, <1>2, <1>3, <1>4, <1>5 DEF CashNext

\* No step changes a closed session.
LEMMA ClosedStays ==
    ASSUME DeskTypeInv, SessionCodesInv, DeskInv, [CashNext]_deskVars,
           NEW s \in Session, session[s].status = "CLOSED"
    PROVE  session'[s] = session[s]
<1>0. CashBookTypeOK
  BY DEF DeskTypeInv, CashTypeOK
<1>1. ASSUME NEW r \in Request, CommitOpen(r)
      PROVE  session'[s] = session[s]
  <2>1. till[r] \in Session /\ till[r] = Cardinality(Opened) + 1
    BY <1>1 DEF CommitOpen, Step, DeskTypeInv, DeskAt, SessionCodesInv, SessionNumbers
  <2>2. s \in 1..Cardinality(Opened)
    BY DEF Opened, SessionCodesInv, SessionCodesAreConsecutive
  <2>3. till[r] # s
    BY <2>1, <2>2, OpenedFinite
  <2>4. QED
    BY <1>0, <1>1, <2>1, <2>3 DEF CommitOpen, CashBookTypeOK
<1>2. ASSUME NEW r \in Request, CommitClose(r)
      PROVE  session'[s] = session[s]
  <2>1. till[r] \in Session /\ session[till[r]].status = "OPEN"
    BY <1>2 DEF CommitClose, Step, CloseLabel, DeskInv, OwnDesk, OpenSessionsOf
  <2>2. QED
    BY <1>0, <1>2, <2>1 DEF CommitClose, CashBookTypeOK
<1>3. QED
  BY <1>1, <1>2, SessionWriters DEF CommitMovement

\* No step adds a movement to a session that is not open.
LEMMA OnlyOpenGrow ==
    ASSUME DeskInv, [CashNext]_deskVars, NEW s \in Session, takings'[s] # takings[s]
    PROVE  session[s].status = "OPEN"
<1>1. ASSUME NEW r \in Request, CommitMovement(r)
      PROVE  session[s].status = "OPEN"
  <2>1. session[till[r]].status = "OPEN"
    BY <1>1 DEF CommitMovement, Step, DeskInv, OwnDesk, OpenSessionsOf
  <2>2. QED
    BY <1>1, <2>1 DEF CommitMovement, CommitPostings
<1>2. QED
  BY <1>1, SessionWriters DEF CommitOpen, CommitClose

-----------------------------------------------------------------------------
(* What a step of one component leaves alone *)

Posting == {"commitSale", "commitCancel"}

\* None is no session.
LEMMA NoneIsNoSession == None \notin Session
  BY SessionAssumption DEF Session

\* What a statement of create or cancel does to the cash desks: the session a
\* request finds belongs to its user, and only the commit adds movements to it.
SaleFootprint(r) ==
    /\ pc[r] \in SaleLabel \cup {"idle"} /\ pc'[r] \in SaleLabel \cup {"idle"}
    /\ \A q \in Request \ {r} : pc'[q] = pc[q] /\ till'[q] = till[q]
    /\ session' = session
    /\ pc'[r] = "commitSale" => till'[r] \in OpenSessionsOf(userOf[r])
    /\ pc'[r] = "commitCancel" =>
         \/ till'[r] \in OpenSessionsOf(userOf[r])
         \/ till'[r] = till[r] /\ pc[r] = "refund"
    /\ pc'[r] \notin Posting => \/ till'[r] = None
                                \/ till'[r] = till[r] /\ pc[r] \notin Posting
    /\ pc[r] \notin Posting => takings' = takings
    /\ \A s \in Session : s # till[r] => takings'[s] = takings[s]

LEMMA SaleMoves ==
    ASSUME TypeInv, Next
    PROVE  \E r \in Request : SaleFootprint(r)
<1> USE DEF SaleLabel, CreateLabel, CancelLabel, Posting, Step
<1>0. TypeOK /\ LocalOK /\ DOMAIN pc = Request /\ till \in [Request -> Session \cup {None}]
  BY DEF TypeInv, TypeOK, CashBookTypeOK
<1>1. ASSUME NEW r \in Request, pc[r] \notin Posting, pc[r] \in SaleLabel \cup {"idle"},
             NEW to \in SaleLabel \ Posting, pc' = [pc EXCEPT ![r] = to], UNCHANGED cashVars
      PROVE  SaleFootprint(r)
  BY <1>0, <1>1 DEF SaleFootprint, cashVars
<1>2. ASSUME NEW r \in Request, NEW from, NEW again \in SaleLabel \ Posting,
             NEW next \in SaleLabel \ Posting, from \in SaleLabel \ Posting,
             NextItem(r, from, again, next), UNCHANGED cashVars
      PROVE  SaleFootprint(r)
  BY <1>1, <1>2 DEF NextItem
<1>3. ASSUME NEW r \in Request, CreateStep(r)
      PROVE  SaleFootprint(r)
  <2>1. CASE ValidateItem(r)
    BY <1>2, <2>1 DEF ValidateItem
  <2>2. CASE CountSales(r) \/ InsertSale(r)
    BY <1>1, <2>2 DEF CountSales, InsertSale
  <2>3. CASE DecrementStock(r)
    BY <1>2, <2>3 DEF DecrementStock
  <2>4. CASE CollectPayment(r)
    BY <1>0, <2>4 DEF CollectPayment, SaleFootprint
  <2>5. CASE CommitSale(r)
    BY <1>0, <2>5 DEF CommitSale, CommitPostings, SaleFootprint
  <2>6. QED
    BY <1>3, <2>1, <2>2, <2>3, <2>4, <2>5 DEF CreateStep
<1>4. ASSUME NEW r \in Request, CancelStep(r)
      PROVE  SaleFootprint(r)
  <2>1. CASE ReadStock(r) \/ MarkCancelled(r)
    BY <1>1, <2>1 DEF ReadStock, MarkCancelled
  <2>2. CASE Restock(r)
    BY <1>2, <2>2 DEF Restock
  <2>3. CASE RefundSale(r)
    BY <1>0, <2>3 DEF RefundSale, SaleFootprint
  <2>4. CASE CommitCancel(r)
    BY <1>0, <2>4 DEF CommitCancel, CommitPostings, SaleFootprint
  <2>5. QED
    BY <1>4, <2>1, <2>2, <2>3, <2>4 DEF CancelStep
<1>5. ASSUME NEW r \in Request, NEW o \in Order, StartSale(r, o)
      PROVE  SaleFootprint(r)
  BY <1>1, <1>5 DEF StartSale
<1>6. ASSUME NEW r \in Request, NEW n \in SaleNumber, StartCancel(r, n)
      PROVE  SaleFootprint(r)
  BY <1>1, <1>6 DEF StartCancel
<1>7. ASSUME NEW r \in Request, RollbackSale(r)
      PROVE  SaleFootprint(r)
  BY <1>0, <1>7 DEF RollbackSale, DropPostings, SaleFootprint
<1>8. QED
  BY <1>3, <1>4, <1>5, <1>6, <1>7 DEF Next, SellNext, CancelNext

\* What a statement of open, createMovement or close does to the sales: the
\* sessions of the other users stay as they are.
CashFootprint(r) ==
    /\ pc[r] \in CashLabel \cup {"idle"} /\ pc'[r] \in CashLabel \cup {"idle"}
    /\ pc'[r] = "idle" => till'[r] = None
    /\ \A q \in Request \ {r} :
         /\ pc'[q] = pc[q] /\ till'[q] = till[q]
         /\ OpenSessionsOf(userOf[q])' = OpenSessionsOf(userOf[q])

LEMMA CashMoves ==
    ASSUME OneRequestPerUser, DeskTypeInv, SessionCodesInv, DeskInv, CashNext
    PROVE  \E r \in Request : CashFootprint(r)
<1> USE DEF CashLabel, OpenLabel, CloseLabel, Step
<1>0. /\ CashTypeOK /\ CashBookTypeOK /\ DOMAIN pc = Request
      /\ till \in [Request -> Session \cup {None}] /\ session \in [Session -> SessionRow]
      /\ \A r \in Request : DeskAt(r) /\ OwnDesk(r)
  BY DEF DeskTypeInv, DeskInv, CashTypeOK, CashBookTypeOK
<1>1. ASSUME session' = session
      PROVE  \A q \in Request : OpenSessionsOf(userOf[q])' = OpenSessionsOf(userOf[q])
  BY <1>1 DEF OpenSessionsOf
<1>2. ASSUME NEW r \in Request, NEW s \in Session,
             \A x \in Session \ {s} : session'[x] = session[x],
             session[s].status = "OPEN" => session[s].owner = userOf[r],
             session'[s].status = "OPEN" => session'[s].owner = userOf[r]
      PROVE  \A q \in Request \ {r} : OpenSessionsOf(userOf[q])' = OpenSessionsOf(userOf[q])
  BY <1>2 DEF OneRequestPerUser, OpenSessionsOf
<1>3. ASSUME NEW r \in Request, CashStep(r)
      PROVE  CashFootprint(r)
  <2>1. CASE \/ CountSessions(r) \/ InsertSession(r) \/ CommitMovement(r)
             \/ RecheckOpen(r) \/ SumMovements(r) \/ WriteClose(r)
    BY <1>0, <1>1, <2>1 DEF CountSessions, InsertSession, CommitMovement, CommitPostings,
       RecheckOpen, SumMovements, WriteClose, cashVars, CashFootprint
  <2>2. CASE CommitOpen(r)
    <3>1. /\ till[r] \in Session /\ draft[r].owner = userOf[r]
          /\ till[r] = Cardinality(Opened) + 1
      BY <1>0, <2>2 DEF CommitOpen, DeskAt, OwnDesk, SessionCodesInv, SessionNumbers
    <3>2. session[till[r]].status = "NONE"
      BY <3>1, OpenedFinite DEF SessionCodesInv, SessionCodesAreConsecutive, Opened
    <3>3. \A q \in Request \ {r} : OpenSessionsOf(userOf[q])' = OpenSessionsOf(userOf[q])
      BY <1>0, <1>2, <2>2, <3>1, <3>2 DEF CommitOpen
    <3>4. QED
      BY <1>0, <2>2, <3>3 DEF CommitOpen, CashFootprint
  <2>3. CASE CommitClose(r)
    <3>1. /\ till[r] \in Session /\ till[r] \in OpenSessionsOf(userOf[r])
          /\ draft[r] \in SessionRow /\ draft[r].status = "CLOSED"
      BY <1>0, <2>3 DEF CommitClose, DeskAt, OwnDesk
    <3> DEFINE n == session[till[r]].alerts + (IF draft[r].difference # 0 THEN 1 ELSE 0)
    <3>2. n \in Nat
      BY <1>0, <3>1 DEF SessionRow
    <3>3. session' = [session EXCEPT ![till[r]] = [draft[r] EXCEPT !.alerts = n]]
      BY <2>3 DEF CommitClose
    <3> HIDE DEF n
    <3>4. [draft[r] EXCEPT !.alerts = n].status = "CLOSED"
      BY <3>1, <3>2, AlertsFacts
    <3>5. \A q \in Request \ {r} : OpenSessionsOf(userOf[q])' = OpenSessionsOf(userOf[q])
      <4>1. session[till[r]].owner = userOf[r]
        BY <3>1 DEF OpenSessionsOf
      <4>2. \A x \in Session \ {till[r]} : session'[x] = session[x]
        BY <1>0, <3>3
      <4>3. session'[till[r]].status = "CLOSED"
        BY <1>0, <3>1, <3>3, <3>4
      <4>4. QED
        BY <1>2, <3>1, <4>1, <4>2, <4>3
    <3>6. QED
      BY <1>0, <2>3, <3>5 DEF CommitClose, CashFootprint
  <2>4. QED
    BY <1>3, <2>1, <2>2, <2>3 DEF CashStep
<1>4. ASSUME NEW r \in Request, NEW a \in Amount, StartOpen(r, a) \/ StartClose(r, a)
      PROVE  CashFootprint(r)
  BY <1>0, <1>1, <1>4 DEF StartOpen, StartClose, cashVars, CashFootprint
<1>5. ASSUME NEW r \in Request, NEW t \in MoveType, NEW m \in Method, NEW a \in Amount,
             PostMovement(r, t, m, a)
      PROVE  CashFootprint(r)
  BY <1>0, <1>1, <1>5 DEF PostMovement, CashFootprint
<1>6. ASSUME NEW r \in Request, RollbackCash(r)
      PROVE  CashFootprint(r)
  BY <1>0, <1>1, <1>6 DEF RollbackCash, DropPostings, CashFootprint
<1>7. QED
  BY <1>3, <1>4, <1>5, <1>6 DEF CashNext

-----------------------------------------------------------------------------
(* The invariant *)

\* The session a sale or a cancellation has found is still open.
TillDesk(r) ==
    /\ pc[r] \in (SaleLabel \ Posting) \cup {"idle"} => till[r] = None
    /\ pc[r] = "commitSale" => till[r] \in OpenSessionsOf(userOf[r])
    /\ pc[r] = "commitCancel" => till[r] \in OpenSessionsOf(userOf[r]) \cup {None}

TillInv ==
    /\ TypeInv /\ DeskTypeInv
    /\ SessionCodesInv
    /\ DeskInv
    /\ \A r \in Request : TillDesk(r)

\* It holds when the history starts.
LEMMA InitTillInv == TillInit => TillInv
<1> SUFFICES ASSUME TillInit PROVE TillInv
  OBVIOUS
<1>1. Init /\ CashInit
  BY DEF TillInit, Init, CashInit
<1>2. \A r \in Request : TillDesk(r)
  BY DEF TillInit, Init, CashBookInit, TillDesk
<1>3. QED
  BY <1>1, <1>2, InitTypeInv, InitDeskType, InitSessionCodes, InitDeskInv DEF TillInv

\* Sales and cancellations keep it.
LEMMA SalesKeepTill ==
    ASSUME OneRequestPerUser, TillInv, Next, UNCHANGED draft
    PROVE  TillInv'
<1> USE DEF Posting, SaleLabel, CreateLabel, CancelLabel
<1>0. /\ TypeInv /\ DeskTypeInv /\ SessionCodesInv /\ DeskInv
      /\ CashTypeOK /\ DOMAIN pc = Request /\ CashBookTypeOK
      /\ \A r \in Request : TillDesk(r) /\ DeskAt(r) /\ OwnDesk(r)
  BY DEF TillInv, DeskTypeInv, DeskInv, CashTypeOK
<1>1. PICK r \in Request : SaleFootprint(r)
  BY <1>0, SaleMoves
<1>2. /\ pc'[r] \in SaleLabel \cup {"idle"}
      /\ session' = session /\ Opened' = Opened
      /\ \A u : OpenSessionsOf(u)' = OpenSessionsOf(u)
      /\ \A q \in Request \ {r} : pc'[q] = pc[q] /\ till'[q] = till[q] /\ draft'[q] = draft[q]
  BY <1>1 DEF SaleFootprint, Opened, OpenSessionsOf
<1>3. pc'[r] \notin CashLabel
  BY <1>2 DEF CashLabel, OpenLabel, CloseLabel
<1>4. TypeInv' /\ CashBookTypeOK' /\ DOMAIN pc' = Request
  <2>1. TypeInv'
    BY <1>0, NextTypeInv
  <2>2. QED
    BY <2>1 DEF TypeInv, TypeOK
<1>5. DeskTypeInv'
  <2>1. CashTypeOK'
    BY <1>0, <1>4 DEF CashTypeOK
  <2>2. DeskAt(r)'
    BY <1>3 DEF DeskAt, CashLabel, OpenLabel, CloseLabel
  <2>3. QED
    BY <1>0, <1>2, <2>1, <2>2, DeskFrame DEF DeskTypeInv
<1>6. SessionCodesInv'
  BY <1>0, <1>2, <1>3, SessionCodesFrame DEF CashLabel, OpenLabel
<1>7. \A q \in Request : TillDesk(q)'
  <2>1. ASSUME NEW q \in Request \ {r} PROVE TillDesk(q)'
    BY <1>0, <1>2, <2>1 DEF TillDesk
  <2>2. TillDesk(r)'
    BY <1>0, <1>1, <1>2 DEF TillDesk, SaleFootprint
  <2>3. QED
    BY <2>1, <2>2
<1>8. OwnDesk(r)'
  BY <1>3 DEF OwnDesk, CashLabel, OpenLabel, CloseLabel
<1>9. CASE takings' = takings
  BY <1>0, <1>2, <1>4, <1>5, <1>6, <1>7, <1>8, <1>9, OwnDeskFrame DEF TillInv
<1>10. CASE takings' # takings
  <2>1. pc[r] \in Posting
    BY <1>1, <1>10 DEF SaleFootprint
  <2>2. CASE till[r] \notin Session
    <3>1. takings' = takings
      <4>1. \A s \in Session : takings'[s] = takings[s]
        BY <1>1, <2>2 DEF SaleFootprint
      <4>2. takings \in [Session -> Book] /\ takings' \in [Session -> Book]
        BY <1>0, <1>4 DEF CashBookTypeOK
      <4>3. QED
        BY <4>1, <4>2
    <3>2. QED
      BY <1>10, <3>1
  <2>3. CASE till[r] \in Session
    <3> DEFINE s == till[r]
    <3>1. s \in OpenSessionsOf(userOf[r])
      BY <1>0, <2>1, <2>3, NoneIsNoSession DEF TillDesk
    <3>2. session[s].status = "OPEN" /\ session[s].owner = userOf[r]
      BY <3>1 DEF OpenSessionsOf
    <3>3. \A x \in Session \ {s} : session'[x] = session[x] /\ takings'[x] = takings[x]
      BY <1>1 DEF SaleFootprint
    <3> HIDE DEF s
    <3>4. \A q \in Request : OwnDesk(q)'
      BY <1>0, <1>2, <1>8, <2>3, <3>2, <3>3, OtherDesks DEF s
    <3>5. OneOpenSessionPerUser'
      BY <1>0, <1>2 DEF DeskInv, OneOpenSessionPerUser
    <3>6. ClosedTotalsExact'
      BY <1>0, <1>2, <3>2, <3>3 DEF DeskInv, ClosedTotalsExact, Opened
    <3>7. DeskInv'
      BY <1>0, <1>2, <3>4, <3>5, <3>6 DEF DeskInv
    <3>8. QED
      BY <1>4, <1>5, <1>6, <1>7, <3>7 DEF TillInv
  <2>4. QED
    BY <2>2, <2>3
<1>11. QED
  BY <1>9, <1>10

\* Cash desks keep it.
LEMMA CashKeepsTill ==
    ASSUME OneRequestPerUser, TillInv, CashNext, UNCHANGED <<rowVars, saleVars>>
    PROVE  TillInv'
<1> USE DEF SaleLabel, CreateLabel, CancelLabel
<1>0. /\ TypeInv /\ DeskTypeInv /\ SessionCodesInv /\ DeskInv
      /\ TypeOK /\ LocalOK
      /\ \A r \in Request : TillDesk(r)
  BY DEF TillInv, TypeInv
<1>1. DeskTypeInv' /\ SessionCodesInv' /\ DeskInv'
  BY <1>0, NextDeskType, NextSessionCodes, NextDeskInv
<1>2. PICK r \in Request : CashFootprint(r)
  BY <1>0, CashMoves
<1>3. pc'[r] \notin SaleLabel /\ (pc'[r] = "idle" => till'[r] = None)
  BY <1>2 DEF CashFootprint, CashLabel, OpenLabel, CloseLabel
<1>4. TypeInv'
  <2>1. TypeOK'
    BY <1>0, <1>1, SameRowsType DEF TypeOK, DeskTypeInv, CashTypeOK, saleVars
  <2>2. LocalAt(r)'
    BY <1>3 DEF LocalAt
  <2>3. QED
    BY <1>0, <1>2, <2>1, <2>2, LocalFrame DEF TypeInv, CashFootprint, saleVars, Registered
<1>5. \A q \in Request : TillDesk(q)'
  <2>1. TillDesk(r)'
    BY <1>3 DEF TillDesk
  <2>2. ASSUME NEW q \in Request \ {r} PROVE TillDesk(q)'
    BY <1>0, <1>2, <2>2 DEF TillDesk, CashFootprint
  <2>3. QED
    BY <2>1, <2>2
<1>6. QED
  BY <1>1, <1>4, <1>5 DEF TillInv

LEMMA NextTillInv ==
    ASSUME OneRequestPerUser
    PROVE  TillInv /\ [TillNext]_tillVars => TillInv'
<1> SUFFICES ASSUME TillInv, [TillNext]_tillVars PROVE TillInv'
  OBVIOUS
<1>1. CASE Next /\ UNCHANGED draft
  BY <1>1, SalesKeepTill
<1>2. CASE CashNext /\ UNCHANGED <<rowVars, saleVars>>
  BY <1>2, CashKeepsTill
<1>3. CASE UNCHANGED tillVars
  <2>1. TypeInv'
    BY <1>3, NextTypeInv DEF TillInv, tillVars
  <2>2. UNCHANGED deskVars
    BY <1>3 DEF tillVars, vars, deskVars
  <2>3. DeskTypeInv' /\ SessionCodesInv' /\ DeskInv'
    BY <2>2, NextDeskType, NextSessionCodes, NextDeskInv DEF TillInv
  <2>4. \A r \in Request : TillDesk(r)'
    BY <2>2 DEF TillInv, TillDesk, OpenSessionsOf, deskVars, cashVars
  <2>5. QED
    BY <2>1, <2>3, <2>4 DEF TillInv
<1>4. QED
  BY <1>1, <1>2, <1>3 DEF TillNext

-----------------------------------------------------------------------------
(* What users who wait for each answer can rely on *)

\* No user has two open sessions, sales and cancellations included.
THEOREM TillOneOpenSession ==
    ASSUME OneRequestPerUser
    PROVE  TillSpec => []OneOpenSessionPerUser
<1>1. TillInv => OneOpenSessionPerUser
  BY DEF TillInv, DeskInv
<1>2. QED
  BY <1>1, InitTillInv, NextTillInv, PTL DEF TillSpec

\* The closing totals of a session account for its sales, refunds and manual
\* movements, all of them, and a difference has been notified once.
THEOREM TillClosedTotalsExact ==
    ASSUME OneRequestPerUser
    PROVE  TillSpec => []ClosedTotalsExact
<1>1. TillInv => ClosedTotalsExact
  BY DEF TillInv, DeskInv
<1>2. QED
  BY <1>1, InitTillInv, NextTillInv, PTL DEF TillSpec

\* A step of Till is a step of one component.
LEMMA TillSteps ==
    ASSUME TillInv, [TillNext]_tillVars
    PROVE  \/ \E r \in Request : SaleFootprint(r) /\ TillDesk(r)
           \/ [CashNext]_deskVars
<1>1. CASE Next /\ UNCHANGED draft
  BY <1>1, SaleMoves DEF TillInv
<1>2. CASE CashNext
  BY <1>2
<1>3. CASE UNCHANGED tillVars
  BY <1>3 DEF tillVars, vars, deskVars
<1>4. QED
  BY <1>1, <1>2, <1>3 DEF TillNext

\* A closed session never changes.
THEOREM TillClosedIsFinal ==
    ASSUME OneRequestPerUser
    PROVE  TillSpec => ClosedIsFinal
<1> DEFINE Same == \A s \in Session : session[s].status = "CLOSED" => session'[s] = session[s]
<1>1. TillInv /\ [TillNext]_tillVars => Same
  BY TillSteps, ClosedStays DEF TillInv, SaleFootprint
<1>2. QED
  BY <1>1, InitTillInv, NextTillInv, PTL DEF TillSpec, ClosedIsFinal

\* No payment, refund or manual movement enters a session that is not open.
THEOREM TillMovementsNeedOpenSession ==
    ASSUME OneRequestPerUser
    PROVE  TillSpec => MovementsNeedOpenSession
<1> DEFINE Enter == \A s \in Session : takings'[s] # takings[s] => session[s].status = "OPEN"
<1>1. TillInv /\ [TillNext]_tillVars => Enter
  <2> SUFFICES ASSUME TillInv, [TillNext]_tillVars, NEW s \in Session, takings'[s] # takings[s]
               PROVE  session[s].status = "OPEN"
    OBVIOUS
  <2>1. ASSUME NEW r \in Request, SaleFootprint(r), TillDesk(r)
        PROVE  session[s].status = "OPEN"
    <3>1. pc[r] \in Posting /\ s = till[r]
      BY <2>1 DEF SaleFootprint
    <3>2. s \in OpenSessionsOf(userOf[r])
      BY <2>1, <3>1, NoneIsNoSession DEF TillDesk, Posting
    <3>3. QED
      BY <3>2 DEF OpenSessionsOf
  <2>2. QED
    BY <2>1, TillSteps, OnlyOpenGrow DEF TillInv
<1>2. QED
  BY <1>1, InitTillInv, NextTillInv, PTL DEF TillSpec, MovementsNeedOpenSession

\* Only the commit of a sale registers one, in the session the sale has found.
LEMMA SaleRegistered ==
    ASSUME TypeInv, [Next]_vars, NEW n \in SaleNumber, n \notin Registered, n \in Registered'
    PROVE  \E r \in Request : pc[r] = "commitSale" /\ sale'[n].till = till[r]
<1>0. TypeOK /\ LocalOK
  BY DEF TypeInv
<1>1. sale' # sale
  BY DEF Registered
<1>2. ASSUME NEW r \in Request, CommitSale(r)
      PROVE  pc[r] = "commitSale" /\ sale'[n].till = till[r]
  <2>1. pc[r] = "commitSale"
    BY <1>2 DEF CommitSale, Step
  <2>2. number[r] = n
    BY <1>0, <1>2 DEF CommitSale, Registered, TypeOK
  <2>3. QED
    BY <1>0, <1>2, <2>1, <2>2 DEF CommitSale, TypeOK
<1>3. ASSUME NEW r \in Request, CommitCancel(r)
      PROVE  FALSE
  <2>1. number[r] \in Registered
    BY <1>0, <1>3 DEF CommitCancel, Step, LocalOK, LocalAt, CancelLabel
  <2>2. sale'[n] = sale[n]
    BY <1>0, <1>3, <2>1 DEF CommitCancel, TypeOK
  <2>3. QED
    BY <2>2 DEF Registered
<1>4. ASSUME NEW r \in Request, CreateStep(r)
      PROVE  CommitSale(r)
  BY <1>1, <1>4 DEF CreateStep, ValidateItem, CountSales, InsertSale, DecrementStock,
     CollectPayment, saleVars
<1>5. ASSUME NEW r \in Request, CancelStep(r)
      PROVE  CommitCancel(r)
  BY <1>1, <1>5 DEF CancelStep, ReadStock, Restock, MarkCancelled, RefundSale, saleVars
<1>6. ASSUME NEW r \in Request, NEW o \in Order, StartSale(r, o)
      PROVE  FALSE
  BY <1>1, <1>6 DEF StartSale
<1>7. ASSUME NEW r \in Request, NEW m \in SaleNumber, StartCancel(r, m)
      PROVE  FALSE
  BY <1>1, <1>7 DEF StartCancel
<1>8. ASSUME NEW r \in Request, RollbackSale(r)
      PROVE  FALSE
  BY <1>1, <1>8 DEF RollbackSale
<1>9. CASE UNCHANGED vars
  BY <1>1, <1>9 DEF vars, saleVars
<1>10. QED
  BY <1>2, <1>3, <1>4, <1>5, <1>6, <1>7, <1>8, <1>9 DEF Next, SellNext, CancelNext

\* A sale is registered in a session that is still open.
THEOREM TillSalesEnterTheirSession ==
    ASSUME OneRequestPerUser
    PROVE  TillSpec => SalesEnterTheirSession
<1> DEFINE Entered == \A n \in SaleNumber : n \notin Registered /\ n \in Registered' =>
                         session[sale'[n].till].status = "OPEN"
<1>1. TillInv /\ [TillNext]_tillVars => Entered
  <2> SUFFICES ASSUME TillInv, [TillNext]_tillVars,
                      NEW n \in SaleNumber, n \notin Registered, n \in Registered'
               PROVE  session[sale'[n].till].status = "OPEN"
    OBVIOUS
  <2>1. [Next]_vars
    <3>1. sale' # sale
      BY DEF Registered
    <3>2. QED
      BY <3>1 DEF TillNext, tillVars, vars, saleVars
  <2>2. PICK r \in Request : pc[r] = "commitSale" /\ sale'[n].till = till[r]
    BY <2>1, SaleRegistered DEF TillInv
  <2>3. till[r] \in OpenSessionsOf(userOf[r])
    BY <2>2 DEF TillInv, TillDesk
  <2>4. QED
    BY <2>2, <2>3 DEF OpenSessionsOf
<1>2. QED
  BY <1>1, InitTillInv, NextTillInv, PTL DEF TillSpec, SalesEnterTheirSession

-----------------------------------------------------------------------------
(* Quick services beside cash desks: CounterSpec, whoever sends the requests *)

\* What the handler of r reads and computes, and a QuickServiceSale row.
QuickLocal == [number: Nat, sale: QuickSale]

QuickRow == [status: {"COMPLETED", "CANCELLED"}, sale: QuickSale, till: Session, refunds: Nat]

ServingAt(r) ==
    /\ pc[r] \in QuickLabel => serving[r] \in QuickLocal /\ till[r] \in Session
    /\ pc[r] \in {"insertQuick", "commitQuick"} => serving[r].number \in QuickNumber
    /\ pc[r] = "commitQuick" => serving[r].number \notin Served
    /\ pc[r] \in {"writeQuick", "commitRefund"} =>
         /\ serving[r].number \in Served
         /\ quick[serving[r].number].sale = serving[r].sale
         /\ quick[serving[r].number].till = till[r]

\* A handler holds a movement only between its insert and its commit: what the
\* service costs, or less than nothing for its refund.
PostedAt(r) ==
    \A m \in Method :
        posting[r]["INCOME"][m] =
            IF pc[r] = "commitQuick" /\ serving[r].sale.method = m
            THEN serving[r].sale.total
            ELSE IF pc[r] = "commitRefund" /\ serving[r].sale.method = m
                 THEN -serving[r].sale.total
                 ELSE 0

\* The unique index: one handler at a time holds a number it has inserted.
QuickNumbersHeldOnce ==
    \A q, r \in Request :
        pc[q] = "commitQuick" /\ pc[r] = "commitQuick" /\ serving[q].number = serving[r].number
            => q = r

QuickTypeOK ==
    /\ quick \in [QuickNumber -> QuickRow \cup {NoQuick}]
    /\ serving \in [Request -> QuickLocal \cup {None}]

ServingInv ==
    /\ QuickTypeOK
    /\ \A r \in Request : ServingAt(r)
    /\ QuickNumbersHeldOnce

CollectedInv == TakingsMatchServices /\ \A r \in Request : PostedAt(r)

DeskInvs == DeskTypeInv /\ SessionCodesInv

CounterInv == DeskInvs /\ ServingInv

\* The hypothesis under which INCOME is what quick services collect: no manual
\* movement, which must be of more than zero, is entered.
NoManualMovements == Amount \subseteq {0}

\* A quick sale in the shape the actions use.
LEMMA QuickSaleFacts ==
    ASSUME NEW q \in QuickSale
    PROVE  q.total \in Nat /\ q.method \in Method
  BY QuickAssumption

\* The rows of quick services can be counted, and each is well formed.
LEMMA ServedFacts ==
    ASSUME QuickTypeOK
    PROVE  /\ IsFiniteSet(Served) /\ Cardinality(Served) \in Nat
           /\ \A n \in Served : n \in QuickNumber /\ quick[n] \in QuickRow
<1>1. IsFiniteSet(QuickNumber)
  BY FS_Interval, QuickAssumption DEF QuickNumber
<1>2. IsFiniteSet(Served) /\ Cardinality(Served) \in Nat
  BY <1>1, FS_Subset, FS_CardinalityType DEF Served
<1>3. \A n \in Served : n \in QuickNumber /\ quick[n] \in QuickRow
  BY DEF QuickTypeOK, Served, NoQuick
<1>4. QED
  BY <1>2, <1>3

-----------------------------------------------------------------------------
(* The handlers of quick services *)

\* What a step of a quick service may touch: nothing of the other handlers, no
\* session, and of the rows those it has the number of.
QuickFootprint(r) ==
    /\ pc[r] \in QuickLabel \cup {"idle"}
    /\ pc'[r] \in QuickLabel \cup {"idle"}
    /\ DOMAIN pc' = Request
    /\ session' = session /\ draft' = draft
    /\ CashBookTypeOK' /\ QuickTypeOK'
    /\ ServingAt(r)'
    /\ \A q \in Request \ {r} :
         /\ pc'[q] = pc[q] /\ till'[q] = till[q]
         /\ posting'[q] = posting[q] /\ serving'[q] = serving[q]
    /\ \A n \in Served : /\ n \in Served'
                         /\ quick'[n].sale = quick[n].sale
                         /\ quick'[n].till = quick[n].till
    /\ \A n \in Served' \ Served : pc[r] = "commitQuick" /\ serving[r].number = n
    /\ pc'[r] = "commitQuick" =>
         \A q \in Request : pc[q] = "commitQuick" => serving[q].number # serving'[r].number

\* Statements that write no row: what is left to show of them.
LEMMA QuietQuick ==
    ASSUME CounterInv, NEW r \in Request, NEW to, pc' = [pc EXCEPT ![r] = to],
           pc[r] \in QuickLabel \cup {"idle"}, to \in QuickLabel \cup {"idle"},
           session' = session, draft' = draft, quick' = quick,
           CashBookTypeOK', serving' \in [Request -> QuickLocal \cup {None}],
           \A q \in Request \ {r} :
             till'[q] = till[q] /\ posting'[q] = posting[q] /\ serving'[q] = serving[q],
           ServingAt(r)',
           to = "commitQuick" =>
             \A q \in Request : pc[q] = "commitQuick" => serving[q].number # serving'[r].number
    PROVE  QuickFootprint(r)
<1>1. DOMAIN pc = Request
  BY DEF CounterInv, DeskInvs, DeskTypeInv, CashTypeOK
<1>2. DOMAIN pc' = Request /\ pc'[r] = to /\ \A q \in Request \ {r} : pc'[q] = pc[q]
  BY <1>1
<1>3. Served' = Served /\ QuickTypeOK'
  BY DEF Served, QuickTypeOK, CounterInv, ServingInv
<1>4. QED
  BY <1>2, <1>3 DEF QuickFootprint

LEMMA QuickMoves ==
    ASSUME CounterInv, QuickNext, UNCHANGED draft
    PROVE  \E r \in Request : QuickFootprint(r)
<1> USE DEF QuickLabel
<1>0. /\ DOMAIN pc = Request /\ CashBookTypeOK /\ QuickTypeOK
      /\ \A r \in Request : ServingAt(r)
      /\ quick \in [QuickNumber -> QuickRow \cup {NoQuick}]
      /\ serving \in [Request -> QuickLocal \cup {None}]
      /\ till \in [Request -> Session \cup {None}]
      /\ posting \in [Request -> Book]
  BY DEF CounterInv, DeskInvs, DeskTypeInv, CashTypeOK, ServingInv, QuickTypeOK, CashBookTypeOK
<1>1. ASSUME NEW r \in Request, NEW q \in QuickSale, StartQuick(r, q)
      PROVE  QuickFootprint(r)
  <2>1. PICK s \in OpenSessionsOf(userOf[r]) : till' = [till EXCEPT ![r] = s]
    BY <1>1 DEF StartQuick
  <2>2. s \in Session
    BY DEF OpenSessionsOf
  <2>3. PICK l \in QuickLocal : l = [number |-> 0, sale |-> q]
    BY DEF QuickLocal
  <2>4. /\ serving' = [serving EXCEPT ![r] = l]
        /\ pc[r] = "idle" /\ pc' = [pc EXCEPT ![r] = "readServices"]
        /\ UNCHANGED <<session, takings, posting, quick>>
    BY <1>1, <2>3 DEF StartQuick, Step
  <2>5. CashBookTypeOK'
    BY <1>0, <2>1, <2>2, <2>4 DEF CashBookTypeOK
  <2>6. ServingAt(r)'
    BY <1>0, <2>1, <2>2, <2>4 DEF ServingAt
  <2>7. serving' \in [Request -> QuickLocal \cup {None}]
    BY <1>0, <2>4
  <2>8. QED
    BY <1>0, <2>1, <2>4, <2>5, <2>6, <2>7, QuietQuick
<1>2. ASSUME NEW r \in Request, ReadServices(r)
      PROVE  QuickFootprint(r)
  <2>1. PICK c : c = Cardinality(Served) + 1
    OBVIOUS
  <2>2. c \in QuickNumber /\ c \in Nat
    BY <1>0, <1>2, <2>1, ServedFacts, QuickAssumption DEF ReadServices, QuickNumber
  <2>3. /\ serving' = [serving EXCEPT ![r].number = c]
        /\ pc[r] = "readServices" /\ pc' = [pc EXCEPT ![r] = "insertQuick"]
        /\ UNCHANGED <<session, takings, till, posting, quick>>
    BY <1>2, <2>1 DEF ReadServices, Step, cashVars
  <2>4. serving[r] \in QuickLocal /\ till[r] \in Session
    BY <1>0, <2>3 DEF ServingAt
  <2>5. serving' \in [Request -> QuickLocal \cup {None}] /\ serving'[r] \in QuickLocal
        /\ serving'[r].number = c
    BY <1>0, <2>2, <2>3, <2>4 DEF QuickLocal
  <2>6. CashBookTypeOK'
    BY <1>0, <2>3 DEF CashBookTypeOK
  <2>7. ServingAt(r)'
    BY <1>0, <2>2, <2>3, <2>4, <2>5 DEF ServingAt
  <2>8. QED
    BY <1>0, <2>3, <2>5, <2>6, <2>7, QuietQuick
<1>3. ASSUME NEW r \in Request, InsertQuick(r)
      PROVE  QuickFootprint(r)
  <2>1. pc[r] = "insertQuick" /\ pc' = [pc EXCEPT ![r] = "commitQuick"]
    BY <1>3 DEF InsertQuick, Step
  <2>2. serving[r] \in QuickLocal /\ till[r] \in Session /\ serving[r].number \in QuickNumber
    BY <1>0, <2>1 DEF ServingAt
  <2>3. PICK b \in Book : posting' = [posting EXCEPT ![r] = b]
    <3>1. serving[r].sale.total \in Int /\ serving[r].sale.method \in Method
      BY <2>2, QuickSaleFacts DEF QuickLocal
    <3>2. PostOne("INCOME", serving[r].sale.method, serving[r].sale.total) \in Book
      BY <3>1, PostOneType DEF MoveType
    <3>3. QED
      BY <1>3, <3>2 DEF InsertQuick
  <2>4. /\ serving[r].number \notin Served
        /\ \A q \in Request : pc[q] = "commitQuick" => serving[q].number # serving[r].number
        /\ UNCHANGED <<session, takings, till, quick, serving>>
    BY <1>3 DEF InsertQuick, quickVars
  <2>5. CashBookTypeOK'
    BY <1>0, <2>3, <2>4 DEF CashBookTypeOK
  <2>6. ServingAt(r)'
    BY <1>0, <2>1, <2>2, <2>4 DEF ServingAt, Served
  <2>7. QED
    BY <1>0, <2>1, <2>3, <2>4, <2>5, <2>6, QuietQuick
<1>4. ASSUME NEW r \in Request, NEW n \in Served, StartCancelQuick(r, n)
      PROVE  QuickFootprint(r)
  <2>1. n \in QuickNumber /\ quick[n] \in QuickRow
    BY <1>0, ServedFacts
  <2>2. PICK l \in QuickLocal : l = [number |-> n, sale |-> quick[n].sale]
    <3>1. n \in Nat /\ quick[n].sale \in QuickSale
      BY <2>1, QuickAssumption DEF QuickRow, QuickNumber
    <3>2. [number |-> n, sale |-> quick[n].sale] \in QuickLocal
      BY <3>1 DEF QuickLocal
    <3>3. QED
      BY <3>2
  <2>3. /\ serving' = [serving EXCEPT ![r] = l]
        /\ till' = [till EXCEPT ![r] = quick[n].till]
        /\ pc[r] = "idle" /\ pc' = [pc EXCEPT ![r] = "writeQuick"]
        /\ UNCHANGED <<session, takings, posting, quick>>
    BY <1>4, <2>2 DEF StartCancelQuick, Step
  <2>4. quick[n].till \in Session
    BY <2>1 DEF QuickRow
  <2>5. CashBookTypeOK'
    BY <1>0, <2>3, <2>4 DEF CashBookTypeOK
  <2>6. ServingAt(r)'
    BY <1>0, <2>2, <2>3, <2>4 DEF ServingAt, Served
  <2>7. serving' \in [Request -> QuickLocal \cup {None}]
    BY <1>0, <2>3
  <2>8. QED
    BY <1>0, <2>3, <2>5, <2>6, <2>7, QuietQuick
<1>5. ASSUME NEW r \in Request, WriteQuick(r)
      PROVE  QuickFootprint(r)
  <2>1. pc[r] = "writeQuick" /\ pc' = [pc EXCEPT ![r] = "commitRefund"]
    BY <1>5 DEF WriteQuick, Step
  <2>2. serving[r] \in QuickLocal /\ till[r] \in Session
    BY <1>0, <2>1 DEF ServingAt
  <2>3. PICK b \in Book : posting' = [posting EXCEPT ![r] = b]
    <3>1. -serving[r].sale.total \in Int /\ serving[r].sale.method \in Method
      BY <2>2, QuickSaleFacts DEF QuickLocal
    <3>2. PostOne("INCOME", serving[r].sale.method, -serving[r].sale.total) \in Book
      BY <3>1, PostOneType DEF MoveType
    <3>3. QED
      BY <1>5, <3>2 DEF WriteQuick
  <2>4. UNCHANGED <<session, takings, till, quick, serving>>
    BY <1>5 DEF WriteQuick, quickVars
  <2>5. CashBookTypeOK'
    BY <1>0, <2>3, <2>4 DEF CashBookTypeOK
  <2>6. ServingAt(r)'
    BY <1>0, <2>1, <2>2, <2>4 DEF ServingAt, Served
  <2>7. QED
    BY <1>0, <2>1, <2>3, <2>4, <2>5, <2>6, QuietQuick
<1>6. ASSUME NEW r \in Request, CommitPostings(r) \/ DropPostings(r), UNCHANGED session,
             pc[r] \in QuickLabel, pc' = [pc EXCEPT ![r] = "idle"],
             serving' = [serving EXCEPT ![r] = None], QuickTypeOK',
             \A n \in Served : /\ n \in Served'
                               /\ quick'[n].sale = quick[n].sale
                               /\ quick'[n].till = quick[n].till,
             \A n \in Served' \ Served : pc[r] = "commitQuick" /\ serving[r].number = n
      PROVE  QuickFootprint(r)
  <2>1. CashBookTypeOK'
    BY <1>0, <1>6, CommitPostingsType, DropPostingsType
  <2>2. /\ DOMAIN pc' = Request /\ pc'[r] = "idle"
        /\ \A q \in Request \ {r} : pc'[q] = pc[q] /\ serving'[q] = serving[q]
    BY <1>0, <1>6
  <2>3. \A q \in Request \ {r} : till'[q] = till[q] /\ posting'[q] = posting[q]
    BY <1>0, <1>6 DEF CommitPostings, DropPostings
  <2>4. ServingAt(r)'
    BY <2>2 DEF ServingAt
  <2>5. QED
    BY <1>6, <2>1, <2>2, <2>3, <2>4 DEF QuickFootprint
<1>7. ASSUME NEW r \in Request, CommitQuick(r)
      PROVE  QuickFootprint(r)
  <2>1. /\ pc[r] = "commitQuick" /\ pc' = [pc EXCEPT ![r] = "idle"]
        /\ CommitPostings(r) /\ serving' = [serving EXCEPT ![r] = None]
        /\ UNCHANGED session
    BY <1>7 DEF CommitQuick, Step
  <2>2. /\ serving[r] \in QuickLocal /\ till[r] \in Session
        /\ serving[r].number \in QuickNumber /\ serving[r].number \notin Served
    BY <1>0, <2>1 DEF ServingAt
  <2>3. PICK row \in QuickRow : /\ quick' = [quick EXCEPT ![serving[r].number] = row]
                                /\ row.status = "COMPLETED"
    <3>1. PICK row : row = [status |-> "COMPLETED", sale |-> serving[r].sale,
                            till |-> till[r], refunds |-> 0]
      OBVIOUS
    <3>2. row \in QuickRow /\ row.status = "COMPLETED"
      BY <2>2, <3>1 DEF QuickRow, QuickLocal
    <3>3. QED
      BY <1>7, <3>1, <3>2 DEF CommitQuick
  <2>4. QuickTypeOK'
    BY <1>0, <2>1, <2>2, <2>3 DEF QuickTypeOK
  <2>5. /\ \A n \in Served : n \in Served' /\ quick'[n] = quick[n]
        /\ \A n \in Served' \ Served : serving[r].number = n
    BY <1>0, <2>2, <2>3 DEF Served
  <2>6. QED
    BY <1>6, <2>1, <2>4, <2>5
<1>8. ASSUME NEW r \in Request, CommitRefund(r)
      PROVE  QuickFootprint(r)
  <2>1. /\ pc[r] = "commitRefund" /\ pc' = [pc EXCEPT ![r] = "idle"]
        /\ CommitPostings(r) /\ serving' = [serving EXCEPT ![r] = None]
        /\ UNCHANGED session
    BY <1>8 DEF CommitRefund, Step
  <2>2. PICK n : n = serving[r].number
    OBVIOUS
  <2>3. n \in Served /\ n \in QuickNumber /\ quick[n] \in QuickRow
    BY <1>0, <2>1, <2>2, ServedFacts DEF ServingAt
  <2>4. PICK row \in QuickRow : /\ quick' = [quick EXCEPT ![n] = row]
                                /\ row.status = "CANCELLED"
                                /\ row.sale = quick[n].sale /\ row.till = quick[n].till
    <3>1. quick' = [quick EXCEPT ![n].status = "CANCELLED", ![n].refunds = @ + 1]
      BY <1>8, <2>2 DEF CommitRefund
    <3>2. PICK row : row = [status |-> "CANCELLED", sale |-> quick[n].sale,
                            till |-> quick[n].till, refunds |-> quick[n].refunds + 1]
      OBVIOUS
    <3>3. row \in QuickRow
      BY <2>3, <3>2 DEF QuickRow
    <3>4. quick' = [quick EXCEPT ![n] = row]
      BY <1>0, <2>3, <3>1, <3>2 DEF QuickRow
    <3>5. QED
      BY <3>2, <3>3, <3>4
  <2>5. QuickTypeOK'
    BY <1>0, <2>1, <2>3, <2>4 DEF QuickTypeOK
  <2>6. /\ \A k \in Served : /\ k \in Served'
                             /\ quick'[k].sale = quick[k].sale
                             /\ quick'[k].till = quick[k].till
        /\ \A k \in Served' \ Served : FALSE
    BY <1>0, <2>3, <2>4 DEF Served
  <2>7. QED
    BY <1>6, <2>1, <2>5, <2>6
<1>9. ASSUME NEW r \in Request, RollbackQuick(r)
      PROVE  QuickFootprint(r)
  <2>1. /\ pc[r] \in QuickLabel /\ pc' = [pc EXCEPT ![r] = "idle"]
        /\ DropPostings(r) /\ serving' = [serving EXCEPT ![r] = None]
        /\ UNCHANGED <<session, quick>>
    BY <1>9 DEF RollbackQuick
  <2>2. QuickTypeOK' /\ Served' = Served
    BY <1>0, <2>1 DEF QuickTypeOK, Served
  <2>3. QED
    BY <1>6, <2>1, <2>2
<1>10. ASSUME NEW r \in Request, NEW s \in Service, DeactivateService(r, s)
       PROVE  QuickFootprint(r)
  <2>1. pc[r] = "idle" /\ UNCHANGED <<pc, cashVars, quick, serving>>
    BY <1>10 DEF DeactivateService, Idle
  <2>2. CashBookTypeOK' /\ QuickTypeOK' /\ Served' = Served
    BY <1>0, <2>1 DEF cashVars, CashBookTypeOK, QuickTypeOK, Served
  <2>3. ServingAt(r)'
    BY <2>1 DEF ServingAt
  <2>4. QED
    BY <1>0, <2>1, <2>2, <2>3 DEF QuickFootprint, cashVars
<1>11. QED
  BY <1>1, <1>2, <1>3, <1>4, <1>5, <1>7, <1>8, <1>9, <1>10 DEF QuickNext, QuickStep

\* The invariants of the cash desks survive a step of a quick service.
LEMMA QuickKeepsDesks ==
    ASSUME DeskInvs, NEW r \in Request, QuickFootprint(r)
    PROVE  DeskInvs'
<1>0. /\ DeskTypeInv /\ SessionCodesInv /\ \A q \in Request : DeskAt(q)
      /\ draft \in [Request -> SessionRow \cup {None}]
  BY DEF DeskInvs, DeskTypeInv, CashTypeOK
<1>1. pc'[r] \notin CashLabel
  BY DEF QuickFootprint, QuickLabel, CashLabel, OpenLabel, CloseLabel
<1>2. Opened' = Opened
  BY DEF QuickFootprint, Opened
<1>3. CashTypeOK'
  BY <1>0 DEF QuickFootprint, CashTypeOK
<1>4. DeskAt(r)'
  BY <1>1 DEF DeskAt, CashLabel, OpenLabel, CloseLabel
<1>5. DeskTypeInv'
  BY <1>0, <1>2, <1>3, <1>4, DeskFrame DEF QuickFootprint, DeskTypeInv
<1>6. SessionCodesInv'
  BY <1>0, <1>1, <1>2, SessionCodesFrame DEF QuickFootprint, CashLabel, OpenLabel
<1>7. QED
  BY <1>5, <1>6 DEF DeskInvs

\* And those of the quick services.
LEMMA QuickKeepsServing ==
    ASSUME ServingInv, NEW r \in Request, QuickFootprint(r)
    PROVE  ServingInv'
<1>0. QuickTypeOK /\ QuickNumbersHeldOnce /\ \A q \in Request : ServingAt(q)
  BY DEF ServingInv
<1>1. ASSUME NEW q \in Request \ {r} PROVE ServingAt(q)'
  <2>1. ServingAt(q) /\ pc'[q] = pc[q] /\ till'[q] = till[q] /\ serving'[q] = serving[q]
    BY <1>0 DEF QuickFootprint
  <2>2. pc[q] = "commitQuick" => serving[q].number \notin Served'
    BY <1>0, <2>1 DEF ServingAt, QuickFootprint, QuickNumbersHeldOnce
  <2>3. pc[q] \in {"writeQuick", "commitRefund"} =>
          /\ serving[q].number \in Served'
          /\ quick'[serving[q].number].sale = serving[q].sale
          /\ quick'[serving[q].number].till = till[q]
    BY <2>1 DEF ServingAt, QuickFootprint
  <2>4. QED
    BY <2>1, <2>2, <2>3 DEF ServingAt
<1>2. QuickNumbersHeldOnce'
  BY <1>0 DEF QuickFootprint, QuickNumbersHeldOnce
<1>3. QED
  BY <1>1, <1>2 DEF ServingInv, QuickFootprint

\* What a step of a cash desk leaves alone.
LEMMA CashKeepsServing ==
    ASSUME CounterInv, CashNext, UNCHANGED quickVars
    PROVE  /\ ServingInv'
           /\ \E r \in Request : /\ pc[r] \notin QuickLabel /\ pc'[r] \notin QuickLabel
                                 /\ \A q \in Request \ {r} : pc'[q] = pc[q]
<1>0. /\ DOMAIN pc = Request /\ till \in [Request -> Session \cup {None}]
      /\ ServingInv /\ QuickTypeOK /\ QuickNumbersHeldOnce /\ \A q \in Request : ServingAt(q)
  BY DEF CounterInv, DeskInvs, DeskTypeInv, CashTypeOK, CashBookTypeOK, ServingInv
<1>1. PICK r \in Request, to \in CashLabel \cup {"idle"} :
        /\ pc[r] \in CashLabel \cup {"idle"} /\ pc' = [pc EXCEPT ![r] = to]
        /\ \A q \in Request \ {r} : till'[q] = till[q]
  <2> USE DEF CashLabel, OpenLabel, CloseLabel, Step, cashVars
  <2>1. ASSUME NEW r \in Request, NEW a \in Amount, StartOpen(r, a) \/ StartClose(r, a)
        PROVE  \E to \in CashLabel \cup {"idle"} :
                 /\ pc[r] \in CashLabel \cup {"idle"} /\ pc' = [pc EXCEPT ![r] = to]
                 /\ \A q \in Request \ {r} : till'[q] = till[q]
    BY <1>0, <2>1 DEF StartOpen, StartClose
  <2>2. ASSUME NEW r \in Request, NEW t \in MoveType, NEW m \in Method, NEW a \in Amount,
               PostMovement(r, t, m, a)
        PROVE  \E to \in CashLabel \cup {"idle"} :
                 /\ pc[r] \in CashLabel \cup {"idle"} /\ pc' = [pc EXCEPT ![r] = to]
                 /\ \A q \in Request \ {r} : till'[q] = till[q]
    BY <1>0, <2>2 DEF PostMovement
  <2>3. ASSUME NEW r \in Request, CashStep(r)
        PROVE  \E to \in CashLabel \cup {"idle"} :
                 /\ pc[r] \in CashLabel \cup {"idle"} /\ pc' = [pc EXCEPT ![r] = to]
                 /\ \A q \in Request \ {r} : till'[q] = till[q]
    <3>1. CASE CountSessions(r)
      BY <1>0, <3>1 DEF CountSessions
    <3>2. CASE InsertSession(r)
      BY <1>0, <3>2 DEF InsertSession
    <3>3. CASE CommitOpen(r)
      BY <1>0, <3>3 DEF CommitOpen
    <3>4. CASE CommitMovement(r)
      BY <1>0, <3>4 DEF CommitMovement, CommitPostings
    <3>5. CASE RecheckOpen(r)
      BY <1>0, <3>5 DEF RecheckOpen
    <3>6. CASE SumMovements(r)
      BY <1>0, <3>6 DEF SumMovements
    <3>7. CASE WriteClose(r)
      BY <1>0, <3>7 DEF WriteClose
    <3>8. CASE CommitClose(r)
      BY <1>0, <3>8 DEF CommitClose
    <3>9. QED
      BY <2>3, <3>1, <3>2, <3>3, <3>4, <3>5, <3>6, <3>7, <3>8 DEF CashStep
  <2>4. ASSUME NEW r \in Request, RollbackCash(r)
        PROVE  \E to \in CashLabel \cup {"idle"} :
                 /\ pc[r] \in CashLabel \cup {"idle"} /\ pc' = [pc EXCEPT ![r] = to]
                 /\ \A q \in Request \ {r} : till'[q] = till[q]
    BY <1>0, <2>4 DEF RollbackCash, DropPostings
  <2> HIDE DEF CashLabel, OpenLabel, CloseLabel, Step, cashVars
  <2>5. QED
    BY <2>1, <2>2, <2>3, <2>4 DEF CashNext
<1>2. pc[r] \notin QuickLabel /\ pc'[r] \notin QuickLabel /\ \A q \in Request \ {r} : pc'[q] = pc[q]
  BY <1>0, <1>1 DEF CashLabel, OpenLabel, CloseLabel, QuickLabel
<1>3. Served' = Served /\ quick' = quick /\ serving' = serving
  BY DEF quickVars, Served
<1>4. \A q \in Request : ServingAt(q)'
  BY <1>0, <1>1, <1>2, <1>3 DEF ServingAt, QuickLabel
<1>5. QuickNumbersHeldOnce'
  BY <1>0, <1>2, <1>3 DEF QuickNumbersHeldOnce, QuickLabel
<1>6. ServingInv'
  BY <1>0, <1>3, <1>4, <1>5 DEF ServingInv, QuickTypeOK
<1>7. QED
  BY <1>2, <1>6

LEMMA NextCounterInv == CounterInv /\ [CounterNext]_counterVars => CounterInv'
<1> SUFFICES ASSUME CounterInv, [CounterNext]_counterVars PROVE CounterInv'
  OBVIOUS
<1>1. CASE CashNext /\ UNCHANGED quickVars
  BY <1>1, CashKeepsServing, NextDeskType, NextSessionCodes DEF CounterInv, DeskInvs
<1>2. CASE QuickNext /\ UNCHANGED draft
  BY <1>2, QuickMoves, QuickKeepsDesks, QuickKeepsServing DEF CounterInv
<1>3. CASE UNCHANGED counterVars
  <2>1. UNCHANGED deskVars /\ UNCHANGED quickVars
    BY <1>3 DEF counterVars
  <2>2. DeskInvs'
    BY <2>1, NextDeskType, NextSessionCodes DEF CounterInv, DeskInvs
  <2>3. ServingInv'
    BY <2>1 DEF CounterInv, ServingInv, QuickTypeOK, ServingAt, QuickNumbersHeldOnce, Served,
       deskVars, cashVars, quickVars
  <2>4. QED
    BY <2>2, <2>3 DEF CounterInv
<1>4. QED
  BY <1>1, <1>2, <1>3 DEF CounterNext

LEMMA InitCounterInv == CounterInit => CounterInv
<1> SUFFICES ASSUME CounterInit PROVE CounterInv
  OBVIOUS
<1>1. DeskInvs
  BY InitDeskType, InitSessionCodes DEF CounterInit, DeskInvs
<1>2. ServingInv
  BY DEF CounterInit, CashInit, QuickInit, ServingInv, QuickTypeOK, ServingAt,
     QuickNumbersHeldOnce, QuickLabel
<1>3. QED
  BY <1>1, <1>2 DEF CounterInv

\* The codes of the sessions have no gap and no repetition when quick services
\* are collected and refunded beside the desks, whoever sends the requests.
THEOREM CounterCodesAreConsecutive == CounterSpec => []SessionCodesAreConsecutive
<1>1. CounterInv => SessionCodesAreConsecutive
  BY DEF CounterInv, DeskInvs, SessionCodesInv
<1>2. QED
  BY <1>1, InitCounterInv, NextCounterInv, PTL DEF CounterSpec

-----------------------------------------------------------------------------
(* The money of quick services *)

\* Neither what the sums read of the services nor the INCOME changes.
LEMMA CollectedStays ==
    ASSUME QuickTypeOK, TakingsMatchServices, quick' = quick,
           \A s \in Session, m \in Method : takings'[s]["INCOME"][m] = takings[s]["INCOME"][m]
    PROVE  TakingsMatchServices'
  BY DEF TakingsMatchServices, Collected, ServicesIn, Served

\* What a row of a quick service has collected.
Net(row) == row.sale.total * (1 - row.refunds)

LEMMA NetFacts ==
    ASSUME NEW row \in QuickRow
    PROVE  /\ Net(row) \in Int
           /\ row.sale \in QuickSale /\ row.till \in Session
           /\ row.sale.total * (1 - (row.refunds + 1)) = Net(row) - row.sale.total
<1>1. row.sale \in QuickSale /\ row.refunds \in Nat /\ row.till \in Session
  BY DEF QuickRow
<1>2. row.sale.total \in Nat
  BY <1>1, QuickSaleFacts
<1>3. \A x, k \in Int : x * (1 - k) \in Int /\ x * (1 - (k + 1)) = x * (1 - k) - x
  OBVIOUS
<1>4. QED
  BY <1>1, <1>2, <1>3 DEF Net

\* The terms of the sums.
LEMMA CollectedFacts ==
    ASSUME QuickTypeOK
    PROVE  \A n \in Served : Collected[n] = Net(quick[n]) /\ Collected[n] \in Int
  BY ServedFacts, NetFacts DEF Collected, Net

\* A service is registered, and what it costs enters its session.
LEMMA CollectedGrows ==
    ASSUME QuickTypeOK, QuickTypeOK', TakingsMatchServices, NEW n, n \notin Served,
           Served' = Served \cup {n}, \A k \in Served : quick'[k] = quick[k],
           NEW t, quick'[n].till = t, quick'[n].refunds = 0,
           \A s \in Session, m \in Method : takings'[s]["INCOME"][m] =
             IF s = t /\ quick'[n].sale.method = m
             THEN takings[s]["INCOME"][m] + quick'[n].sale.total
             ELSE takings[s]["INCOME"][m]
    PROVE  TakingsMatchServices'
<1> SUFFICES ASSUME NEW s \in Session, NEW m \in Method
             PROVE  takings'[s]["INCOME"][m] = SumFunctionOnSet(Collected', ServicesIn(s, m)')
  BY DEF TakingsMatchServices
<1>1. PICK f, g, S : f = Collected /\ g = Collected' /\ S = ServicesIn(s, m)
  OBVIOUS
<1>2. S \subseteq Served /\ IsFiniteSet(S) /\ n \notin S
  BY <1>1, ServedFacts, FS_Subset DEF ServicesIn
<1>3. \A k \in Served : f[k] = Net(quick[k]) /\ f[k] \in Int
  BY <1>1, CollectedFacts
<1>4. \A k \in Served \cup {n} : g[k] = Net(quick'[k]) /\ g[k] \in Int
  <2>1. \A k \in Served' : Collected'[k] = Net(quick'[k]) /\ Collected'[k] \in Int
    <3>1. \A k \in Served' : k \in QuickNumber /\ quick'[k] \in QuickRow
      BY DEF QuickTypeOK, Served, NoQuick
    <3>2. QED
      BY <3>1, NetFacts DEF Collected, Net
  <2>2. QED
    BY <1>1, <2>1
<1>5. \A k \in S : f[k] = g[k]
  BY <1>2, <1>3, <1>4
<1>6. SumFunctionOnSet(f, S) = SumFunctionOnSet(g, S)
  BY <1>2, <1>5, SumSame
<1>7. g[n] \in Int /\ \A k \in S : g[k] \in Int
  BY <1>2, <1>4
<1>8. SumFunctionOnSet(g, S \cup {n}) = SumFunctionOnSet(g, S) + g[n]
  BY <1>2, <1>7, SumAdded
<1>9. g[n] = quick'[n].sale.total
  <2>1. quick'[n] \in QuickRow
    BY DEF QuickTypeOK, Served, NoQuick
  <2>2. quick'[n].sale.total \in Nat
    BY <2>1, QuickSaleFacts DEF QuickRow
  <2>3. QED
    BY <1>4, <2>2 DEF Net
<1>10. takings[s]["INCOME"][m] = SumFunctionOnSet(f, S)
  BY <1>1 DEF TakingsMatchServices
<1>11. CASE s = t /\ quick'[n].sale.method = m
  <2>1. ServicesIn(s, m)' = S \cup {n}
    BY <1>1, <1>11 DEF ServicesIn
  <2>2. QED
    BY <1>1, <1>6, <1>8, <1>9, <1>10, <1>11, <2>1
<1>12. CASE ~(s = t /\ quick'[n].sale.method = m)
  <2>1. ServicesIn(s, m)' = S
    BY <1>1, <1>12 DEF ServicesIn
  <2>2. QED
    BY <1>1, <1>6, <1>10, <1>12, <2>1
<1>13. QED
  BY <1>11, <1>12

\* A service is refunded, in the session and by the method of its payment.
LEMMA CollectedShrinks ==
    ASSUME QuickTypeOK, QuickTypeOK', TakingsMatchServices, NEW n \in Served,
           Served' = Served, \A k \in Served \ {n} : quick'[k] = quick[k],
           quick'[n].sale = quick[n].sale, quick'[n].till = quick[n].till,
           quick'[n].refunds = quick[n].refunds + 1,
           \A s \in Session, m \in Method : takings'[s]["INCOME"][m] =
             IF s = quick[n].till /\ quick[n].sale.method = m
             THEN takings[s]["INCOME"][m] - quick[n].sale.total
             ELSE takings[s]["INCOME"][m]
    PROVE  TakingsMatchServices'
<1> SUFFICES ASSUME NEW s \in Session, NEW m \in Method
             PROVE  takings'[s]["INCOME"][m] = SumFunctionOnSet(Collected', ServicesIn(s, m)')
  BY DEF TakingsMatchServices
<1>0. ServicesIn(s, m)' = ServicesIn(s, m)
  BY DEF ServicesIn
<1>1. PICK f, g, S : f = Collected /\ g = Collected' /\ S = ServicesIn(s, m)
  OBVIOUS
<1>2. S \subseteq Served /\ IsFiniteSet(S)
  BY <1>1, ServedFacts, FS_Subset DEF ServicesIn
<1>3. \A k \in Served : f[k] = Net(quick[k]) /\ f[k] \in Int
  BY <1>1, CollectedFacts
<1>4. \A k \in Served \ {n} : g[k] = f[k]
  BY <1>1 DEF Collected
<1>5. g[n] = f[n] - quick[n].sale.total /\ g[n] \in Int
  <2>1. quick[n] \in QuickRow
    BY ServedFacts
  <2>2. g[n] = quick[n].sale.total * (1 - (quick[n].refunds + 1))
    BY <1>1 DEF Collected
  <2>3. quick[n].sale.total \in Int
    BY <2>1, NetFacts, QuickSaleFacts
  <2>4. g[n] = Net(quick[n]) - quick[n].sale.total
    BY <2>1, <2>2, NetFacts
  <2>5. f[n] = Net(quick[n]) /\ Net(quick[n]) \in Int
    BY <1>3
  <2>6. QED
    BY <2>3, <2>4, <2>5
<1>6. takings[s]["INCOME"][m] = SumFunctionOnSet(f, S)
  BY <1>1 DEF TakingsMatchServices
<1>7. CASE n \in S
  <2>1. s = quick[n].till /\ quick[n].sale.method = m
    BY <1>1, <1>7 DEF ServicesIn
  <2>2. (\A k \in S : f[k] \in Int) /\ (\A k \in S \ {n} : g[k] = f[k])
    BY <1>2, <1>3, <1>4
  <2>3. SumFunctionOnSet(g, S) = SumFunctionOnSet(f, S) - f[n] + g[n]
    BY <1>2, <1>5, <1>7, <2>2, SumChanged
  <2>4. PICK a : a = SumFunctionOnSet(f, S)
    OBVIOUS
  <2>5. a \in Int /\ f[n] \in Int /\ quick[n].sale.total \in Int
    BY <1>2, <1>3, <2>2, <2>4, ServedFacts, SumInt, NetFacts, QuickSaleFacts
  <2>6. a - f[n] + g[n] = a - quick[n].sale.total
    BY <1>5, <2>5
  <2>7. QED
    BY <1>0, <1>1, <1>6, <2>1, <2>3, <2>4, <2>6
<1>8. CASE n \notin S
  <2>1. ~(s = quick[n].till /\ quick[n].sale.method = m)
    BY <1>1, <1>8 DEF ServicesIn
  <2>2. \A k \in S : f[k] = g[k]
    BY <1>2, <1>4, <1>8
  <2>3. SumFunctionOnSet(f, S) = SumFunctionOnSet(g, S)
    BY <1>2, <2>2, SumSame
  <2>4. QED
    BY <1>0, <1>1, <1>6, <2>1, <2>3
<1>9. QED
  BY <1>7, <1>8

\* A step that changes no INCOME, no row and no other handler's movements.
LEMMA QuietMoney ==
    ASSUME QuickTypeOK, CollectedInv, NEW r \in Request, quick' = quick, PostedAt(r)',
           \A s \in Session, m \in Method : takings'[s]["INCOME"][m] = takings[s]["INCOME"][m],
           \A q \in Request \ {r} :
             pc'[q] = pc[q] /\ posting'[q] = posting[q] /\ serving'[q] = serving[q]
    PROVE  CollectedInv'
<1>1. TakingsMatchServices'
  BY CollectedStays DEF CollectedInv
<1>2. \A q \in Request : PostedAt(q)'
  BY DEF CollectedInv, PostedAt
<1>3. QED
  BY <1>1, <1>2 DEF CollectedInv

\* What a commit adds to the INCOME of a session.
LEMMA CommittedIncome ==
    ASSUME NEW r \in Request, CommitPostings(r), NEW s \in Session, NEW m \in Method
    PROVE  takings'[s]["INCOME"][m] =
             IF s = till[r] THEN takings[s]["INCOME"][m] + posting[r]["INCOME"][m]
                            ELSE takings[s]["INCOME"][m]
  BY DEF CommitPostings, Add, MoveType

LEMMA QuickKeepsMoney ==
    ASSUME CounterInv, CollectedInv, QuickNext, UNCHANGED draft
    PROVE  CollectedInv'
<1>0. /\ DOMAIN pc = Request /\ CashBookTypeOK /\ QuickTypeOK
      /\ \A r \in Request : ServingAt(r) /\ PostedAt(r)
      /\ TakingsMatchServices
      /\ quick \in [QuickNumber -> QuickRow \cup {NoQuick}]
      /\ serving \in [Request -> QuickLocal \cup {None}]
      /\ posting \in [Request -> Book]
      /\ takings \in [Session -> Book]
  BY DEF CounterInv, DeskInvs, DeskTypeInv, CashTypeOK, ServingInv, QuickTypeOK, CashBookTypeOK,
     CollectedInv
<1>1. ASSUME NEW r \in Request, UNCHANGED <<takings, posting, quick>>,
             NEW to \in {"readServices", "insertQuick", "writeQuick"},
             pc[r] \in {"idle", "readServices"}, pc' = [pc EXCEPT ![r] = to],
             \A q \in Request \ {r} : serving'[q] = serving[q]
      PROVE  CollectedInv'
  <2>1. PostedAt(r)'
    BY <1>0, <1>1 DEF PostedAt
  <2>2. QED
    BY <1>0, <1>1, <2>1, QuietMoney
<1>2. ASSUME NEW r \in Request, NEW q \in QuickSale, StartQuick(r, q)
      PROVE  CollectedInv'
  <2>1. /\ pc[r] = "idle" /\ pc' = [pc EXCEPT ![r] = "readServices"]
        /\ UNCHANGED <<takings, posting, quick>>
    BY <1>2 DEF StartQuick, Step
  <2>2. \A p \in Request \ {r} : serving'[p] = serving[p]
    BY <1>0, <1>2 DEF StartQuick
  <2>3. QED
    BY <1>1, <2>1, <2>2
<1>3. ASSUME NEW r \in Request, ReadServices(r)
      PROVE  CollectedInv'
  <2>1. /\ pc[r] = "readServices" /\ pc' = [pc EXCEPT ![r] = "insertQuick"]
        /\ UNCHANGED <<takings, posting, quick>>
    BY <1>3 DEF ReadServices, Step, cashVars
  <2>2. \A p \in Request \ {r} : serving'[p] = serving[p]
    <3>1. PICK c : serving' = [serving EXCEPT ![r].number = c]
      BY <1>3 DEF ReadServices
    <3>2. QED
      BY <1>0, <3>1
  <2>3. QED
    BY <1>1, <2>1, <2>2
<1>4. ASSUME NEW r \in Request, NEW n \in Served, StartCancelQuick(r, n)
      PROVE  CollectedInv'
  <2>1. /\ pc[r] = "idle" /\ pc' = [pc EXCEPT ![r] = "writeQuick"]
        /\ UNCHANGED <<takings, posting, quick>>
    BY <1>4 DEF StartCancelQuick, Step
  <2>2. \A p \in Request \ {r} : serving'[p] = serving[p]
    <3>1. PICK l : serving' = [serving EXCEPT ![r] = l]
      BY <1>4 DEF StartCancelQuick
    <3>2. QED
      BY <1>0, <3>1
  <2>3. QED
    BY <1>1, <2>1, <2>2
<1>5. ASSUME NEW r \in Request, NEW v \in Int, NEW to \in {"commitQuick", "commitRefund"},
             serving[r] \in QuickLocal,
             v = IF to = "commitQuick" THEN serving[r].sale.total ELSE -serving[r].sale.total,
             posting' = [posting EXCEPT ![r] = PostOne("INCOME", serving[r].sale.method, v)],
             pc' = [pc EXCEPT ![r] = to], UNCHANGED <<takings, quick, serving>>
      PROVE  CollectedInv'
  <2>1. \A m \in Method : posting'[r]["INCOME"][m] = IF serving[r].sale.method = m THEN v ELSE 0
    BY <1>0, <1>5, QuickSaleFacts DEF PostOne, NoPosting, MoveType, QuickLocal
  <2>2. PostedAt(r)'
    BY <1>0, <1>5, <2>1 DEF PostedAt
  <2>3. QED
    BY <1>0, <1>5, <2>2, QuietMoney
<1>6. ASSUME NEW r \in Request, InsertQuick(r) \/ WriteQuick(r)
      PROVE  CollectedInv'
  <2>1. pc[r] \in QuickLabel
    BY <1>6 DEF InsertQuick, WriteQuick, Step, QuickLabel
  <2>2. serving[r] \in QuickLocal /\ serving[r].sale.total \in Int
    BY <1>0, <2>1, QuickSaleFacts DEF ServingAt, QuickLocal
  <2>3. -serving[r].sale.total \in Int
    BY <2>2
  <2>4. CASE InsertQuick(r)
    BY <1>5, <2>2, <2>4 DEF InsertQuick, Step, quickVars
  <2>5. CASE WriteQuick(r)
    BY <1>5, <2>2, <2>3, <2>5 DEF WriteQuick, Step, quickVars
  <2>6. QED
    BY <1>6, <2>4, <2>5
<1>7. ASSUME NEW r \in Request, CommitPostings(r) \/ DropPostings(r),
             pc' = [pc EXCEPT ![r] = "idle"], serving' = [serving EXCEPT ![r] = None]
      PROVE  /\ PostedAt(r)'
             /\ \A q \in Request \ {r} :
                  pc'[q] = pc[q] /\ posting'[q] = posting[q] /\ serving'[q] = serving[q]
  BY <1>0, <1>7 DEF CommitPostings, DropPostings, PostedAt, NoPosting, MoveType
<1>8. ASSUME NEW r \in Request, TakingsMatchServices', CommitPostings(r),
             pc' = [pc EXCEPT ![r] = "idle"], serving' = [serving EXCEPT ![r] = None]
      PROVE  CollectedInv'
  <2>1. /\ PostedAt(r)'
        /\ \A q \in Request \ {r} :
             pc'[q] = pc[q] /\ posting'[q] = posting[q] /\ serving'[q] = serving[q]
    BY <1>7, <1>8
  <2>2. \A q \in Request : PostedAt(q)'
    BY <1>0, <2>1 DEF PostedAt
  <2>3. QED
    BY <1>8, <2>2 DEF CollectedInv
<1>9. ASSUME NEW r \in Request, CommitQuick(r)
      PROVE  CollectedInv'
  <2>1. /\ pc[r] = "commitQuick" /\ pc' = [pc EXCEPT ![r] = "idle"]
        /\ CommitPostings(r) /\ serving' = [serving EXCEPT ![r] = None]
    BY <1>9 DEF CommitQuick, Step
  <2>2. PICK n : n = serving[r].number
    OBVIOUS
  <2>3. n \in QuickNumber /\ n \notin Served
    BY <1>0, <2>1, <2>2 DEF ServingAt
  <2>4. PICK row : /\ row = [status |-> "COMPLETED", sale |-> serving[r].sale,
                             till |-> till[r], refunds |-> 0]
                   /\ quick' = [quick EXCEPT ![n] = row]
    BY <1>9, <2>2 DEF CommitQuick
  <2>5. Served' = Served \cup {n} /\ quick'[n] = row /\ \A k \in Served : quick'[k] = quick[k]
    BY <1>0, <2>3, <2>4 DEF Served
  <2>6. ASSUME NEW s \in Session, NEW m \in Method
        PROVE  takings'[s]["INCOME"][m] =
                 IF s = row.till /\ row.sale.method = m
                 THEN takings[s]["INCOME"][m] + row.sale.total
                 ELSE takings[s]["INCOME"][m]
    <3>1. takings'[s]["INCOME"][m] =
             IF s = till[r] THEN takings[s]["INCOME"][m] + posting[r]["INCOME"][m]
                            ELSE takings[s]["INCOME"][m]
      BY <2>1, CommittedIncome
    <3>2. posting[r]["INCOME"][m] = IF row.sale.method = m THEN row.sale.total ELSE 0
      BY <1>0, <2>1, <2>4 DEF PostedAt
    <3>3. takings[s]["INCOME"][m] \in Int
      BY <1>0 DEF Book, MoveType
    <3>4. row.till = till[r]
      BY <2>4
    <3>5. QED
      BY <3>1, <3>2, <3>3, <3>4
  <2>7. row \in QuickRow
    BY <1>0, <2>1, <2>4 DEF ServingAt, QuickLabel, QuickLocal, QuickRow
  <2>8. QuickTypeOK'
    BY <1>0, <2>1, <2>3, <2>4, <2>7 DEF QuickTypeOK
  <2>9. TakingsMatchServices'
    BY <1>0, <2>3, <2>4, <2>5, <2>6, <2>8, CollectedGrows
  <2>10. QED
    BY <1>8, <2>1, <2>9
<1>10. ASSUME NEW r \in Request, CommitRefund(r)
       PROVE  CollectedInv'
  <2>1. /\ pc[r] = "commitRefund" /\ pc' = [pc EXCEPT ![r] = "idle"]
        /\ CommitPostings(r) /\ serving' = [serving EXCEPT ![r] = None]
    BY <1>10 DEF CommitRefund, Step
  <2>2. PICK n : n = serving[r].number
    OBVIOUS
  <2>3. /\ n \in Served /\ n \in QuickNumber /\ quick[n] \in QuickRow
        /\ quick[n].sale = serving[r].sale /\ quick[n].till = till[r]
    BY <1>0, <2>1, <2>2, ServedFacts DEF ServingAt
  <2>4. PICK row : /\ row = [status |-> "CANCELLED", sale |-> quick[n].sale,
                             till |-> quick[n].till, refunds |-> quick[n].refunds + 1]
                   /\ quick' = [quick EXCEPT ![n] = row]
    <3>1. quick' = [quick EXCEPT ![n].status = "CANCELLED", ![n].refunds = @ + 1]
      BY <1>10, <2>2 DEF CommitRefund
    <3>2. PICK row : row = [status |-> "CANCELLED", sale |-> quick[n].sale,
                            till |-> quick[n].till, refunds |-> quick[n].refunds + 1]
      OBVIOUS
    <3>3. quick' = [quick EXCEPT ![n] = row]
      BY <1>0, <2>3, <3>1, <3>2 DEF QuickRow
    <3>4. QED
      BY <3>2, <3>3
  <2>5. /\ Served' = Served /\ quick'[n] = row
        /\ \A k \in Served \ {n} : quick'[k] = quick[k]
    BY <1>0, <2>3, <2>4 DEF Served
  <2>6. ASSUME NEW s \in Session, NEW m \in Method
        PROVE  takings'[s]["INCOME"][m] =
                 IF s = quick[n].till /\ quick[n].sale.method = m
                 THEN takings[s]["INCOME"][m] - quick[n].sale.total
                 ELSE takings[s]["INCOME"][m]
    <3>1. takings'[s]["INCOME"][m] =
             IF s = till[r] THEN takings[s]["INCOME"][m] + posting[r]["INCOME"][m]
                            ELSE takings[s]["INCOME"][m]
      BY <2>1, CommittedIncome
    <3>2. posting[r]["INCOME"][m] =
             IF quick[n].sale.method = m THEN -quick[n].sale.total ELSE 0
      BY <1>0, <2>1, <2>3 DEF PostedAt
    <3>3. takings[s]["INCOME"][m] \in Int /\ quick[n].sale.total \in Int
      BY <1>0, <2>3, NetFacts, QuickSaleFacts DEF Book, MoveType
    <3>4. QED
      BY <2>3, <3>1, <3>2, <3>3
  <2>7. row \in QuickRow
    BY <2>3, <2>4 DEF QuickRow
  <2>8. QuickTypeOK'
    BY <1>0, <2>1, <2>3, <2>4, <2>7 DEF QuickTypeOK
  <2>9. TakingsMatchServices'
    BY <1>0, <2>3, <2>4, <2>5, <2>6, <2>8, CollectedShrinks
  <2>10. QED
    BY <1>8, <2>1, <2>9
<1>11. ASSUME NEW r \in Request, RollbackQuick(r)
       PROVE  CollectedInv'
  <2>1. /\ pc' = [pc EXCEPT ![r] = "idle"] /\ DropPostings(r)
        /\ serving' = [serving EXCEPT ![r] = None] /\ quick' = quick /\ takings' = takings
    BY <1>11 DEF RollbackQuick, DropPostings
  <2>2. QED
    BY <1>0, <1>7, <2>1, QuietMoney
<1>12. ASSUME NEW r \in Request, NEW s \in Service, DeactivateService(r, s)
       PROVE  CollectedInv'
  BY <1>0, <1>12, QuietMoney DEF DeactivateService, cashVars, PostedAt
<1>13. QED
  BY <1>2, <1>3, <1>4, <1>6, <1>9, <1>10, <1>11, <1>12 DEF QuickNext, QuickStep

LEMMA CashKeepsMoney ==
    ASSUME NoManualMovements, CounterInv, CollectedInv, CashNext, UNCHANGED quickVars
    PROVE  CollectedInv'
<1>0. /\ DOMAIN pc = Request /\ QuickTypeOK
      /\ posting \in [Request -> Book] /\ takings \in [Session -> Book]
      /\ \A r \in Request : PostedAt(r)
      /\ TakingsMatchServices
  BY DEF CounterInv, DeskInvs, DeskTypeInv, CashTypeOK, CashBookTypeOK, ServingInv, CollectedInv
<1>1. quick' = quick /\ serving' = serving
  BY DEF quickVars
<1>2. PICK r \in Request : /\ pc[r] \notin QuickLabel /\ pc'[r] \notin QuickLabel
                           /\ \A q \in Request \ {r} : pc'[q] = pc[q]
  BY CashKeepsServing
<1>3. ASSUME UNCHANGED <<takings, posting>>
      PROVE  CollectedInv'
  <2>1. PostedAt(r)'
    BY <1>0, <1>1, <1>2, <1>3 DEF PostedAt, QuickLabel
  <2>2. QED
    BY <1>0, <1>1, <1>2, <1>3, <2>1, QuietMoney
<1>4. ASSUME NEW p \in Request, pc[p] \in CashLabel, pc' = [pc EXCEPT ![p] = "idle"],
             CommitPostings(p) \/ DropPostings(p)
      PROVE  CollectedInv'
  <2>1. PostedAt(p)' /\ \A q \in Request \ {p} : pc'[q] = pc[q] /\ posting'[q] = posting[q]
    BY <1>0, <1>4 DEF CommitPostings, DropPostings, PostedAt, NoPosting, MoveType
  <2>2. \A m \in Method : posting[p]["INCOME"][m] = 0
    BY <1>0, <1>4 DEF PostedAt, CashLabel, OpenLabel, CloseLabel
  <2>3. ASSUME NEW s \in Session, NEW m \in Method
        PROVE  takings'[s]["INCOME"][m] = takings[s]["INCOME"][m]
    <3>1. takings[s]["INCOME"][m] \in Int
      BY <1>0 DEF Book, MoveType
    <3>2. CASE CommitPostings(p)
      BY <2>2, <3>1, <3>2, CommittedIncome
    <3>3. CASE DropPostings(p)
      BY <3>3 DEF DropPostings
    <3>4. QED
      BY <1>4, <3>2, <3>3
  <2>4. QED
    BY <1>0, <1>1, <2>1, <2>3, QuietMoney
<1>5. ASSUME NEW p \in Request, NEW a \in Amount, StartOpen(p, a) \/ StartClose(p, a)
      PROVE  CollectedInv'
  BY <1>3, <1>5 DEF StartOpen, StartClose, cashVars
<1>6. ASSUME NEW p \in Request, NEW t \in MoveType, NEW m \in Method, NEW a \in Amount,
             PostMovement(p, t, m, a)
      PROVE  FALSE
  BY <1>6 DEF PostMovement, NoManualMovements
<1>7. ASSUME NEW p \in Request, CashStep(p)
      PROVE  CollectedInv'
  <2>1. CASE CommitMovement(p)
    BY <1>4, <2>1 DEF CommitMovement, Step, CashLabel
  <2>2. CASE ~CommitMovement(p)
    BY <1>3, <1>7, <2>2 DEF CashStep, CountSessions, InsertSession, CommitOpen, RecheckOpen,
       SumMovements, WriteClose, CommitClose, cashVars
  <2>3. QED
    BY <2>1, <2>2
<1>8. ASSUME NEW p \in Request, RollbackCash(p)
      PROVE  CollectedInv'
  BY <1>4, <1>8 DEF RollbackCash
<1>9. QED
  BY <1>5, <1>6, <1>7, <1>8 DEF CashNext

\* Where no manual movement is entered, what every session has collected by
\* each method is what its quick services cost less every refund, even one
\* refunded twice, whoever opens and closes sessions meanwhile.
THEOREM CounterTakingsMatchServices ==
    ASSUME NoManualMovements
    PROVE  CounterSpec => []TakingsMatchServices
<1>1. CounterInit => CounterInv /\ CollectedInv
  <2> SUFFICES ASSUME CounterInit PROVE CollectedInv
    BY InitCounterInv
  <2>1. /\ Served = {} /\ takings = [s \in Session |-> NoPosting]
        /\ posting = [r \in Request |-> NoPosting] /\ pc = [r \in Request |-> "idle"]
    BY DEF CounterInit, CashInit, CashBookInit, QuickInit, Served, NoQuick
  <2>2. \A s, m : ServicesIn(s, m) = {}
    BY <2>1 DEF ServicesIn
  <2>3. \A r \in Request : PostedAt(r)
    BY <2>1 DEF PostedAt, NoPosting, MoveType
  <2>4. \A s \in Session, m \in Method : takings[s]["INCOME"][m] = 0
    BY <2>1 DEF NoPosting, MoveType
  <2>5. SumFunctionOnSet(Collected, {}) = 0
    BY SumEmpty
  <2>6. QED
    BY <2>2, <2>3, <2>4, <2>5 DEF CollectedInv, TakingsMatchServices
<1>2. CounterInv /\ CollectedInv /\ [CounterNext]_counterVars => (CounterInv /\ CollectedInv)'
  <2> SUFFICES ASSUME CounterInv, CollectedInv, [CounterNext]_counterVars PROVE CollectedInv'
    BY NextCounterInv
  <2>1. CASE UNCHANGED counterVars
    <3>1. UNCHANGED <<pc, takings, posting, quick, serving>>
      BY <2>1 DEF counterVars, deskVars, cashVars, quickVars
    <3>2. TakingsMatchServices'
      BY <3>1, CollectedStays DEF CounterInv, ServingInv, CollectedInv
    <3>3. QED
      BY <3>1, <3>2 DEF CollectedInv, PostedAt
  <2>2. QED
    BY <2>1, QuickKeepsMoney, CashKeepsMoney DEF CounterNext
<1>3. CounterInv /\ CollectedInv => TakingsMatchServices
  BY DEF CollectedInv
<1>4. QED
  BY <1>1, <1>2, <1>3, PTL DEF CounterSpec
=============================================================================

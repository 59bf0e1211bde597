-------------------------- MODULE Storefront_proofs ---------------------------
(***************************************************************************)
(* Proofs about what surrounds the sales: for any requests, the receipts   *)
(* recorded as sent were taken by Meta and the documents of a series are   *)
(* numbered without a gap; for clients that wait for every answer, orders  *)
(* are confirmed from stock and documents issued for sales that stand.     *)
(***************************************************************************)
EXTENDS Storefront, FiniteSetTheorems, SequenceTheorems, TLAPS

WebLabel == {"readWebItem", "insertWebOrder", "checkWebItem"}
DocumentLabel == {"countDocuments", "insertDocument"}
SendLabel == {"upload", "callMeta", "auditLink", "auditReceipt", "logMessage", "auditMessage"}

\* r has executed a statement, from a label of L to one of M.
Moves(r, L, M) ==
    /\ pc[r] \in L /\ pc'[r] \in M
    /\ DOMAIN pc' = Request
    /\ \A q \in Request \ {r} : pc'[q] = pc[q]

\* A step of a handler moves its request and no other.
LEMMA StepMoves ==
    ASSUME DOMAIN pc = Request, NEW r \in Request, NEW from, NEW to, Step(r, from, to)
    PROVE  Moves(r, {from}, {to})
  BY DEF Step, Moves

LEMMA NextItemMoves ==
    ASSUME DOMAIN pc = Request, NEW r \in Request, NEW from, NEW again, NEW next,
           NextItem(r, from, again, next)
    PROVE  Moves(r, {from}, {again, next})
  BY DEF NextItem, Step, Moves

\* create and cancel start from a free slot,
LEMMA SaleStarts ==
    ASSUME DOMAIN pc = Request, NEW r \in Request,
           \/ \E o \in Order : StartSale(r, o)
           \/ \E n \in SaleNumber : StartCancel(r, n)
    PROVE  Moves(r, {"idle"}, SaleLabel)
  BY StepMoves DEF StartSale, StartCancel, Moves, SaleLabel, CreateLabel, CancelLabel

\* and stay among their statements until they answer.
LEMMA SaleMoves ==
    ASSUME DOMAIN pc = Request, NEW r \in Request,
           CreateStep(r) \/ CancelStep(r) \/ RollbackSale(r)
    PROVE  Moves(r, SaleLabel, SaleLabel \cup {"idle"})
<1> USE DEF SaleLabel, CreateLabel, CancelLabel
<1>1. ASSUME CreateStep(r) PROVE Moves(r, SaleLabel, SaleLabel \cup {"idle"})
  <2>1. CASE ValidateItem(r)
    BY <2>1, NextItemMoves DEF ValidateItem, Moves
  <2>2. CASE DecrementStock(r)
    BY <2>2, NextItemMoves DEF DecrementStock, Moves
  <2>3. CASE CountSales(r) \/ InsertSale(r) \/ CollectPayment(r) \/ CommitSale(r)
    BY <2>3, StepMoves DEF CountSales, InsertSale, CollectPayment, CommitSale, Moves
  <2>4. QED
    BY <1>1, <2>1, <2>2, <2>3 DEF CreateStep
<1>2. ASSUME CancelStep(r) PROVE Moves(r, SaleLabel, SaleLabel \cup {"idle"})
  <2>1. CASE Restock(r)
    BY <2>1, NextItemMoves DEF Restock, Moves
  <2>2. CASE ReadStock(r) \/ MarkCancelled(r) \/ RefundSale(r) \/ CommitCancel(r)
    BY <2>2, StepMoves DEF ReadStock, MarkCancelled, RefundSale, CommitCancel, Moves
  <2>3. QED
    BY <1>2, <2>1, <2>2 DEF CancelStep
<1>3. ASSUME RollbackSale(r) PROVE Moves(r, SaleLabel, SaleLabel \cup {"idle"})
  BY <1>3 DEF RollbackSale, Moves
<1>4. QED
  BY <1>1, <1>2, <1>3

\* So do the orders placed online,
LEMMA WebMoves ==
    ASSUME DOMAIN pc = Request, NEW r \in Request
    PROVE  /\ StartWeb(r) => Moves(r, {"idle"}, WebLabel)
           /\ WebStep(r) => Moves(r, WebLabel, WebLabel \cup {"idle"})
<1>1. StartWeb(r) => Moves(r, {"idle"}, WebLabel)
  BY StepMoves DEF StartWeb, StartWebOrder, StartWebStatus, Moves, WebLabel
<1>2. CASE RollbackWeb(r)
  BY <1>1, <1>2 DEF RollbackWeb, Moves, WebLabel
<1>3. CASE ReadWebItem(r) \/ CountWebOrders(r) \/ InsertWebOrder(r)
  BY <1>1, <1>3, StepMoves DEF ReadWebItem, CountWebOrders, InsertWebOrder, Moves, WebLabel
<1>4. CASE CheckWebItem(r) \/ WriteWebStatus(r)
  BY <1>1, <1>4, StepMoves DEF CheckWebItem, WriteWebStatus, Moves, WebLabel
<1>5. QED
  BY <1>1, <1>2, <1>3, <1>4 DEF WebStep

\* the documents,
LEMMA DocumentMoves ==
    ASSUME DOMAIN pc = Request, NEW r \in Request
    PROVE  /\ StartIssuing(r) => Moves(r, {"idle"}, DocumentLabel)
           /\ IssueStep(r) => Moves(r, DocumentLabel, DocumentLabel \cup {"idle"})
<1>1. StartIssuing(r) => Moves(r, {"idle"}, DocumentLabel)
  BY StepMoves DEF StartIssuing, StartDocument, Moves, DocumentLabel
<1>2. CASE AbortDocument(r)
  BY <1>1, <1>2 DEF AbortDocument, Moves, DocumentLabel
<1>3. CASE CountDocuments(r) \/ InsertDocument(r)
  BY <1>1, <1>3, StepMoves DEF CountDocuments, InsertDocument, Moves, DocumentLabel
<1>4. QED
  BY <1>1, <1>2, <1>3 DEF IssueStep

\* and the receipts.
LEMMA SendMoves ==
    ASSUME DOMAIN pc = Request, NEW r \in Request
    PROVE  /\ StartSending(r) => Moves(r, {"idle"}, SendLabel)
           /\ SendStep(r) => Moves(r, SendLabel, SendLabel \cup {"idle"})
<1> USE DEF SendLabel
<1>1. ASSUME NEW n, StartLink(r, n) PROVE Moves(r, {"idle"}, SendLabel)
  BY <1>1, StepMoves DEF StartLink, Moves
<1>2. ASSUME NEW n, NEW strategy, SendAndLog(r, n, strategy)
      PROVE  Moves(r, {"idle"}, SendLabel)
  BY <1>2, StepMoves DEF SendAndLog, Moves
<1>3. ASSUME NEW n, StartReceipt(r, n) PROVE Moves(r, {"idle"}, SendLabel)
  BY <1>3, StepMoves DEF StartReceipt, Moves
<1>4. StartSending(r) => Moves(r, {"idle"}, SendLabel)
  BY <1>1, <1>2, <1>3 DEF StartSending, StartReceiptByHand, StartSaleReceipt, StartMessage,
     StartApprovedTemplate
<1>5. ASSUME NEW next \in {"auditReceipt", "logMessage"}, CallMeta(r, next)
      PROVE  Moves(r, SendLabel, SendLabel \cup {"idle"})
  BY <1>5, StepMoves DEF CallMeta, Moves
<1>6. CASE SendMessage(r)
  BY <1>4, <1>5, <1>6 DEF SendMessage, SendDocumentLink, SendText, SendTemplateMessage,
     SendDocument, SendReceiptPdfTemplate
<1>7. CASE AbortReceipt(r)
  BY <1>4, <1>7 DEF AbortReceipt, Moves
<1>8. CASE UploadDocument(r) \/ AuditLink(r) \/ AuditReceipt(r)
  BY <1>4, <1>8, StepMoves DEF UploadDocument, AuditLink, AuditReceipt, Moves
<1>9. CASE LogMessage(r) \/ AuditMessage(r)
  BY <1>4, <1>9, StepMoves DEF LogMessage, AuditMessage, Moves
<1>10. QED
  BY <1>4, <1>6, <1>7, <1>8, <1>9 DEF SendStep

-----------------------------------------------------------------------------
(* Records of what was sent *)

IsMessage(m) ==
    /\ m = Sending(m.subject, m.strategy, m.status)
    /\ m.subject \in Subject /\ m.status \in LogStatus \cup {"NONE"}

RecordTypeOK ==
    /\ accepted \in [Subject -> Nat]
    /\ log \in [Subject -> [LogStatus -> Nat]]
    /\ audit \in [Subject -> [Claim -> Nat]]
    /\ DOMAIN sending = Request
    /\ \A r \in Request :
         /\ pc[r] \in SendLabel => IsMessage(sending[r])
         /\ pc[r] = "logMessage" => sending[r].status \in LogStatus

\* Requests that will record a message to n as sent: Meta has answered.
Recording(n) ==
    {r \in Request : /\ pc[r] \in {"auditReceipt", "logMessage"}
                     /\ sending[r].subject = n /\ sending[r].status = "SENT"}

\* Records, and those still to be written, of messages that Meta took.
RecordsInv ==
    /\ RecordTypeOK
    /\ \A n \in Subject :
         /\ IsFiniteSet(Recording(n))
         /\ log[n]["SENT"] + audit[n]["sent"] + Cardinality(Recording(n)) <= accepted[n]

\* One, if the condition holds.
Once(b) == IF b THEN 1 ELSE 0

\* A step of r adds r to the requests that will record, or takes it away.
LEMMA RecordingStep ==
    ASSUME NEW n, IsFiniteSet(Recording(n)), NEW r \in Request,
           \A q \in Request \ {r} : pc'[q] = pc[q] /\ sending'[q] = sending[q]
    PROVE  /\ IsFiniteSet(Recording(n)')
           /\ Cardinality(Recording(n)) \in Nat /\ Cardinality(Recording(n)') \in Nat
           /\ Cardinality(Recording(n)') + Once(r \in Recording(n))
                = Cardinality(Recording(n)) + Once(r \in Recording(n)')
<1> DEFINE old == Recording(n)
           new == Recording(n)'
<1>1. old \ {r} = new \ {r}
  BY DEF Recording
<1> HIDE DEF old, new
<1>2. ASSUME NEW S, IsFiniteSet(S)
      PROVE  /\ IsFiniteSet(S \ {r})
             /\ Cardinality(S) \in Nat /\ Cardinality(S \ {r}) \in Nat
             /\ Cardinality(S) = Cardinality(S \ {r}) + Once(r \in S)
  <2>1. Cardinality(S) \in Nat
    BY <1>2, FS_CardinalityType
  <2>2. CASE r \in S
    <3>1. IsFiniteSet(S \ {r}) /\ Cardinality(S \ {r}) = Cardinality(S) - 1
      BY <1>2, <2>2, FS_RemoveElement
    <3>2. Cardinality(S \ {r}) \in Nat
      BY <3>1, FS_CardinalityType
    <3>3. QED
      BY <2>1, <2>2, <3>1, <3>2 DEF Once
  <2>3. CASE r \notin S
    <3>1. S \ {r} = S
      BY <2>3
    <3>2. Once(r \in S) = 0
      BY <2>3 DEF Once
    <3>3. Cardinality(S) = Cardinality(S) + 0
      BY <2>1
    <3>4. QED
      BY <1>2, <2>1, <3>1, <3>2, <3>3
  <2>4. QED
    BY <2>2, <2>3
<1>3. IsFiniteSet(old)
  BY DEF old
<1>4. IsFiniteSet(new)
  <2>1. IsFiniteSet(new \ {r})
    BY <1>1, <1>2, <1>3
  <2>2. CASE r \in new
    <3>1. new = (new \ {r}) \cup {r}
      BY <2>2
    <3>2. QED
      BY <2>1, <3>1, FS_AddElement
  <2>3. CASE r \notin new
    <3>1. new = new \ {r}
      BY <2>3
    <3>2. QED
      BY <2>1, <3>1
  <2>4. QED
    BY <2>2, <2>3
<1>5. QED
  <2>1. /\ Cardinality(old) = Cardinality(old \ {r}) + Once(r \in old)
        /\ Cardinality(new) = Cardinality(new \ {r}) + Once(r \in new)
        /\ Cardinality(old) \in Nat /\ Cardinality(new) \in Nat
        /\ Cardinality(old \ {r}) \in Nat
    BY <1>2, <1>3, <1>4
  <2>2. /\ IsFiniteSet(new)
        /\ Cardinality(old) \in Nat /\ Cardinality(new) \in Nat
        /\ Cardinality(new) + Once(r \in old) = Cardinality(old) + Once(r \in new)
    BY <1>1, <1>4, <2>1 DEF Once
  <2>3. QED
    BY <2>2 DEF old, new

\* A step that records no more than Meta has taken keeps the invariant.
LEMMA HonestStep ==
    ASSUME RecordsInv, RecordTypeOK', NEW r \in Request,
           \A q \in Request \ {r} : pc'[q] = pc[q] /\ sending'[q] = sending[q],
           \A n \in Subject :
             log'[n]["SENT"] + audit'[n]["sent"] + Once(r \in Recording(n)') + accepted[n]
               <= log[n]["SENT"] + audit[n]["sent"] + Once(r \in Recording(n)) + accepted'[n]
    PROVE  RecordsInv'
<1> SUFFICES ASSUME NEW n \in Subject
             PROVE  /\ IsFiniteSet(Recording(n)')
                    /\ log'[n]["SENT"] + audit'[n]["sent"] + Cardinality(Recording(n)')
                         <= accepted'[n]
  BY DEF RecordsInv
<1> DEFINE l == log[n]["SENT"]
           a == audit[n]["sent"]
           c == Cardinality(Recording(n))
           t == accepted[n]
           l1 == log'[n]["SENT"]
           a1 == audit'[n]["sent"]
           c1 == Cardinality(Recording(n)')
           t1 == accepted'[n]
           b == Once(r \in Recording(n))
           b1 == Once(r \in Recording(n)')
<1>1. /\ l \in Nat /\ a \in Nat /\ t \in Nat /\ l1 \in Nat /\ a1 \in Nat /\ t1 \in Nat
  BY DEF RecordsInv, RecordTypeOK, LogStatus, Claim
<1>2. b \in Nat /\ b1 \in Nat
  BY DEF Once
<1>3. IsFiniteSet(Recording(n)') /\ c \in Nat /\ c1 \in Nat /\ c1 + b = c + b1
  BY RecordingStep DEF RecordsInv
<1>4. l + a + c <= t
  BY DEF RecordsInv
<1>5. l1 + a1 + b1 + t <= l + a + b + t1
  OBVIOUS
<1> HIDE DEF l, a, c, t, l1, a1, c1, t1, b, b1
<1>6. l1 + a1 + c1 <= t1
  BY <1>1, <1>2, <1>3, <1>4, <1>5
<1>7. QED
  BY <1>3, <1>6 DEF l1, a1, c1, t1

\* A message that is not sent yet is nothing to record.
LEMMA StartKeepsRecords ==
    ASSUME RecordsInv, NEW r \in Request, Moves(r, {"idle"}, SendLabel),
           NEW n \in Subject, NEW strategy, NEW status \in {"NONE", "ERROR", "MOCK_SENT"},
           sending' = [sending EXCEPT ![r] = Sending(n, strategy, status)],
           pc'[r] = "logMessage" => status # "NONE",
           UNCHANGED <<accepted, log, audit>>
    PROVE  RecordsInv'
<1>0. RecordTypeOK
  BY DEF RecordsInv
<1>1. \A q \in Request \ {r} : pc'[q] = pc[q] /\ sending'[q] = sending[q]
  BY <1>0 DEF Moves, RecordTypeOK
<1>2. sending'[r] = Sending(n, strategy, status)
  BY <1>0 DEF RecordTypeOK
<1>3. IsMessage(sending'[r])
  BY <1>2 DEF IsMessage, Sending, LogStatus
<1>4. RecordTypeOK'
  <2>1. \A q \in Request : /\ pc'[q] \in SendLabel => IsMessage(sending'[q])
                           /\ pc'[q] = "logMessage" => sending'[q].status \in LogStatus
    BY <1>0, <1>1, <1>2, <1>3 DEF RecordTypeOK, Sending, LogStatus
  <2>2. QED
    BY <1>0, <2>1 DEF RecordTypeOK, IsMessage
<1>5. \A m \in Subject : r \notin Recording(m) /\ r \notin Recording(m)'
  BY <1>2 DEF Moves, Recording, Sending
<1>6. \A m \in Subject : /\ log[m]["SENT"] \in Nat /\ audit[m]["sent"] \in Nat
                         /\ accepted[m] \in Nat
  BY <1>0 DEF RecordTypeOK, LogStatus, Claim
<1>7. QED
  BY <1>0, <1>1, <1>4, <1>5, <1>6, HonestStep DEF Once

\* The endpoints only start.
LEMMA StartSendingKeepsRecords ==
    ASSUME RecordsInv, DOMAIN pc = Request, NEW r \in Request, StartSending(r)
    PROVE  RecordsInv'
<1> USE DEF Step
<1>0. Moves(r, {"idle"}, SendLabel)
  BY SendMoves
<1>1. ASSUME NEW n \in Subject, StartLink(r, n) PROVE RecordsInv'
  <2>1. pc'[r] # "logMessage"
    BY <1>1 DEF StartLink, Moves
  <2>2. /\ sending' = [sending EXCEPT ![r] = Sending(n, "manual", "NONE")]
        /\ UNCHANGED <<accepted, log, audit>>
    BY <1>1 DEF StartLink
  <2>3. QED
    BY <1>0, <2>1, <2>2, StartKeepsRecords DEF RecordsInv
<1>2. ASSUME NEW n \in Subject, StartReceipt(r, n) PROVE RecordsInv'
  <2>1. pc'[r] # "logMessage"
    BY <1>2 DEF StartReceipt, Moves
  <2>2. PICK status \in {"NONE", "ERROR"} :
          sending' = [sending EXCEPT ![r] = Sending(n, "link", status)]
    BY <1>2 DEF StartReceipt
  <2>3. UNCHANGED <<accepted, log, audit>>
    BY <1>2 DEF StartReceipt
  <2>4. QED
    BY <1>0, <2>1, <2>2, <2>3, StartKeepsRecords
<1>3. ASSUME NEW n \in Subject, NEW strategy, SendAndLog(r, n, strategy) PROVE RecordsInv'
  <2> DEFINE to == IF environ.mode = "mock" \/ ~environ.configured THEN "logMessage"
                   ELSE IF strategy \in Uploaded THEN "upload" ELSE "callMeta"
             status == IF environ.mode = "mock" THEN "MOCK_SENT"
                       ELSE IF environ.configured THEN "NONE" ELSE "ERROR"
  <2>1. status \in {"NONE", "ERROR", "MOCK_SENT"}
    OBVIOUS
  <2>2. to = "logMessage" => status # "NONE"
    OBVIOUS
  <2>3. Step(r, "idle", to) /\ sending' = [sending EXCEPT ![r] = Sending(n, strategy, status)]
    BY <1>3 DEF SendAndLog
  <2> HIDE DEF to, status
  <2>4. pc'[r] = "logMessage" => status # "NONE"
    BY <2>2, <2>3
  <2>5. UNCHANGED <<accepted, log, audit>>
    BY <1>3 DEF SendAndLog
  <2>6. QED
    BY <1>0, <2>1, <2>3, <2>4, <2>5, StartKeepsRecords
<1>4. QED
  BY <1>1, <1>2, <1>3 DEF StartSending, StartReceiptByHand, StartSaleReceipt, StartMessage,
     StartApprovedTemplate, Subject

\* What Meta takes and what is written down keep it too.
LEMMA SendStepKeepsRecords ==
    ASSUME RecordsInv, DOMAIN pc = Request, NEW r \in Request, SendStep(r)
    PROVE  RecordsInv'
<1> USE DEF Step, SendLabel, LogStatus, Claim
<1>0. RecordTypeOK
  BY DEF RecordsInv
<1>1. Moves(r, SendLabel, SendLabel \cup {"idle"})
  BY SendMoves
<1>2. IsMessage(sending[r])
  BY <1>0, <1>1 DEF Moves, RecordTypeOK
<1>3. \A n \in Subject : /\ log[n]["SENT"] \in Nat /\ audit[n]["sent"] \in Nat
                         /\ accepted[n] \in Nat
  BY <1>0 DEF RecordTypeOK
<1>4. ASSUME DOMAIN sending' = Request, \A q \in Request \ {r} : sending'[q] = sending[q],
             /\ accepted' \in [Subject -> Nat] /\ log' \in [Subject -> [LogStatus -> Nat]]
             /\ audit' \in [Subject -> [Claim -> Nat]],
             pc'[r] \in SendLabel => IsMessage(sending'[r]),
             pc'[r] = "logMessage" => sending'[r].status \in LogStatus
      PROVE  RecordTypeOK'
  <2>1. ASSUME NEW q \in Request
        PROVE  /\ pc'[q] \in SendLabel => IsMessage(sending'[q])
               /\ pc'[q] = "logMessage" => sending'[q].status \in LogStatus
    BY <1>0, <1>1, <1>4, <2>1 DEF Moves, RecordTypeOK
  <2>2. QED
    BY <1>4, <2>1 DEF RecordTypeOK, IsMessage
<1>5. ASSUME NEW claim \in Claim, Audit(r, claim)
      PROVE  /\ audit' \in [Subject -> [Claim -> Nat]]
             /\ \A n \in Subject : audit'[n]["sent"] =
                  IF n = sending[r].subject /\ claim = "sent" THEN audit[n]["sent"] + 1
                  ELSE audit[n]["sent"]
  BY <1>0, <1>2, <1>5 DEF Audit, IsMessage, RecordTypeOK
<1>6. ASSUME EndSending(r)
      PROVE  /\ DOMAIN sending' = Request
             /\ \A q \in Request \ {r} : sending'[q] = sending[q]
  BY <1>0, <1>6 DEF EndSending, RecordTypeOK
<1>7. CASE UploadDocument(r)
  <2>1. /\ DOMAIN sending' = Request /\ \A q \in Request \ {r} : sending'[q] = sending[q]
        /\ IsMessage(sending'[r])
        /\ pc'[r] = "logMessage" => sending'[r].status = "ERROR"
    BY <1>0, <1>2, <1>7 DEF UploadDocument, RecordTypeOK, IsMessage, Sending
  <2>2. RecordTypeOK'
    BY <1>0, <1>4, <1>7, <2>1 DEF UploadDocument, RecordTypeOK
  <2>3. \A n \in Subject : r \notin Recording(n)'
    BY <1>7, <2>1, <1>1 DEF UploadDocument, Recording, Moves
  <2>4. QED
    BY <1>1, <1>3, <1>7, <2>1, <2>2, <2>3, HonestStep DEF UploadDocument, Moves, Once
<1>8. ASSUME NEW next \in {"auditReceipt", "logMessage"}, CallMeta(r, next)
      PROVE  RecordsInv'
  <2>1. PICK took \in BOOLEAN, answered \in BOOLEAN :
          /\ pc[r] = "callMeta"
          /\ accepted' = [accepted EXCEPT ![sending[r].subject] = IF took THEN @ + 1 ELSE @]
          /\ sending' = [sending EXCEPT ![r].status =
                           IF took /\ answered THEN "SENT" ELSE "ERROR"]
    BY <1>8 DEF CallMeta
  <2>2. sending[r].subject \in Subject
    BY <1>2 DEF IsMessage
  <2>3. /\ accepted' \in [Subject -> Nat]
        /\ \A n \in Subject : accepted'[n] =
             IF n = sending[r].subject /\ took THEN accepted[n] + 1 ELSE accepted[n]
    BY <1>0, <2>1, <2>2 DEF RecordTypeOK
  <2>4. /\ DOMAIN sending' = Request /\ \A q \in Request \ {r} : sending'[q] = sending[q]
        /\ IsMessage(sending'[r]) /\ sending'[r].subject = sending[r].subject
        /\ sending'[r].status = IF took /\ answered THEN "SENT" ELSE "ERROR"
    BY <1>0, <1>2, <2>1 DEF RecordTypeOK, IsMessage, Sending
  <2>5. RecordTypeOK'
    BY <1>0, <1>4, <1>8, <2>3, <2>4 DEF CallMeta, RecordTypeOK
  <2>6. \A n \in Subject :
          /\ r \notin Recording(n)
          /\ r \in Recording(n)' => n = sending[r].subject /\ took
    BY <2>1, <2>4 DEF Recording
  <2>7. UNCHANGED <<log, audit>>
    BY <1>8 DEF CallMeta
  <2>8. \A n \in Subject : Once(r \in Recording(n)') + accepted[n]
                             <= Once(r \in Recording(n)) + accepted'[n]
    BY <1>3, <2>3, <2>6 DEF Once
  <2>9. ASSUME NEW n \in Subject
        PROVE  log'[n]["SENT"] + audit'[n]["sent"] + Once(r \in Recording(n)') + accepted[n]
                 <= log[n]["SENT"] + audit[n]["sent"] + Once(r \in Recording(n)) + accepted'[n]
    <3>1. /\ Once(r \in Recording(n)') \in Nat /\ Once(r \in Recording(n)) \in Nat
          /\ accepted'[n] \in Nat
      BY <2>3 DEF Once
    <3>2. QED
      BY <1>3, <2>7, <2>8, <3>1
  <2>10. QED
    BY <1>1, <2>4, <2>5, <2>9, HonestStep DEF Moves
<1>9. CASE SendMessage(r)
  BY <1>8, <1>9 DEF SendMessage, SendDocumentLink, SendText, SendTemplateMessage, SendDocument,
     SendReceiptPdfTemplate
<1>10. CASE AuditLink(r)
  <2>1. RecordTypeOK' /\ \A q \in Request \ {r} : sending'[q] = sending[q]
    BY <1>0, <1>1, <1>4, <1>5, <1>6, <1>10 DEF AuditLink, RecordTypeOK, Moves
  <2>2. \A n \in Subject : /\ r \notin Recording(n)' /\ r \notin Recording(n)
                           /\ audit'[n]["sent"] = audit[n]["sent"]
    BY <1>5, <1>10, <1>1 DEF AuditLink, Recording, Moves
  <2>3. QED
    BY <1>1, <1>3, <1>10, <2>1, <2>2, HonestStep DEF AuditLink, Moves, Once
<1>11. CASE AuditReceipt(r)
  <2>1. PICK claim \in Claim :
          /\ Audit(r, claim)
          /\ claim = "sent" => sending[r].status = "SENT"
          /\ \/ pc'[r] = "idle" /\ EndSending(r)
             \/ pc'[r] = "auditLink" /\ UNCHANGED sending
    BY <1>1, <1>11 DEF AuditReceipt, Moves
  <2>2. RecordTypeOK' /\ \A q \in Request \ {r} : sending'[q] = sending[q]
    BY <1>0, <1>1, <1>2, <1>4, <1>5, <1>6, <1>11, <2>1 DEF AuditReceipt, RecordTypeOK, Moves
  <2>3. \A n \in Subject :
          /\ r \notin Recording(n)'
          /\ n = sending[r].subject /\ claim = "sent" => r \in Recording(n)
    BY <1>11, <2>1 DEF AuditReceipt, Recording
  <2>4. \A n \in Subject : audit'[n]["sent"] + Once(r \in Recording(n)')
                             <= audit[n]["sent"] + Once(r \in Recording(n))
    BY <1>3, <1>5, <2>1, <2>3 DEF Once
  <2>5. UNCHANGED <<accepted, log>>
    BY <1>11 DEF AuditReceipt
  <2>6. ASSUME NEW n \in Subject
        PROVE  log'[n]["SENT"] + audit'[n]["sent"] + Once(r \in Recording(n)') + accepted[n]
                 <= log[n]["SENT"] + audit[n]["sent"] + Once(r \in Recording(n)) + accepted'[n]
    <3>1. /\ Once(r \in Recording(n)') \in Nat /\ Once(r \in Recording(n)) \in Nat
          /\ audit'[n]["sent"] \in Nat
      BY <1>5, <2>1 DEF Once
    <3>2. QED
      BY <1>3, <2>4, <2>5, <3>1
  <2>7. QED
    BY <1>1, <2>2, <2>6, HonestStep DEF Moves
<1>12. CASE LogMessage(r)
  <2> DEFINE status == sending[r].status
  <2>1. /\ pc[r] = "logMessage" /\ pc'[r] = "auditMessage" /\ status \in LogStatus
        /\ sending[r].subject \in Subject
        /\ log' = [log EXCEPT ![sending[r].subject][status] = @ + 1]
        /\ UNCHANGED <<accepted, audit, sending>>
    BY <1>0, <1>1, <1>2, <1>12 DEF LogMessage, RecordTypeOK, IsMessage, Moves
  <2>2. /\ log' \in [Subject -> [LogStatus -> Nat]]
        /\ \A n \in Subject : log'[n]["SENT"] =
             IF n = sending[r].subject /\ status = "SENT" THEN log[n]["SENT"] + 1
             ELSE log[n]["SENT"]
    BY <1>0, <2>1 DEF RecordTypeOK
  <2>3. RecordTypeOK'
    BY <1>0, <1>2, <1>4, <2>1, <2>2 DEF RecordTypeOK
  <2>4. \A n \in Subject :
          /\ r \notin Recording(n)'
          /\ n = sending[r].subject /\ status = "SENT" => r \in Recording(n)
    BY <2>1 DEF Recording
  <2>5. ASSUME NEW n \in Subject
        PROVE  log'[n]["SENT"] + audit'[n]["sent"] + Once(r \in Recording(n)') + accepted[n]
                 <= log[n]["SENT"] + audit[n]["sent"] + Once(r \in Recording(n)) + accepted'[n]
    BY <1>3, <2>1, <2>2, <2>4 DEF Once
  <2>6. QED
    BY <1>1, <2>1, <2>3, <2>5, HonestStep DEF Moves
<1>13. CASE AuditMessage(r)
  <2>1. PICK claim \in {"failed", "tried"} : Audit(r, claim) /\ EndSending(r)
    BY <1>13 DEF AuditMessage
  <2>2. RecordTypeOK' /\ \A q \in Request \ {r} : sending'[q] = sending[q]
    BY <1>0, <1>1, <1>4, <1>5, <1>6, <1>13, <2>1 DEF AuditMessage, RecordTypeOK, Moves
  <2>3. \A n \in Subject : /\ r \notin Recording(n)' /\ r \notin Recording(n)
                           /\ audit'[n]["sent"] = audit[n]["sent"]
    BY <1>1, <1>5, <1>13, <2>1 DEF AuditMessage, Recording, Moves
  <2>4. QED
    BY <1>1, <1>3, <1>13, <2>2, <2>3, HonestStep DEF AuditMessage, Moves, Once
<1>14. CASE AbortReceipt(r)
  <2>1. RecordTypeOK' /\ \A q \in Request \ {r} : sending'[q] = sending[q]
    BY <1>0, <1>1, <1>4, <1>6, <1>14 DEF AbortReceipt, RecordTypeOK, Moves
  <2>2. \A n \in Subject : r \notin Recording(n)'
    BY <1>1, <1>14 DEF AbortReceipt, Recording, Moves
  <2>3. QED
    BY <1>1, <1>3, <1>14, <2>1, <2>2, HonestStep DEF AbortReceipt, Moves, Once
<1>15. QED
  BY <1>7, <1>9, <1>10, <1>11, <1>12, <1>13, <1>14 DEF SendStep

\* A statement of another kind of request records nothing.
LEMMA OthersKeepRecords ==
    ASSUME RecordsInv, NEW r \in Request, NEW L, NEW M, Moves(r, L, M),
           L \cap SendLabel = {}, M \cap SendLabel = {}, UNCHANGED receiptVars
    PROVE  RecordsInv'
<1> USE DEF SendLabel
<1>1. RecordTypeOK'
  BY DEF RecordsInv, RecordTypeOK, IsMessage, Moves, receiptVars
<1>2. ASSUME NEW n \in Subject PROVE Recording(n)' = Recording(n)
  <2>1. sending' = sending /\ pc[r] \notin SendLabel /\ pc'[r] \notin SendLabel
    BY DEF Moves, receiptVars
  <2>2. QED
    BY <2>1 DEF Recording, Moves
<1>3. QED
  BY <1>1, <1>2 DEF RecordsInv, receiptVars

\* No label belongs to two kinds of requests.
LEMMA LabelsApart ==
    /\ "idle" \notin SaleLabel \cup WebLabel \cup DocumentLabel \cup SendLabel
    /\ SaleLabel \cap WebLabel = {} /\ SaleLabel \cap DocumentLabel = {}
    /\ SaleLabel \cap SendLabel = {} /\ WebLabel \cap DocumentLabel = {}
    /\ WebLabel \cap SendLabel = {} /\ DocumentLabel \cap SendLabel = {}
  BY DEF SaleLabel, CreateLabel, CancelLabel, WebLabel, DocumentLabel, SendLabel

\* The kinds of requests, and what each leaves alone.
SaleStep(r) ==
    \/ \E o \in Order : StartSale(r, o)
    \/ \E n \in SaleNumber : StartCancel(r, n)
    \/ CreateStep(r) \/ CancelStep(r) \/ RollbackSale(r)

LEMMA FrontSteps ==
    ASSUME DOMAIN pc = Request, FrontNext
    PROVE  \E r \in Request :
             /\ patient' = patient
             /\ \/ pc[r] # "idle"
                \/ patient => \A q \in Request : Idle(q)
             /\ \/ SaleStep(r) /\ UNCHANGED <<webVars, documentVars, receiptVars>>
                \/ StartWeb(r) /\ UNCHANGED <<rowVars, cashVars, saleVars, documentVars, receiptVars>>
                \/ WebStep(r) /\ UNCHANGED <<rowVars, cashVars, saleVars, documentVars, receiptVars>>
                \/ StartIssuing(r) /\ UNCHANGED <<rowVars, cashVars, saleVars, webVars, receiptVars>>
                \/ IssueStep(r) /\ UNCHANGED <<rowVars, cashVars, saleVars, webVars, receiptVars>>
                \/ StartSending(r) /\ UNCHANGED <<rowVars, cashVars, saleVars, webVars, documentVars>>
                \/ SendStep(r) /\ UNCHANGED <<rowVars, cashVars, saleVars, webVars, documentVars>>
<1>1. PICK r \in Request : Arrive(r) \/ Handle(r)
  BY DEF FrontNext
<1>2. CASE Arrive(r)
  BY <1>2 DEF Arrive, SaleStep
<1>3. CASE Handle(r)
  <2>1. pc[r] # "idle"
    BY <1>3, SaleMoves, WebMoves, DocumentMoves, SendMoves, LabelsApart DEF Handle, Moves
  <2>2. QED
    BY <1>3, <2>1 DEF Handle, SaleStep
<1>4. QED
  BY <1>1, <1>2, <1>3

FrontRecords == DOMAIN pc = Request /\ RecordsInv

LEMMA InitRecords == FrontInit => FrontRecords
<1> SUFFICES ASSUME FrontInit PROVE FrontRecords
  OBVIOUS
<1>1. pc = [r \in Request |-> "idle"] /\ ReceiptsInit
  BY DEF FrontInit, Init
<1>2. RecordTypeOK
  BY <1>1 DEF ReceiptsInit, RecordTypeOK, SendLabel
<1>3. \A n \in Subject : Recording(n) = {}
  BY <1>1 DEF Recording
<1>4. IsFiniteSet({}) /\ Cardinality({}) = 0
  BY FS_EmptySet
<1>5. \A n \in Subject : accepted[n] = 0 /\ log[n]["SENT"] = 0 /\ audit[n]["sent"] = 0
  BY <1>1 DEF ReceiptsInit, LogStatus, Claim
<1>6. QED
  BY <1>1, <1>2, <1>3, <1>4, <1>5 DEF FrontRecords, RecordsInv

LEMMA NextRecords == FrontRecords /\ [FrontNext]_frontVars => FrontRecords'
<1> SUFFICES ASSUME FrontRecords, [FrontNext]_frontVars PROVE FrontRecords'
  OBVIOUS
<1>0. DOMAIN pc = Request /\ RecordsInv
  BY DEF FrontRecords
<1>1. ASSUME NEW r \in Request, SaleStep(r), UNCHANGED receiptVars PROVE FrontRecords'
  <2>1. PICK L \in {{"idle"}, SaleLabel}, M \in {SaleLabel, SaleLabel \cup {"idle"}} : Moves(r, L, M)
    BY <1>0, <1>1, SaleStarts, SaleMoves DEF SaleStep
  <2>2. QED
    BY <1>0, <1>1, <2>1, OthersKeepRecords, LabelsApart DEF FrontRecords, Moves
<1>2. ASSUME NEW r \in Request, StartWeb(r) \/ WebStep(r), UNCHANGED receiptVars PROVE FrontRecords'
  <2>1. PICK L \in {{"idle"}, WebLabel}, M \in {WebLabel, WebLabel \cup {"idle"}} : Moves(r, L, M)
    BY <1>0, <1>2, WebMoves
  <2>2. QED
    BY <1>0, <1>2, <2>1, OthersKeepRecords, LabelsApart DEF FrontRecords, Moves
<1>3. ASSUME NEW r \in Request, StartIssuing(r) \/ IssueStep(r), UNCHANGED receiptVars
      PROVE  FrontRecords'
  <2>1. PICK L \in {{"idle"}, DocumentLabel}, M \in {DocumentLabel, DocumentLabel \cup {"idle"}} :
          Moves(r, L, M)
    BY <1>0, <1>3, DocumentMoves
  <2>2. QED
    BY <1>0, <1>3, <2>1, OthersKeepRecords, LabelsApart DEF FrontRecords, Moves
<1>4. ASSUME NEW r \in Request, StartSending(r) \/ SendStep(r) PROVE FrontRecords'
  BY <1>0, <1>4, SendMoves, StartSendingKeepsRecords, SendStepKeepsRecords DEF FrontRecords, Moves
<1>5. CASE UNCHANGED frontVars
  <2>1. UNCHANGED <<pc, accepted, log, audit, sending>>
    BY <1>5 DEF frontVars, vars, receiptVars
  <2>2. \A n \in Subject : Recording(n)' = Recording(n)
    BY <2>1 DEF Recording
  <2>3. QED
    BY <1>0, <2>1, <2>2 DEF FrontRecords, RecordsInv, RecordTypeOK, IsMessage
<1>6. QED
  BY <1>0, <1>1, <1>2, <1>3, <1>4, <1>5, FrontSteps

\* What the two tables say was sent was taken by Meta, a different message each
\* time, whatever requests race, answers are lost and processes crash.
THEOREM FrontRecordsAreTrue == FrontSpec => []RecordsAreTrue
<1>1. FrontRecords => RecordsAreTrue
  <2> SUFFICES ASSUME FrontRecords, NEW n \in Subject
               PROVE  log[n]["SENT"] + audit[n]["sent"] <= accepted[n]
    BY DEF RecordsAreTrue
  <2>1. /\ log[n]["SENT"] \in Nat /\ audit[n]["sent"] \in Nat /\ accepted[n] \in Nat
        /\ Cardinality(Recording(n)) \in Nat
        /\ log[n]["SENT"] + audit[n]["sent"] + Cardinality(Recording(n)) <= accepted[n]
    BY FS_CardinalityType DEF FrontRecords, RecordsInv, RecordTypeOK, LogStatus, Claim
  <2>2. QED
    BY <2>1
<1>2. QED
  BY <1>1, InitRecords, NextRecords, PTL DEF FrontSpec

-----------------------------------------------------------------------------
(* Documents *)

Task == [kind: Kind, sale: SaleNumber \cup {0}, number: Nat]
DocumentRow == [number: Nat, sale: SaleNumber \cup {0}]

\* The number r has counted is used already or is the next one: rows are only
\* added while r waits.
CountedAt(r) ==
    pc[r] = "insertDocument" =>
      issuing[r].number \in 1..Len(document[issuing[r].kind]) + 1

DocumentsInv ==
    /\ DOMAIN pc = Request
    /\ document \in [Kind -> Seq(DocumentRow)]
    /\ DOMAIN issuing = Request
    /\ \A r \in Request : pc[r] \in DocumentLabel => issuing[r] \in Task
    /\ \A r \in Request : CountedAt(r)
    /\ SeriesAreConsecutive

LEMMA InitDocuments == FrontInit => DocumentsInv
<1> SUFFICES ASSUME FrontInit PROVE DocumentsInv
  OBVIOUS
<1>1. document = [k \in Kind |-> <<>>] /\ <<>> \in Seq(DocumentRow)
  BY DEF FrontInit, DocumentsInit
<1>2. document \in [Kind -> Seq(DocumentRow)]
  BY <1>1
<1>3. \A k \in Kind : DOMAIN document[k] = {}
  BY <1>1
<1>4. QED
  BY <1>2, <1>3 DEF FrontInit, Init, DocumentsInit, DocumentsInv, DocumentLabel, CountedAt,
     SeriesAreConsecutive

\* Every number of a series up to its length is used.
LEMMA UsedNumbers ==
    ASSUME DocumentsInv, NEW k \in Kind
    PROVE  Len(document[k]) \in Nat /\ Issued(k) = 1..Len(document[k])
<1>1. document[k] \in Seq(DocumentRow)
  BY DEF DocumentsInv
<1>2. Len(document[k]) \in Nat /\ DOMAIN document[k] = 1..Len(document[k])
  BY <1>1
<1>3. \A i \in DOMAIN document[k] : document[k][i].number = i
  BY DEF DocumentsInv, SeriesAreConsecutive
<1>4. QED
  BY <1>2, <1>3 DEF Issued

\* A step that adds no row and gives no number to insert.
LEMMA RowsKept ==
    ASSUME DocumentsInv, UNCHANGED document, DOMAIN pc' = Request, DOMAIN issuing' = Request,
           \A q \in Request : pc'[q] \in DocumentLabel => issuing'[q] \in Task,
           \A q \in Request : CountedAt(q)'
    PROVE  DocumentsInv'
  BY DEF DocumentsInv, SeriesAreConsecutive

\* The row that is inserted has the next number of its series: the numbers
\* below are used, and the index has refused them.
LEMMA NextNumber ==
    ASSUME DocumentsInv, NEW r \in Request, InsertDocument(r)
    PROVE  /\ issuing[r] \in Task
           /\ issuing[r].number = Len(document[issuing[r].kind]) + 1
           /\ document' = [document EXCEPT ![issuing[r].kind] = Append(@, Row(issuing[r]))]
           /\ Row(issuing[r]) \in DocumentRow
<1>1. /\ pc[r] = "insertDocument"
      /\ issuing[r].number \notin Issued(issuing[r].kind)
      /\ document' = [document EXCEPT ![issuing[r].kind] = Append(@, Row(issuing[r]))]
  BY DEF InsertDocument, Step
<1>2. issuing[r] \in Task /\ CountedAt(r)
  BY <1>1 DEF DocumentsInv, DocumentLabel
<1>3. issuing[r].kind \in Kind /\ Row(issuing[r]) \in DocumentRow
  BY <1>2 DEF Task, Row, DocumentRow
<1>4. /\ Len(document[issuing[r].kind]) \in Nat
      /\ Issued(issuing[r].kind) = 1..Len(document[issuing[r].kind])
  BY <1>3, UsedNumbers
<1>5. issuing[r].number \in 1..Len(document[issuing[r].kind]) + 1
  BY <1>1, <1>2 DEF CountedAt
<1>6. QED
  BY <1>1, <1>2, <1>3, <1>4, <1>5

\* An insertion keeps the series consecutive and every counted number used or
\* next.
LEMMA InsertKeepsDocuments ==
    ASSUME DocumentsInv, NEW r \in Request, InsertDocument(r),
           Moves(r, DocumentLabel \cup {"idle"}, DocumentLabel \cup {"idle"})
    PROVE  DocumentsInv'
<1> DEFINE kind == issuing[r].kind
           rows == document[kind]
<1>1. /\ issuing[r] \in Task /\ kind \in Kind
      /\ issuing[r].number = Len(rows) + 1
      /\ Row(issuing[r]) \in DocumentRow
  BY NextNumber DEF Task
<1>2. rows \in Seq(DocumentRow) /\ document \in [Kind -> Seq(DocumentRow)]
  BY <1>1 DEF DocumentsInv
<1>3. document' = [document EXCEPT ![kind] = Append(rows, Row(issuing[r]))]
  BY NextNumber
<1>4. /\ Append(rows, Row(issuing[r])) \in Seq(DocumentRow)
      /\ Len(Append(rows, Row(issuing[r]))) = Len(rows) + 1
      /\ Len(rows) \in Nat
      /\ \A i \in 1..Len(rows) : Append(rows, Row(issuing[r]))[i] = rows[i]
      /\ Append(rows, Row(issuing[r]))[Len(rows) + 1] = Row(issuing[r])
  BY <1>1, <1>2
<1>5. document' \in [Kind -> Seq(DocumentRow)]
  BY <1>2, <1>3, <1>4
<1>6. \A k \in Kind : k # kind => document'[k] = document[k]
  BY <1>2, <1>3
<1>7. document'[kind] = Append(rows, Row(issuing[r]))
  BY <1>1, <1>2, <1>3
<1>8. SeriesAreConsecutive'
  <2> SUFFICES ASSUME NEW k \in Kind, NEW i \in DOMAIN document'[k]
               PROVE  document'[k][i].number = i
    BY DEF SeriesAreConsecutive
  <2>1. CASE k # kind
    BY <1>6, <2>1 DEF DocumentsInv, SeriesAreConsecutive
  <2>2. CASE k = kind
    <3>1. i \in 1..Len(rows) + 1
      BY <1>4, <1>7, <2>2
    <3>2. CASE i \in 1..Len(rows)
      <4>1. document'[k][i] = rows[i] /\ i \in DOMAIN rows
        BY <1>2, <1>4, <1>7, <2>2, <3>2
      <4>2. QED
        BY <1>1, <4>1 DEF DocumentsInv, SeriesAreConsecutive
    <3>3. CASE i = Len(rows) + 1
      BY <1>1, <1>4, <1>7, <2>2, <3>3 DEF Row
    <3>4. QED
      BY <1>4, <3>1, <3>2, <3>3
  <2>3. QED
    BY <2>1, <2>2
<1>9. /\ DOMAIN pc' = Request /\ DOMAIN issuing' = Request
      /\ pc'[r] = "idle"
      /\ \A q \in Request \ {r} : pc'[q] = pc[q] /\ issuing'[q] = issuing[q]
  BY DEF InsertDocument, DocumentsInv, Moves, Step
<1>10. \A q \in Request : pc'[q] \in DocumentLabel => issuing'[q] \in Task
  BY <1>9 DEF DocumentsInv, DocumentLabel
<1>11. ASSUME NEW q \in Request PROVE CountedAt(q)'
  <2> SUFFICES ASSUME pc'[q] = "insertDocument"
               PROVE  issuing'[q].number \in 1..Len(document'[issuing'[q].kind]) + 1
    BY DEF CountedAt
  <2>1. q # r /\ pc[q] = "insertDocument" /\ issuing'[q] = issuing[q]
    BY <1>9
  <2>2. issuing[q] \in Task /\ issuing[q].number \in 1..Len(document[issuing[q].kind]) + 1
    BY <2>1 DEF DocumentsInv, DocumentLabel, CountedAt
  <2>3. issuing[q].kind \in Kind /\ issuing[q].number \in Nat
    BY <2>2 DEF Task
  <2>4. CASE issuing[q].kind = kind
    BY <1>4, <1>7, <2>1, <2>2, <2>3, <2>4
  <2>5. CASE issuing[q].kind # kind
    BY <1>6, <2>1, <2>2, <2>3, <2>5
  <2>6. QED
    BY <2>4, <2>5
<1>12. QED
  BY <1>5, <1>8, <1>9, <1>10, <1>11 DEF DocumentsInv

\* A step of an emission.
LEMMA IssuingKeepsDocuments ==
    ASSUME DocumentsInv, NEW r \in Request, StartIssuing(r) \/ IssueStep(r)
    PROVE  DocumentsInv'
<1> USE DEF Step, DocumentLabel
<1>0. Moves(r, DocumentLabel \cup {"idle"}, DocumentLabel \cup {"idle"})
  BY DocumentMoves DEF DocumentsInv, Moves
<1>1. ASSUME NEW k \in Kind, NEW n \in SaleNumber \cup {0}, StartDocument(r, k, n)
      PROVE  DocumentsInv'
  <2>1. [kind |-> k, sale |-> n, number |-> 0] \in Task
    BY DEF Task
  <2>2. /\ DOMAIN pc' = Request /\ DOMAIN issuing' = Request /\ UNCHANGED document
        /\ pc'[r] = "countDocuments" /\ issuing'[r] \in Task
        /\ \A q \in Request \ {r} : pc'[q] = pc[q] /\ issuing'[q] = issuing[q]
    BY <1>0, <1>1, <2>1 DEF StartDocument, DocumentsInv, Moves
  <2>3. \A q \in Request : CountedAt(q)'
    BY <2>2 DEF CountedAt, DocumentsInv
  <2>4. QED
    BY <2>2, <2>3, RowsKept DEF DocumentsInv
<1>2. CASE CountDocuments(r)
  <2>1. issuing[r] \in Task /\ issuing[r].kind \in Kind
    BY <1>2 DEF CountDocuments, DocumentsInv, Task
  <2>2. Len(document[issuing[r].kind]) \in Nat
    BY <2>1, UsedNumbers
  <2>3. [issuing[r] EXCEPT !.number = Len(document[issuing[r].kind]) + 1] \in Task
    BY <2>1, <2>2 DEF Task
  <2>4. /\ DOMAIN pc' = Request /\ DOMAIN issuing' = Request /\ UNCHANGED document
        /\ issuing'[r] = [issuing[r] EXCEPT !.number = Len(document[issuing[r].kind]) + 1]
        /\ \A q \in Request \ {r} : pc'[q] = pc[q] /\ issuing'[q] = issuing[q]
    BY <1>0, <1>2 DEF CountDocuments, DocumentsInv, Moves
  <2>5. issuing'[r].number \in 1..Len(document'[issuing'[r].kind]) + 1
    <3>1. issuing'[r].kind = issuing[r].kind /\ issuing'[r].number = Len(document[issuing[r].kind]) + 1
      BY <2>1, <2>4 DEF Task
    <3>2. QED
      BY <2>2, <2>4, <3>1
  <2>6. \A q \in Request : CountedAt(q)'
    BY <2>4, <2>5 DEF CountedAt, DocumentsInv
  <2>7. QED
    BY <2>3, <2>4, <2>6, RowsKept DEF DocumentsInv
<1>3. CASE InsertDocument(r)
  BY <1>0, <1>3, InsertKeepsDocuments
<1>4. CASE AbortDocument(r)
  <2>1. /\ DOMAIN pc' = Request /\ DOMAIN issuing' = Request /\ UNCHANGED document
        /\ pc'[r] = "idle"
        /\ \A q \in Request \ {r} : pc'[q] = pc[q] /\ issuing'[q] = issuing[q]
    BY <1>0, <1>4 DEF AbortDocument, DocumentsInv, Moves
  <2>2. \A q \in Request : CountedAt(q)'
    BY <2>1 DEF CountedAt, DocumentsInv
  <2>3. QED
    BY <2>1, <2>2, RowsKept DEF DocumentsInv
<1>5. QED
  BY <1>1, <1>2, <1>3, <1>4 DEF StartIssuing, IssueStep

LEMMA NextDocuments == DocumentsInv /\ [FrontNext]_frontVars => DocumentsInv'
<1> SUFFICES ASSUME DocumentsInv, [FrontNext]_frontVars PROVE DocumentsInv'
  OBVIOUS
<1>0. DOMAIN pc = Request
  BY DEF DocumentsInv
<1>1. ASSUME NEW r \in Request, NEW L, NEW M, Moves(r, L, M), M \cap DocumentLabel = {},
             UNCHANGED documentVars
      PROVE  DocumentsInv'
  <2>1. /\ UNCHANGED <<document, issuing>> /\ DOMAIN pc' = Request
        /\ \A q \in Request : pc'[q] \in DocumentLabel => pc[q] = pc'[q]
    BY <1>1 DEF documentVars, Moves
  <2>2. \A q \in Request : CountedAt(q)'
    BY <2>1 DEF CountedAt, DocumentsInv, DocumentLabel
  <2>3. QED
    BY <2>1, <2>2, RowsKept DEF DocumentsInv
<1>2. ASSUME NEW r \in Request, SaleStep(r), UNCHANGED documentVars
      PROVE  DocumentsInv'
  <2>1. PICK L \in {{"idle"}, SaleLabel}, M \in {SaleLabel, SaleLabel \cup {"idle"}} : Moves(r, L, M)
    BY <1>0, <1>2, SaleStarts, SaleMoves DEF SaleStep
  <2>2. M \cap DocumentLabel = {}
    BY LabelsApart DEF DocumentLabel
  <2>3. QED
    BY <1>1, <1>2, <2>1, <2>2
<1>3. ASSUME NEW r \in Request, StartWeb(r) \/ WebStep(r), UNCHANGED documentVars
      PROVE  DocumentsInv'
  <2>1. PICK L \in {{"idle"}, WebLabel}, M \in {WebLabel, WebLabel \cup {"idle"}} : Moves(r, L, M)
    BY <1>0, <1>3, WebMoves
  <2>2. M \cap DocumentLabel = {}
    BY LabelsApart DEF DocumentLabel
  <2>3. QED
    BY <1>1, <1>3, <2>1, <2>2
<1>4. ASSUME NEW r \in Request, StartSending(r) \/ SendStep(r), UNCHANGED documentVars
      PROVE  DocumentsInv'
  <2>1. PICK L \in {{"idle"}, SendLabel}, M \in {SendLabel, SendLabel \cup {"idle"}} : Moves(r, L, M)
    BY <1>0, <1>4, SendMoves
  <2>2. M \cap DocumentLabel = {}
    BY LabelsApart DEF DocumentLabel
  <2>3. QED
    BY <1>1, <1>4, <2>1, <2>2
<1>5. CASE UNCHANGED frontVars
  <2>1. UNCHANGED <<pc, document, issuing>>
    BY <1>5 DEF frontVars, vars, documentVars
  <2>2. QED
    BY <2>1, RowsKept DEF DocumentsInv, CountedAt
<1>6. QED
  BY <1>0, <1>2, <1>3, <1>4, <1>5, IssuingKeepsDocuments, FrontSteps

\* However requests race and wherever they fail, the documents of a series are
\* numbered one after the other: a number is counted without a lock, and the
\* unique index refuses the ones that are used.
THEOREM FrontSeriesAreConsecutive == FrontSpec => []SeriesAreConsecutive
<1>1. DocumentsInv => SeriesAreConsecutive
  BY DEF DocumentsInv
<1>2. QED
  BY <1>1, InitDocuments, NextDocuments, PTL DEF FrontSpec

-----------------------------------------------------------------------------
(* Orders placed online *)

WebItem == [product: Product, quantity: Nat \ {0}]
WebRow == [status: WebStatus, basket: Basket]
Ordering == [left: Seq(WebItem), row: WebRow, code: Nat]

OrdersInv ==
    /\ DOMAIN pc = Request
    /\ web \in [1..MaxWeb -> WebRow \cup {NoWeb}]
    /\ DOMAIN ordering = Request
    /\ \A r \in Request :
         /\ pc[r] \in WebLabel => ordering[r] \in Ordering
         /\ pc[r] = "checkWebItem" => ordering[r].code \in Placed

LEMMA InitOrders == FrontInit => OrdersInv
  BY DEF FrontInit, Init, WebInit, OrdersInv, WebLabel

\* What is placed is an order.
LEMMA PlacedFacts ==
    ASSUME OrdersInv
    PROVE  /\ Cardinality(Placed) \in Nat
           /\ \A n \in Placed : n \in 1..MaxWeb /\ web[n] \in WebRow /\ web[n].basket \in Seq(WebItem)
           /\ \A n \in 1..MaxWeb : n \in Placed <=> web[n] \in WebRow
<1>1. Placed \subseteq 1..MaxWeb
  BY DEF Placed
<1>2. Cardinality(Placed) \in Nat
  <2>1. IsFiniteSet(1..MaxWeb)
    BY FS_Interval, WebAssumption
  <2>2. QED
    BY <1>1, <2>1, FS_Subset, FS_CardinalityType
<1>3. NoWeb \notin WebRow
  BY DEF NoWeb, WebRow, WebStatus
<1>4. \A n \in 1..MaxWeb : n \in Placed <=> web[n] \in WebRow
  BY <1>3 DEF OrdersInv, Placed
<1>5. \A n \in Placed : web[n].basket \in Seq(WebItem)
  <2>1. \A row \in WebRow : row.basket \in Seq(WebItem)
    BY WebAssumption DEF WebRow, WebItem
  <2>2. QED
    BY <1>1, <1>4, <2>1
<1>6. QED
  BY <1>1, <1>2, <1>4, <1>5

\* A step of createOrder or updateStatus keeps the types.
LEMMA WebKeepsOrders ==
    ASSUME OrdersInv, NEW r \in Request, StartWeb(r) \/ WebStep(r)
    PROVE  OrdersInv'
<1> USE DEF Step, WebLabel
<1>0. /\ DOMAIN pc = Request /\ web \in [1..MaxWeb -> WebRow \cup {NoWeb}]
      /\ DOMAIN ordering = Request
  BY DEF OrdersInv
<1>1. Moves(r, WebLabel \cup {"idle"}, WebLabel \cup {"idle"})
  BY <1>0, WebMoves DEF Moves
<1>2. \A row \in WebRow : row \in [status: WebStatus, basket: Basket] /\ row # NoWeb
  BY DEF WebRow, NoWeb, WebStatus
<1>3. ASSUME web' \in [1..MaxWeb -> WebRow \cup {NoWeb}], DOMAIN ordering' = Request,
             \A q \in Request \ {r} : ordering'[q] = ordering[q],
             Placed \subseteq Placed',
             pc'[r] \in WebLabel => ordering'[r] \in Ordering,
             pc'[r] = "checkWebItem" => ordering'[r].code \in Placed'
      PROVE  OrdersInv'
  BY <1>1, <1>3 DEF OrdersInv, Moves
<1>4. ASSUME UNCHANGED web, NEW m \in Ordering, ordering' = [ordering EXCEPT ![r] = m],
             pc'[r] = "checkWebItem" => m.code \in Placed
      PROVE  OrdersInv'
  BY <1>0, <1>3, <1>4 DEF Placed
<1>5. ASSUME ordering' = [ordering EXCEPT ![r] = None], pc'[r] = "idle",
             web' \in [1..MaxWeb -> WebRow \cup {NoWeb}], Placed \subseteq Placed'
      PROVE  OrdersInv'
  BY <1>0, <1>3, <1>5
<1>6. ASSUME NEW basket \in Basket, StartWebOrder(r, basket)
      PROVE  OrdersInv'
  <2> DEFINE m == [left |-> basket, row |-> [status |-> "PENDING", basket |-> basket], code |-> 0]
  <2>1. m \in Ordering
    BY WebAssumption DEF Ordering, WebRow, WebStatus, WebItem
  <2>2. pc'[r] = "readWebItem" /\ UNCHANGED web /\ ordering' = [ordering EXCEPT ![r] = m]
    BY <1>0, <1>6 DEF StartWebOrder
  <2> HIDE DEF m
  <2>3. QED
    BY <1>4, <2>1, <2>2
<1>7. ASSUME NEW n \in 1..MaxWeb, NEW status \in WebStatus, StartWebStatus(r, n, status)
      PROVE  OrdersInv'
  <2> DEFINE left == IF status = "CONFIRMED" /\ web[n].status # "CONFIRMED"
                     THEN web[n].basket ELSE <<>>
             m == [left |-> left, row |-> [status |-> status, basket |-> web[n].basket], code |-> n]
  <2>1. n \in Placed /\ n \in Nat /\ web[n].basket \in Seq(WebItem) /\ web[n].basket \in Basket
    BY <1>2, <1>7, PlacedFacts DEF StartWebStatus
  <2>2. left \in Seq(WebItem)
    BY <2>1
  <2>3. UNCHANGED web /\ ordering' = [ordering EXCEPT ![r] = m]
    BY <1>7 DEF StartWebStatus
  <2> HIDE DEF left
  <2>4. m \in Ordering /\ m.code = n
    BY <2>1, <2>2 DEF Ordering, WebRow
  <2> HIDE DEF m
  <2>5. QED
    BY <1>4, <2>1, <2>3, <2>4
<1>8. ASSUME ordering[r] \in Ordering, LookAtItem(r)
      PROVE  /\ [ordering[r] EXCEPT !.left = Tail(@)] \in Ordering
             /\ [ordering[r] EXCEPT !.left = Tail(@)].code = ordering[r].code
             /\ ordering' = [ordering EXCEPT ![r] = [ordering[r] EXCEPT !.left = Tail(@)]]
  <2>1. Tail(ordering[r].left) \in Seq(WebItem)
    BY <1>8 DEF LookAtItem, Ordering
  <2>2. QED
    BY <1>8, <2>1 DEF LookAtItem, Ordering
<1>9. CASE ReadWebItem(r) \/ CheckWebItem(r)
  <2>1. ordering[r] \in Ordering /\ LookAtItem(r) /\ UNCHANGED web /\ pc'[r] = pc[r]
    BY <1>0, <1>9 DEF ReadWebItem, CheckWebItem, OrdersInv
  <2>2. pc'[r] = "checkWebItem" => ordering[r].code \in Placed
    BY <1>0, <2>1 DEF OrdersInv
  <2>3. QED
    BY <1>4, <1>8, <2>1, <2>2
<1>10. CASE CountWebOrders(r)
  <2>1. ordering[r] \in Ordering /\ Cardinality(Placed) + 1 \in Nat
    BY <1>10, PlacedFacts DEF CountWebOrders, OrdersInv
  <2>2. [ordering[r] EXCEPT !.code = Cardinality(Placed) + 1] \in Ordering
    BY <2>1 DEF Ordering
  <2>3. UNCHANGED web /\ pc'[r] # "checkWebItem"
        /\ ordering' = [ordering EXCEPT ![r] = [ordering[r] EXCEPT !.code = Cardinality(Placed) + 1]]
    BY <1>0, <1>10 DEF CountWebOrders
  <2>4. QED
    BY <1>4, <2>2, <2>3
<1>11. CASE InsertWebOrder(r)
  <2>1. ordering[r].row \in WebRow
    BY <1>11 DEF InsertWebOrder, OrdersInv, Ordering
  <2>2. web' = [web EXCEPT ![ordering[r].code] = ordering[r].row] /\ pc'[r] = "idle"
        /\ ordering' = [ordering EXCEPT ![r] = None]
    BY <1>0, <1>11 DEF InsertWebOrder
  <2>3. web' \in [1..MaxWeb -> WebRow \cup {NoWeb}]
    BY <1>0, <2>1, <2>2
  <2>4. Placed \subseteq Placed'
    BY <1>0, <1>2, <2>1, <2>2 DEF Placed
  <2>5. QED
    BY <1>5, <2>2, <2>3, <2>4
<1>12. CASE WriteWebStatus(r)
  <2> DEFINE n == ordering[r].code
             row == [web[n] EXCEPT !.status = ordering[r].row.status]
  <2>1. ordering[r].row.status \in WebStatus /\ n \in Placed
    BY <1>12 DEF WriteWebStatus, OrdersInv, Ordering, WebRow
  <2>2. n \in 1..MaxWeb /\ web[n] \in WebRow
    BY <2>1, PlacedFacts
  <2>3. row \in WebRow
    BY <2>1, <2>2 DEF WebRow
  <2>4. web' = [web EXCEPT ![n] = row] /\ pc'[r] = "idle"
        /\ ordering' = [ordering EXCEPT ![r] = None]
    BY <1>0, <1>12 DEF WriteWebStatus
  <2> HIDE DEF row, n
  <2>5. web' \in [1..MaxWeb -> WebRow \cup {NoWeb}]
    BY <1>0, <2>3, <2>4
  <2>6. Placed \subseteq Placed'
    BY <1>0, <1>2, <2>3, <2>4 DEF Placed
  <2>7. QED
    BY <1>5, <2>4, <2>5, <2>6
<1>13. CASE RollbackWeb(r)
  BY <1>0, <1>5, <1>13 DEF RollbackWeb, Placed
<1>14. QED
  BY <1>6, <1>7, <1>9, <1>10, <1>11, <1>12, <1>13 DEF StartWeb, WebStep

-----------------------------------------------------------------------------
(* Clients that wait for every answer *)

\* The sale that a document is being issued for stands.
StandsAt(r) ==
    pc[r] \in DocumentLabel /\ issuing[r].sale \in SaleNumber =>
      sale[issuing[r].sale].status # "CANCELLED"

\* The shelf covers the items of a basket before those left.
Covers(shelf, basket, left) ==
    \E done \in 0..Len(basket) :
      /\ Len(left) = Len(basket) - done
      /\ \A i \in 1..Len(left) : left[i] = basket[done + i]
      /\ \A i \in 1..done : shelf[basket[i].product] >= basket[i].quantity

\* So are the items looked at of an order that is about to be confirmed.
CoveredAt(r) ==
    /\ pc[r] = "checkWebItem" /\ ordering[r].row.status = "CONFIRMED"
    /\ web[ordering[r].code].status # "CONFIRMED"
    => Covers(stock, web[ordering[r].code].basket, ordering[r].left)

PatientInv ==
    patient => /\ \A q, r \in Request : ~Idle(q) /\ ~Idle(r) => q = r
               /\ \A r \in Request : StandsAt(r) /\ CoveredAt(r)

FrontInv == DocumentsInv /\ OrdersInv /\ PatientInv

LEMMA InitFront == FrontInit => FrontInv
<1> SUFFICES ASSUME FrontInit PROVE FrontInv
  OBVIOUS
<1>1. DocumentsInv /\ OrdersInv
  BY InitDocuments, InitOrders
<1>2. \A r \in Request : pc[r] = "idle"
  BY DEF FrontInit, Init
<1>3. QED
  BY <1>1, <1>2 DEF FrontInv, PatientInv, StandsAt, CoveredAt, Idle, DocumentLabel

\* One more item has been looked at.
LEMMA CoversMore ==
    ASSUME NEW basket \in Seq(WebItem), NEW left \in Seq(WebItem), left # <<>>,
           Covers(stock, basket, left), stock[Head(left).product] >= Head(left).quantity
    PROVE  Covers(stock, basket, Tail(left))
<1>1. PICK done \in 0..Len(basket) :
        /\ Len(left) = Len(basket) - done
        /\ \A i \in 1..Len(left) : left[i] = basket[done + i]
        /\ \A i \in 1..done : stock[basket[i].product] >= basket[i].quantity
  BY DEF Covers
<1>2. Len(left) \in Nat /\ Len(left) # 0 /\ Len(basket) \in Nat /\ Head(left) = left[1]
  BY DEF WebItem
<1>3. /\ Len(Tail(left)) = Len(left) - 1
      /\ \A i \in 1..(Len(left) - 1) : Tail(left)[i] = left[i + 1]
  BY <1>2
<1>4. done + 1 \in 0..Len(basket) /\ Len(Tail(left)) = Len(basket) - (done + 1)
  BY <1>1, <1>2, <1>3
<1>5. ASSUME NEW i \in 1..Len(Tail(left)) PROVE Tail(left)[i] = basket[(done + 1) + i]
  <2>1. i \in 1..(Len(left) - 1) /\ i + 1 \in 1..Len(left)
    BY <1>2, <1>3
  <2>2. Tail(left)[i] = basket[done + (i + 1)]
    BY <1>1, <1>3, <2>1
  <2>3. done + (i + 1) = (done + 1) + i
    BY <1>2, <2>1
  <2>4. QED
    BY <2>2, <2>3
<1>6. ASSUME NEW i \in 1..(done + 1) PROVE stock[basket[i].product] >= basket[i].quantity
  <2>1. CASE i \in 1..done
    BY <1>1, <2>1
  <2>2. CASE i = done + 1
    <3>1. Head(left) = basket[i]
      BY <1>1, <1>2, <2>2
    <3>2. QED
      BY <3>1
  <2>3. QED
    BY <1>1, <2>1, <2>2
<1>7. QED
  BY <1>4, <1>5, <1>6 DEF Covers

\* A status other than CONFIRMED, or one that already was, needs no stock; an
\* order that becomes CONFIRMED is looked at from its first item.
LEMMA WebKeepsCover ==
    ASSUME OrdersInv, NEW r \in Request, StartWeb(r) \/ WebStep(r), CoveredAt(r), UNCHANGED stock
    PROVE  CoveredAt(r)'
<1> USE DEF Step
<1>0. DOMAIN pc = Request /\ DOMAIN ordering = Request
  BY DEF OrdersInv
<1>1. CASE pc'[r] # "checkWebItem"
  BY <1>1 DEF CoveredAt
<1>2. ASSUME NEW n \in 1..MaxWeb, NEW status \in WebStatus, StartWebStatus(r, n, status)
      PROVE  CoveredAt(r)'
  <2> SUFFICES ASSUME ordering'[r].row.status = "CONFIRMED",
                      web'[ordering'[r].code].status # "CONFIRMED"
               PROVE  Covers(stock', web'[ordering'[r].code].basket, ordering'[r].left)
    BY DEF CoveredAt
  <2>1. /\ web' = web /\ n \in Placed
        /\ ordering'[r].code = n /\ ordering'[r].row.status = status
        /\ ordering'[r].left = IF status = "CONFIRMED" /\ web[n].status # "CONFIRMED"
                               THEN web[n].basket ELSE <<>>
    BY <1>0, <1>2 DEF StartWebStatus
  <2>2. ordering'[r].left = web[n].basket
    BY <2>1
  <2>3. web[n].basket \in Seq(WebItem)
    BY <2>1, PlacedFacts
  <2>4. Len(web[n].basket) \in Nat
    BY <2>3
  <2>5. \A i \in 1..Len(web[n].basket) : web[n].basket[i] = web[n].basket[0 + i]
    BY <2>4
  <2>6. Covers(stock', web[n].basket, web[n].basket)
    BY <2>1, <2>4, <2>5 DEF Covers
  <2>7. QED
    BY <2>1, <2>2, <2>6
<1>3. CASE CheckWebItem(r)
  <2>1. /\ pc[r] = "checkWebItem" /\ LookAtItem(r) /\ UNCHANGED web
        /\ ordering[r] \in Ordering /\ ordering[r].code \in Placed
    BY <1>3 DEF CheckWebItem, OrdersInv, WebLabel
  <2>2. /\ ordering[r].left \in Seq(WebItem) /\ ordering[r].left # <<>>
        /\ ordering'[r].left = Tail(ordering[r].left)
        /\ ordering'[r].row = ordering[r].row /\ ordering'[r].code = ordering[r].code
    BY <1>0, <2>1 DEF LookAtItem, Ordering
  <2>3. web[ordering[r].code].basket \in Seq(WebItem)
    BY <2>1, PlacedFacts
  <2> DEFINE left == ordering[r].left
             basket == web[ordering[r].code].basket
  <2>4. stock[Head(left).product] >= Head(left).quantity
    BY <2>1 DEF LookAtItem
  <2> SUFFICES ASSUME ordering'[r].row.status = "CONFIRMED",
                      web'[ordering'[r].code].status # "CONFIRMED"
               PROVE  Covers(stock', web'[ordering'[r].code].basket, ordering'[r].left)
    BY DEF CoveredAt
  <2>5. Covers(stock, basket, left)
    BY <2>1, <2>2 DEF CoveredAt
  <2>6. Covers(stock, basket, Tail(left))
    BY <2>2, <2>3, <2>4, <2>5, CoversMore
  <2>7. web'[ordering'[r].code].basket = basket /\ ordering'[r].left = Tail(left)
    BY <2>1, <2>2
  <2> HIDE DEF basket, left
  <2>8. QED
    BY <2>6, <2>7
<1>4. QED
  BY <1>0, <1>1, <1>2, <1>3 DEF StartWeb, StartWebOrder, WebStep, ReadWebItem, CountWebOrders,
     InsertWebOrder, WriteWebStatus, RollbackWeb

\* The sale is looked at when its document is asked for.
LEMMA IssuingKeepsStanding ==
    ASSUME DocumentsInv, NEW r \in Request, StartIssuing(r) \/ IssueStep(r), StandsAt(r),
           UNCHANGED sale
    PROVE  StandsAt(r)' /\ OnlySalesThatStand
<1> USE DEF Step, DocumentLabel
<1>0. /\ DOMAIN pc = Request /\ DOMAIN issuing = Request
      /\ document \in [Kind -> Seq(DocumentRow)]
  BY DEF DocumentsInv
<1>1. ASSUME NEW k \in Kind, NEW n \in SaleNumber \cup {0}, StartDocument(r, k, n)
      PROVE  StandsAt(r)' /\ OnlySalesThatStand
  <2>1. issuing'[r].sale = n /\ UNCHANGED document
    BY <1>0, <1>1 DEF StartDocument
  <2>2. n \in SaleNumber => sale[n].status # "CANCELLED"
    BY <1>1, SalesAssumption DEF StartDocument, SaleNumber
  <2>3. QED
    BY <2>1, <2>2 DEF StandsAt, OnlySalesThatStand
<1>2. CASE CountDocuments(r)
  <2>1. issuing[r] \in Task
    BY <1>2 DEF CountDocuments, DocumentsInv
  <2>2. issuing'[r].sale = issuing[r].sale /\ UNCHANGED document /\ pc[r] \in DocumentLabel
    BY <1>0, <1>2, <2>1 DEF CountDocuments, Task
  <2>3. QED
    BY <2>2 DEF StandsAt, OnlySalesThatStand
<1>3. CASE InsertDocument(r)
  <2>1. issuing[r] \in Task /\ pc[r] \in DocumentLabel /\ pc'[r] = "idle"
    BY <1>0, <1>3 DEF InsertDocument, DocumentsInv
  <2>2. ASSUME NEW k \in Kind, NEW i \in DOMAIN document'[k] \ DOMAIN document[k],
               document'[k][i].sale # 0
        PROVE  sale[document'[k][i].sale].status # "CANCELLED"
    <3>1. document' = [document EXCEPT ![issuing[r].kind] = Append(@, Row(issuing[r]))]
      BY <1>3, NextNumber
    <3>2. k = issuing[r].kind
      BY <1>0, <2>2, <3>1
    <3>3. document[k] \in Seq(DocumentRow) /\ document'[k] = Append(document[k], Row(issuing[r]))
      BY <1>0, <3>1, <3>2
    <3>4. document'[k][i] = Row(issuing[r])
      BY <2>2, <3>3
    <3>5. document'[k][i].sale = issuing[r].sale
      BY <3>4 DEF Row
    <3>6. issuing[r].sale \in SaleNumber
      BY <2>1, <2>2, <3>5 DEF Task
    <3>7. QED
      BY <2>1, <3>5, <3>6 DEF StandsAt
  <2>3. QED
    BY <2>1, <2>2 DEF StandsAt, OnlySalesThatStand
<1>4. CASE AbortDocument(r)
  BY <1>0, <1>4 DEF AbortDocument, StandsAt, OnlySalesThatStand
<1>5. QED
  BY <1>1, <1>2, <1>3, <1>4 DEF StartIssuing, IssueStep

\* An order becomes CONFIRMED once every item has been looked at.
LEMMA WebConfirmsFromStock ==
    ASSUME OrdersInv, NEW r \in Request, StartWeb(r) \/ WebStep(r), CoveredAt(r)
    PROVE  ConfirmedFromStock
<1> USE DEF Step
<1>0. web \in [1..MaxWeb -> WebRow \cup {NoWeb}]
  BY DEF OrdersInv
<1>1. CASE WriteWebStatus(r)
  <2> SUFFICES ASSUME NEW n \in Placed,
                      web[n].status # "CONFIRMED", web'[n].status = "CONFIRMED",
                      NEW i \in DOMAIN web[n].basket
               PROVE  stock[web[n].basket[i].product] >= web[n].basket[i].quantity
    BY DEF ConfirmedFromStock
  <2>1. n \in 1..MaxWeb /\ web[n] \in WebRow /\ web[n].basket \in Seq(WebItem)
    BY PlacedFacts
  <2>2. web' = [web EXCEPT ![ordering[r].code].status = ordering[r].row.status]
    BY <1>1 DEF WriteWebStatus
  <2>3. ordering[r].code = n
    BY <1>0, <2>1, <2>2
  <2>4. ordering[r].row.status = "CONFIRMED"
    BY <1>0, <2>1, <2>2, <2>3 DEF WebRow
  <2>5. ordering[r].left = <<>> /\ pc[r] = "checkWebItem"
    BY <1>1 DEF WriteWebStatus
  <2>6. Covers(stock, web[n].basket, <<>>)
    BY <2>3, <2>4, <2>5 DEF CoveredAt
  <2>7. PICK done \in 0..Len(web[n].basket) :
          /\ Len(<<>>) = Len(web[n].basket) - done
          /\ \A j \in 1..done : stock[web[n].basket[j].product] >= web[n].basket[j].quantity
    BY <2>6 DEF Covers
  <2>8. i \in 1..done
    <3>1. Len(web[n].basket) \in Nat /\ i \in 1..Len(web[n].basket)
      BY <2>1
    <3>2. Len(<<>>) = 0
      OBVIOUS
    <3>3. QED
      BY <2>7, <3>1, <3>2
  <2>9. QED
    BY <2>7, <2>8
<1>2. CASE InsertWebOrder(r)
  <2>1. \A n \in Placed : web'[n] = web[n]
    BY <1>0, <1>2, PlacedFacts DEF InsertWebOrder
  <2>2. QED
    BY <2>1 DEF ConfirmedFromStock
<1>3. CASE UNCHANGED web
  BY <1>3 DEF ConfirmedFromStock
<1>4. QED
  BY <1>1, <1>2, <1>3 DEF StartWeb, StartWebOrder, StartWebStatus, WebStep, ReadWebItem,
     CountWebOrders, CheckWebItem, RollbackWeb

LEMMA NextFront ==
    FrontInv /\ [FrontNext]_frontVars =>
      FrontInv' /\ (patient => ConfirmedFromStock /\ OnlySalesThatStand)
<1> SUFFICES ASSUME FrontInv, [FrontNext]_frontVars
             PROVE  FrontInv' /\ (patient => ConfirmedFromStock /\ OnlySalesThatStand)
  OBVIOUS
<1> DEFINE Goal == FrontInv' /\ (patient => ConfirmedFromStock /\ OnlySalesThatStand)
<1>0. /\ DOMAIN pc = Request /\ DocumentsInv /\ OrdersInv /\ PatientInv
      /\ DOMAIN ordering = Request /\ DOMAIN issuing = Request
  BY DEF FrontInv, DocumentsInv, OrdersInv
<1>1. DocumentsInv'
  BY <1>0, NextDocuments
<1>2. UNCHANGED web => ConfirmedFromStock
  BY DEF ConfirmedFromStock
<1>3. UNCHANGED document => OnlySalesThatStand
  BY DEF OnlySalesThatStand
<1>4. ASSUME NEW r \in Request, NEW L, NEW M, Moves(r, L, M), M \cap WebLabel = {},
             UNCHANGED webVars
      PROVE  OrdersInv'
  BY <1>0, <1>4 DEF OrdersInv, Moves, webVars, Placed, WebLabel
\* Only the request that moves is not idle.
<1>5. ASSUME NEW r \in Request, NEW L, NEW M, Moves(r, L, M), patient' = patient,
             pc[r] # "idle" \/ (patient => \A q \in Request : Idle(q)),
             patient => StandsAt(r)' /\ CoveredAt(r)'
      PROVE  PatientInv'
  <2> SUFFICES ASSUME patient
               PROVE  /\ \A q, s \in Request : ~Idle(q)' /\ ~Idle(s)' => q = s
                      /\ \A s \in Request : StandsAt(s)' /\ CoveredAt(s)'
    BY <1>5 DEF PatientInv
  <2>1. \A q \in Request \ {r} : pc[q] = "idle" /\ pc'[q] = "idle"
    BY <1>0, <1>5 DEF PatientInv, Idle, Moves
  <2>2. \A q \in Request \ {r} : StandsAt(q)' /\ CoveredAt(q)'
    BY <2>1 DEF StandsAt, CoveredAt, DocumentLabel
  <2>3. QED
    BY <1>5, <2>1, <2>2 DEF Idle
<1>6. \A r \in Request : /\ patient => StandsAt(r) /\ CoveredAt(r)
                         /\ pc'[r] \notin DocumentLabel => StandsAt(r)'
                         /\ pc'[r] \notin WebLabel => CoveredAt(r)'
  BY <1>0 DEF PatientInv, StandsAt, CoveredAt, WebLabel
<1>7. ASSUME NEW r \in Request, patient' = patient,
             pc[r] # "idle" \/ (patient => \A q \in Request : Idle(q)),
             SaleStep(r), UNCHANGED <<webVars, documentVars>>
      PROVE  Goal
  <2>1. PICK L \in {{"idle"}, SaleLabel}, M \in {SaleLabel, SaleLabel \cup {"idle"}} : Moves(r, L, M)
    BY <1>0, <1>7, SaleStarts, SaleMoves DEF SaleStep
  <2>2. M \cap WebLabel = {} /\ pc'[r] \notin WebLabel /\ pc'[r] \notin DocumentLabel
    BY <2>1, LabelsApart DEF Moves, WebLabel, DocumentLabel
  <2>3. OrdersInv' /\ PatientInv'
    BY <1>4, <1>5, <1>6, <1>7, <2>1, <2>2
  <2>4. QED
    BY <1>1, <1>2, <1>3, <1>7, <2>3 DEF FrontInv, webVars, documentVars
<1>8. ASSUME NEW r \in Request, patient' = patient,
             pc[r] # "idle" \/ (patient => \A q \in Request : Idle(q)),
             StartWeb(r) \/ WebStep(r), UNCHANGED <<rowVars, documentVars>>
      PROVE  Goal
  <2>1. PICK L \in {{"idle"}, WebLabel}, M \in {WebLabel, WebLabel \cup {"idle"}} : Moves(r, L, M)
    BY <1>0, <1>8, WebMoves
  <2>2. pc'[r] \notin DocumentLabel
    BY <2>1, LabelsApart DEF Moves, DocumentLabel
  <2>3. patient => CoveredAt(r)' /\ ConfirmedFromStock
    BY <1>0, <1>6, <1>8, WebKeepsCover, WebConfirmsFromStock DEF rowVars
  <2>4. PatientInv'
    BY <1>5, <1>6, <1>8, <2>1, <2>2, <2>3
  <2>5. OrdersInv'
    BY <1>0, <1>8, WebKeepsOrders
  <2>6. QED
    BY <1>1, <1>3, <1>8, <2>3, <2>4, <2>5 DEF FrontInv, documentVars
<1>9. ASSUME NEW r \in Request, patient' = patient,
             pc[r] # "idle" \/ (patient => \A q \in Request : Idle(q)),
             StartIssuing(r) \/ IssueStep(r), UNCHANGED <<saleVars, webVars>>
      PROVE  Goal
  <2>1. PICK L \in {{"idle"}, DocumentLabel}, M \in {DocumentLabel, DocumentLabel \cup {"idle"}} :
          Moves(r, L, M)
    BY <1>0, <1>9, DocumentMoves
  <2>2. M \cap WebLabel = {} /\ pc'[r] \notin WebLabel
    BY <2>1, LabelsApart DEF Moves, WebLabel
  <2>3. patient => StandsAt(r)' /\ OnlySalesThatStand
    BY <1>0, <1>6, <1>9, IssuingKeepsStanding DEF saleVars
  <2>4. PatientInv' /\ OrdersInv'
    BY <1>4, <1>5, <1>6, <1>9, <2>1, <2>2, <2>3
  <2>5. QED
    BY <1>1, <1>2, <1>9, <2>3, <2>4 DEF FrontInv, webVars
<1>10. ASSUME NEW r \in Request, patient' = patient,
              pc[r] # "idle" \/ (patient => \A q \in Request : Idle(q)),
              StartSending(r) \/ SendStep(r), UNCHANGED <<webVars, documentVars>>
       PROVE  Goal
  <2>1. PICK L \in {{"idle"}, SendLabel}, M \in {SendLabel, SendLabel \cup {"idle"}} : Moves(r, L, M)
    BY <1>0, <1>10, SendMoves
  <2>2. M \cap WebLabel = {} /\ pc'[r] \notin WebLabel /\ pc'[r] \notin DocumentLabel
    BY <2>1, LabelsApart DEF Moves, WebLabel, DocumentLabel
  <2>3. OrdersInv' /\ PatientInv'
    BY <1>4, <1>5, <1>6, <1>10, <2>1, <2>2
  <2>4. QED
    BY <1>1, <1>2, <1>3, <1>10, <2>3 DEF FrontInv, webVars, documentVars
<1>11. CASE UNCHANGED frontVars
  <2>1. UNCHANGED <<pc, stock, sale, web, ordering, document, issuing, patient>>
    BY <1>11 DEF frontVars, vars, rowVars, saleVars, webVars, documentVars
  <2>2. OrdersInv'
    BY <1>0, <2>1 DEF OrdersInv, Placed
  <2>3. PatientInv'
    BY <1>0, <2>1 DEF PatientInv, Idle, StandsAt, CoveredAt, Covers
  <2>4. QED
    BY <1>1, <1>2, <1>3, <2>1, <2>2, <2>3 DEF FrontInv
<1>12. QED
  <2>1. CASE FrontNext
    <3>1. PICK r \in Request :
             /\ patient' = patient
             /\ pc[r] # "idle" \/ (patient => \A q \in Request : Idle(q))
             /\ \/ SaleStep(r) /\ UNCHANGED <<webVars, documentVars>>
                \/ (StartWeb(r) \/ WebStep(r)) /\ UNCHANGED <<rowVars, documentVars>>
                \/ (StartIssuing(r) \/ IssueStep(r)) /\ UNCHANGED <<saleVars, webVars>>
                \/ (StartSending(r) \/ SendStep(r)) /\ UNCHANGED <<webVars, documentVars>>
      BY <1>0, <2>1, FrontSteps
    <3>2. QED
      BY <1>7, <1>8, <1>9, <1>10, <3>1
  <2>2. QED
    BY <1>11, <2>1

\* When requests do not overlap, an order is confirmed from a stock that covers
\* each of its items, and no document is issued for a cancelled sale.
THEOREM FrontConfirmationsAndDocumentsStand == FrontSpec => ConfirmationsAndDocumentsStand
<1>1. FrontSpec => []FrontInv
  BY InitFront, NextFront, PTL DEF FrontSpec
<1>2. FrontInv /\ [FrontNext]_frontVars =>
        [patient => ConfirmedFromStock /\ OnlySalesThatStand]_frontVars
  BY NextFront
<1>3. QED
  BY <1>1, <1>2, PTL DEF FrontSpec, ConfirmationsAndDocumentsStand
=============================================================================

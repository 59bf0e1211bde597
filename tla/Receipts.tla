------------------------------- MODULE Receipts --------------------------------
(***************************************************************************)
(* WhatsappService and WhatsappCloudProvider: receipts of sales, of quick  *)
(* services and of service orders, and messages of other kinds.  Meta's    *)
(* Cloud API takes a message or not, and its answer may be lost; what      *)
(* became of it is then written to WhatsappMessageLog and AuditLog, one    *)
(* statement after the other.                                              *)
(***************************************************************************)
EXTENDS Sales

CONSTANT
    Setting     \* what the environment may hold

Strategy == {"template_test", "receipt_template", "receipt_pdf", "text", "document"}

ASSUME ReceiptAssumption ==
    Setting \subseteq [mode: {"mock", "link", "cloud_api"}, enabled: BOOLEAN, fallback: BOOLEAN,
                       configured: BOOLEAN, production: BOOLEAN,
                       strategy: Strategy \cup {"auto", "link"}]

VARIABLES
    environ,    \* the environment of the process
    accepted,   \* messages that Meta accepted, by subject
    log,        \* WhatsappMessageLog rows, by subject and status
    audit,      \* AuditLog rows, by subject and what they claim
    sending     \* what r sends, and the provider's answer

receiptVars == <<environ, accepted, log, audit, sending>>

Subject == SaleNumber \cup {None}   \* a sale, or no sale
LogStatus == {"SENT", "MOCK_SENT", "ERROR"}

\* SEND_RECEIPT_CLOUD_API; the actions of sendAndLog, which name the attempt;
\* the actions that end in FAILED; those of the links, which no API sent.
Claim == {"sent", "tried", "failed", "none"}

\* How a message leaves: a strategy of the receipts, a link to the document,
\* or a template that is tried out.
Uploaded == {"document", "receipt_pdf"}
FailureIsNamed == {"receipt_pdf", "approved_template"}

Sending(n, strategy, status) == [subject |-> n, strategy |-> strategy, status |-> status]

Audit(r, claim) == audit' = [audit EXCEPT ![sending[r].subject][claim] = @ + 1]

\* The handler has answered.
EndSending(r) == sending' = [sending EXCEPT ![r] = None]

\* resolveReceiptSummary; cancelled quick services and their like are left out.
Shareable(n) == n # None => n \in Registered /\ sale[n].status # "CANCELLED"

-----------------------------------------------------------------------------
(* The endpoints *)

\* createReceiptLink; also testConnection, which only writes its entry.
StartLink(r, n) ==
    /\ Step(r, "idle", "auditLink")
    /\ Shareable(n)
    /\ sending' = [sending EXCEPT ![r] = Sending(n, "manual", "NONE")]
    /\ UNCHANGED <<environ, accepted, log, audit>>

\* sendReceipt, outside the Cloud API: createManualReceiptResponse.
StartReceiptByHand(r, n) ==
    /\ environ.mode # "cloud_api" \/ ~environ.enabled
    /\ StartLink(r, n)

\* sendReceipt; the provider refuses at once when it has no credentials.
StartReceipt(r, n) ==
    /\ environ.mode = "cloud_api" /\ environ.enabled
    /\ Step(r, "idle", IF environ.configured THEN "callMeta" ELSE "auditReceipt")
    /\ Shareable(n)
    /\ sending' = [sending EXCEPT ![r] =
         Sending(n, "link", IF environ.configured THEN "NONE" ELSE "ERROR")]
    /\ UNCHANGED <<environ, accepted, log, audit>>

\* sendAndLog, which does not look whether the API is enabled.
SendAndLog(r, n, strategy) ==
    LET mock == environ.mode = "mock"
    IN  /\ Step(r, "idle", IF mock \/ ~environ.configured THEN "logMessage"
                           ELSE IF strategy \in Uploaded THEN "upload" ELSE "callMeta")
        /\ sending' = [sending EXCEPT ![r] =
             Sending(n, strategy, IF mock THEN "MOCK_SENT"
                                  ELSE IF environ.configured THEN "NONE" ELSE "ERROR")]
        /\ UNCHANGED <<environ, accepted, log, audit>>

\* A strategy that is not known is a test.
ResolveStrategy(requested, sendPdf) ==
    LET raw == IF requested = None THEN environ.strategy ELSE requested
    IN  IF (requested = None /\ sendPdf) \/ (raw = "auto" /\ environ.production)
        THEN "receipt_pdf"
        ELSE IF raw \in Strategy THEN raw ELSE "template_test"

\* sendSaleReceipt and sendSaleReceiptTemplate: a link in mode link.
StartSaleReceipt(r, n, requested, sendPdf) ==
    /\ n # None /\ Shareable(n)
    /\ \/ environ.mode = "link" /\ StartLink(r, n)
       \/ environ.mode # "link" /\ SendAndLog(r, n, ResolveStrategy(requested, sendPdf))

\* sendMessage, sendServiceOrder, sendNotification, sendTemplate, testText and
\* testTemplate.
StartMessage(r) ==
    /\ userOf[r] \in Admin
    /\ \E strategy \in {"text", "template_test"} : SendAndLog(r, None, strategy)

\* testApprovedTemplate, with a document or without.
StartApprovedTemplate(r) ==
    /\ userOf[r] \in Admin
    /\ \E strategy \in {"approved_template", "receipt_pdf"} : SendAndLog(r, None, strategy)

-----------------------------------------------------------------------------
(* The provider *)

UploadDocument(r) ==
    /\ UNCHANGED <<environ, accepted, log, audit>>
    /\ \/ /\ Step(r, "upload", "callMeta")
          /\ UNCHANGED sending
       \/ /\ Step(r, "upload", "logMessage")
          /\ sending' = [sending EXCEPT ![r].status = "ERROR"]

\* Faulty variant: an answer without messages[0].id counts as sent.
FaultyCallMeta(r, next) == \E took, answered \in BOOLEAN :
    /\ Step(r, "callMeta", next)
    /\ accepted' = [accepted EXCEPT ![sending[r].subject] = IF took THEN @ + 1 ELSE @]
    /\ sending' = [sending EXCEPT ![r].status = IF answered THEN "SENT" ELSE "ERROR"]
    /\ UNCHANGED <<environ, log, audit>>

\* The message is sent when Meta answers with its id; a refusal, an answer
\* without id, a timeout and a lost answer are all errors.
CallMeta(r, next) == \E took, answered \in BOOLEAN :
    /\ Step(r, "callMeta", next)
    /\ accepted' = [accepted EXCEPT ![sending[r].subject] = IF took THEN @ + 1 ELSE @]
    /\ sending' = [sending EXCEPT ![r].status = IF took /\ answered THEN "SENT" ELSE "ERROR"]
    /\ UNCHANGED <<environ, log, audit>>

SendDocumentLink(r) == sending[r].strategy = "link" /\ CallMeta(r, "auditReceipt")
SendText(r) == sending[r].strategy = "text" /\ CallMeta(r, "logMessage")
SendTemplateMessage(r) ==
    /\ sending[r].strategy \in {"template_test", "receipt_template", "approved_template"}
    /\ CallMeta(r, "logMessage")
SendDocument(r) == sending[r].strategy = "document" /\ CallMeta(r, "logMessage")
SendReceiptPdfTemplate(r) == sending[r].strategy = "receipt_pdf" /\ CallMeta(r, "logMessage")

SendMessage(r) ==
    /\ sending[r] # None
    /\ \/ SendDocumentLink(r) \/ SendText(r) \/ SendTemplateMessage(r)
       \/ SendDocument(r) \/ SendReceiptPdfTemplate(r)

-----------------------------------------------------------------------------
(* What is recorded *)

AuditLink(r) ==
    /\ Step(r, "auditLink", "idle")
    /\ Audit(r, "none")
    /\ EndSending(r)
    /\ UNCHANGED <<environ, accepted, log>>

\* What sendReceipt does with the provider's answer: no WhatsappMessageLog row.
AuditReceipt(r) ==
    /\ UNCHANGED <<environ, accepted, log>>
    /\ \/ /\ Step(r, "auditReceipt", "idle")
          /\ sending[r].status = "SENT"
          /\ Audit(r, "sent")
          /\ EndSending(r)
       \/ /\ Step(r, "auditReceipt", "auditLink")
          /\ sending[r].status = "ERROR" /\ environ.fallback
          /\ Audit(r, "none")
          /\ UNCHANGED sending
       \/ /\ Step(r, "auditReceipt", "idle")
          /\ sending[r].status = "ERROR" /\ ~environ.fallback
          /\ Audit(r, "failed")
          /\ EndSending(r)

\* sendAndLog: the row, then the audit entry.
LogMessage(r) ==
    LET s == sending[r]
    IN  /\ Step(r, "logMessage", "auditMessage")
        /\ log' = [log EXCEPT ![s.subject][s.status] = @ + 1]
        /\ UNCHANGED <<environ, accepted, audit, sending>>

AuditMessage(r) ==
    LET s == sending[r]
    IN  /\ Step(r, "auditMessage", "idle")
        /\ Audit(r, IF s.status = "ERROR" /\ s.strategy \in FailureIsNamed
                    THEN "failed" ELSE "tried")
        /\ EndSending(r)
        /\ UNCHANGED <<environ, accepted, log>>

\* A failed statement or a crash: a message that Meta took stays taken.
AbortReceipt(r) ==
    /\ pc[r] \in {"upload", "callMeta", "auditLink", "auditReceipt", "logMessage", "auditMessage"}
    /\ pc' = [pc EXCEPT ![r] = "idle"]
    /\ EndSending(r)
    /\ UNCHANGED <<environ, accepted, log, audit>>

-----------------------------------------------------------------------------
StartSending(r) ==
    \/ \E n \in Subject : \/ StartReceipt(r, n) \/ StartReceiptByHand(r, n) \/ StartLink(r, n)
                          \/ \E requested \in Strategy \cup {"auto", None}, sendPdf \in BOOLEAN :
                               StartSaleReceipt(r, n, requested, sendPdf)
    \/ StartMessage(r) \/ StartApprovedTemplate(r)

SendStep(r) ==
    \/ UploadDocument(r) \/ SendMessage(r)
    \/ AuditLink(r) \/ AuditReceipt(r)
    \/ LogMessage(r) \/ AuditMessage(r) \/ AbortReceipt(r)

ReceiptsInit ==
    /\ environ \in Setting
    /\ accepted = [n \in Subject |-> 0]
    /\ log = [n \in Subject |-> [s \in LogStatus |-> 0]]
    /\ audit = [n \in Subject |-> [c \in Claim |-> 0]]
    /\ sending = [r \in Request |-> None]

-----------------------------------------------------------------------------
(* Properties *)

\* What the two tables say was sent was taken by Meta, a different message
\* each time: retries, lost answers and crashes only ever leave more messages
\* taken than recorded.
RecordsAreTrue ==
    \A n \in Subject : log[n]["SENT"] + audit[n]["sent"] <= accepted[n]
=============================================================================

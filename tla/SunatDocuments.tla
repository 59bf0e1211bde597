---------------------------- MODULE SunatDocuments -----------------------------
(***************************************************************************)
(* SunatService.createDocument: boletas, facturas and notes, each kind     *)
(* with a series of its own.  No transaction: each statement commits.      *)
(***************************************************************************)
EXTENDS Sales

CONSTANTS
    Kind,           \* SunatDocumentType
    MaxDocuments    \* bound: documents of each kind

ASSUME DocumentAssumption == MaxDocuments \in Nat

VARIABLES
    document,   \* committed SunatDocument rows of each kind, in the order of their insertion
    issuing     \* the kind, the sale and the number r works with, or None

documentVars == <<document, issuing>>

Issued(k) == {document[k][i].number : i \in DOMAIN document[k]}

\* Sale 0: a document of no sale.  The status is read, without a lock, before
\* the provider is asked.
StartDocument(r, k, n) ==
    /\ Step(r, "idle", "countDocuments")
    /\ n = 0 \/ (n \in Registered /\ sale[n].status # "CANCELLED")
    /\ issuing' = [issuing EXCEPT ![r] = [kind |-> k, sale |-> n, number |-> 0]]
    /\ UNCHANGED document

\* The provider has answered.
CountDocuments(r) ==
    LET issued == Len(document[issuing[r].kind])
    IN  /\ Step(r, "countDocuments", "insertDocument")
        /\ issued < MaxDocuments
        /\ issuing' = [issuing EXCEPT ![r].number = issued + 1]
        /\ UNCHANGED document

Row(d) == [number |-> d.number, sale |-> d.sale]

\* Faulty variant: without the unique index.
FaultyInsertDocument(r) ==
    LET d == issuing[r]
    IN  /\ Step(r, "insertDocument", "idle")
        /\ document' = [document EXCEPT ![d.kind] = Append(@, Row(d))]
        /\ issuing' = [issuing EXCEPT ![r] = None]

\* The unique index on (documentType, series, number).
InsertDocument(r) ==
    LET d == issuing[r]
    IN  /\ Step(r, "insertDocument", "idle")
        /\ d.number \notin Issued(d.kind)
        /\ document' = [document EXCEPT ![d.kind] = Append(@, Row(d))]
        /\ issuing' = [issuing EXCEPT ![r] = None]

\* A throw, a failed statement or a crash: no row, whatever the provider did.
AbortDocument(r) ==
    /\ pc[r] \in {"countDocuments", "insertDocument"}
    /\ pc' = [pc EXCEPT ![r] = "idle"]
    /\ issuing' = [issuing EXCEPT ![r] = None]
    /\ UNCHANGED document

StartIssuing(r) == \E k \in Kind, n \in SaleNumber \cup {0} : StartDocument(r, k, n)

IssueStep(r) == CountDocuments(r) \/ InsertDocument(r) \/ AbortDocument(r)

DocumentsInit ==
    /\ document = [k \in Kind |-> <<>>]
    /\ issuing = [r \in Request |-> None]

-----------------------------------------------------------------------------
(* Properties *)

\* The documents of a series are numbered one after the other as they are
\* registered: no number is given twice and none is left out, although the
\* rows are counted without a lock, insertions race and emissions fail after
\* they have counted.
SeriesAreConsecutive == \A k \in Kind : \A i \in DOMAIN document[k] : document[k][i].number = i

\* Of a step: "No se puede emitir comprobante de una venta anulada".
OnlySalesThatStand ==
    \A k \in Kind : \A i \in DOMAIN document'[k] \ DOMAIN document[k] :
      document'[k][i].sale # 0 => sale[document'[k][i].sale].status # "CANCELLED"
=============================================================================

-------------------------------- MODULE Office ---------------------------------
(***************************************************************************)
(* The administration of the business: users, customers, notices, settings,*)
(* the catalogue and the questions put to the AI, served by one process, a *)
(* browser whose session depends on the users' rows, the forms of its      *)
(* pages, and the script that seeds the database.  The guards read the     *)
(* caller's row at arrival.                                                *)
(***************************************************************************)
EXTENDS Browser, Customers, Notices, Settings, AiAnswers, Catalogue, Seeding, Forms

CONSTANTS
    Desks,      \* bound: the desks of which one history staffs a set
    MaxCalls,   \* bound: requests of one history
    MaxUses     \* bound: documents the shop registers in a history of the script

ASSUME OfficeAssumption ==
    /\ Desks \subseteq
         SUBSET {"accounts", "browser", "customers", "notices", "settings", "questions",
                 "catalogue", "seeding", "forms"}
    /\ MaxCalls \in Nat /\ MaxUses \in Nat /\ MaxTouches \in Nat

VARIABLES
    staffed,    \* the desks at work in this history
    patient,    \* the clients wait for every answer before they ask again
    calls       \* requests made so far

serviceVars == <<noticeVars, settingsVars, aiVars>>
deskVars == <<customerVars, serviceVars, catalogueVars>>
officeVars ==
    <<pc, accountVars, browserVars, deskVars, seedVars, formVars, staffed, patient, calls>>

OfficeInit ==
    /\ pc = [r \in Request |-> "idle"]
    /\ AccountsInit /\ BrowserInit /\ CustomersInit /\ NoticesInit /\ SettingsInit /\ AiInit
    /\ CatalogueInit /\ SeedingInit /\ FormsInit
    /\ staffed \in Desks
    /\ patient \in BOOLEAN
    /\ calls = 0

\* JwtStrategy.validate: the token of an inactive user is refused.
Authenticated(r) == userOf[r] \in Existing /\ account[userOf[r]].active

\* A request arrives at slot r.  The handlers of accounts, of customers and of
\* settings are for administrators; tax() alone is for everyone.
Arrive(r) ==
    /\ calls < MaxCalls
    /\ patient => \A q \in Request : Idle(q)
    /\ Authenticated(r)
    /\ calls' = calls + 1
    /\ UNCHANGED <<browserVars, seedVars, formVars, staffed, patient>>
    /\ \/ /\ "accounts" \in staffed
          /\ StartAccount(r)
          /\ UNCHANGED deskVars
       \/ /\ "customers" \in staffed
          /\ MayAdminister(r)
          /\ StartCustomer(r)
          /\ UNCHANGED <<accountVars, serviceVars, catalogueVars>>
       \/ /\ "catalogue" \in staffed
          /\ MayAdminister(r)
          /\ StartCatalogue(r)
          /\ UNCHANGED <<accountVars, customerVars, serviceVars>>
       \/ /\ "notices" \in staffed
          /\ StartNotice(r)
          /\ UNCHANGED <<accountVars, customerVars, catalogueVars, settingsVars, aiVars>>
       \/ /\ "settings" \in staffed
          /\ \/ \E tax \in Tax : MayAdminister(r) /\ FindSettings(r, tax)
             \/ FindSettings(r, None)
          /\ UNCHANGED <<accountVars, customerVars, catalogueVars, noticeVars, aiVars>>
       \/ /\ "questions" \in staffed
          /\ StartAsk(r)
          /\ UNCHANGED <<accountVars, customerVars, catalogueVars, noticeVars, settingsVars>>

\* The handler of r executes its next statement, or fails.
Handle(r) ==
    /\ UNCHANGED <<browserVars, seedVars, formVars, staffed, patient, calls>>
    /\ \/ /\ AccountStep(r)
          /\ UNCHANGED deskVars
       \/ /\ CustomerStep(r)
          /\ UNCHANGED <<accountVars, serviceVars, catalogueVars>>
       \/ /\ CatalogueStep(r)
          /\ UNCHANGED <<accountVars, customerVars, serviceVars>>
       \/ /\ NoticeStep(r)
          /\ UNCHANGED <<accountVars, customerVars, catalogueVars, settingsVars, aiVars>>
       \/ /\ SettingsStep(r)
          /\ UNCHANGED <<accountVars, customerVars, catalogueVars, noticeVars, aiVars>>
       \/ /\ AskStep(r)
          /\ UNCHANGED <<accountVars, customerVars, catalogueVars, noticeVars, settingsVars>>

\* A tab of the browser, or an answer to it; a login counts as a request.
SignIn ==
    /\ "browser" \in staffed
    /\ calls < MaxCalls
    /\ \E t \in Tab, u \in User : Login(t, u)
    /\ calls' = calls + 1
    /\ UNCHANGED <<pc, accountVars, deskVars, seedVars, formVars, staffed, patient>>

Browse ==
    /\ "browser" \in staffed
    /\ \E t \in Tab : BrowserStep(t)
    /\ UNCHANGED <<pc, accountVars, deskVars, seedVars, formVars, staffed, patient, calls>>

Environment ==
    /\ "questions" \in staffed
    /\ AiEnvironment
    /\ UNCHANGED <<accountVars, browserVars, seedVars, customerVars, catalogueVars>>
    /\ UNCHANGED <<noticeVars, settingsVars>>
    /\ UNCHANGED <<formVars, staffed, patient, calls>>

\* The seeding script, and what the shop registers between its statements or,
\* where it waits, between its runs.
SeedShop ==
    /\ "seeding" \in staffed
    /\ UNCHANGED <<pc, accountVars, browserVars, deskVars, formVars, staffed, patient>>
    /\ \/ /\ Run \/ SeedingStep
          /\ UNCHANGED calls
       \/ /\ patient => ~Seeding
          /\ calls < MaxUses
          /\ calls' = calls + 1
          /\ \E k \in DocumentKind, session \in BOOLEAN : Use(k, session)

\* A form on a page of the browser; here only the lookup of a document waits.
FillForms ==
    /\ "forms" \in staffed
    /\ FormsStep(patient)
    /\ UNCHANGED <<pc, accountVars, browserVars, deskVars, seedVars, staffed, patient, calls>>

OfficeNext ==
    \/ Environment \/ SignIn \/ Browse \/ SeedShop \/ FillForms
    \/ \E r \in Request : Arrive(r) \/ Handle(r)

OfficeSpec == OfficeInit /\ [][OfficeNext]_officeVars

-----------------------------------------------------------------------------
(* Properties *)

\* What holds for clients who wait for every answer: the last administrator
\* stays active, one unread notice per automatic title, one tax rule.
CountedAdminRemains == patient => AdminRemains
OneNoticeAndOneTax == patient => OneUnreadPerTitle /\ TaxIsTheSavedOne

\* Edits of customers keep their status, for such clients, and edits of products
\* everything that they do not state, for all.
EditsKeepTheRest ==
    [][(patient => EditsKeepStatus) /\ ProductEditsKeepTheRest]_officeVars

\* However often the script stopped half way and the shop went on, a run that
\* finishes leaves free numbers for every kind of document and, if the shop was
\* closed meanwhile, the demonstration as one undisturbed run leaves it.
SeedingConverges ==
    [][SeedingFinishes => NumbersGoOn' /\ (patient => FreshlySeeded')]_officeVars

\* A form saves what it shows, and nothing else; of a user who waits for what a
\* lookup answers, it makes no natural person with the document of a company.
FormsAreFaithful == SavedAsEntered /\ (patient => RucMeansCompany)

-----------------------------------------------------------------------------
(* A small instance for TLC: two administrators, a third row of User and   *)
(* two customers to create, two automatic notices, a database that was     *)
(* never seeded, a cache that holds one entry before it evicts, and one    *)
(* tab.  A history staffs four desks of the server, or the questions, or   *)
(* the users' desk and the browser, or the catalogue, the script, the forms. *)

CONSTANTS r1, r2, ana, beto, caro

MCUserOf == [r \in Request |-> IF r = r1 THEN ana ELSE beto]
MCEmailOf == [u \in User |-> CASE u = ana -> "ana@" [] u = beto -> "beto@" [] OTHER -> None]
MCTitles == <<"low", "out">>
MCPlainRole == [u \in User |-> IF u = beto THEN "TECHNICIAN" ELSE "WORKER"]
MCDesks ==
    {{"accounts", "customers", "notices", "settings"}, {"accounts", "browser"},
     {"questions"}, {"catalogue"}, {"seeding"}, {"forms"}}
MCSetups ==
    {[provider |-> "GEMINI", caches |-> TRUE], [provider |-> "OPENAI", caches |-> FALSE],
     [provider |-> "RULE_BASED", caches |-> TRUE]}
MCNormalized ==
    [n \in Name |-> IF n = "computadoras" THEN "Laptops" ELSE n]
MCAlarms == SUBSET {"low", "out"}
=============================================================================

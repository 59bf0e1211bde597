----------------------------- MODULE Office_proofs -----------------------------
(***************************************************************************)
(* Proofs about the administration of the business, for any users, rows,   *)
(* requests and desks at work: what holds whoever interleaves, and what    *)
(* holds for clients that wait for every answer.  The handlers of the      *)
(* desks share pc and nothing else that they write, so that each desk has  *)
(* an invariant of its own, and a lemma that says which steps touch it;    *)
(* so have the script that seeds the database while the shop is open, and  *)
(* the forms of the pages, whose rows are followed from entry to reopening.*)
(***************************************************************************)
EXTENDS Office, FiniteSetTheorems, SequenceTheorems, WellFoundedInduction, TLAPS

NoticeLabel == {"findNotice", "createNotice"}
SettingsLabel == {"createSettings", "writeSettings"}
AskLabel == {"askProvider", "answer"}

\* r has executed a statement, from a label of L to one of M.
Moves(r, L, M) ==
    /\ pc[r] \in L /\ pc'[r] \in M
    /\ DOMAIN pc' = Request
    /\ \A q \in Request \ {r} : pc'[q] = pc[q]

\* No request enters, leaves or moves among the labels of L.
Apart(L) ==
    \A r \in Request : pc[r] \in L \/ pc'[r] \in L => pc'[r] = pc[r]

\* A client that waits has one request in flight.
Waiting == patient => \A p, q \in Request : Idle(p) \/ Idle(q) \/ p = q

LEMMA StepMoves ==
    ASSUME DOMAIN pc = Request, NEW r \in Request, NEW from, NEW to, Step(r, from, to)
    PROVE  Moves(r, {from}, {to})
  BY DEF Step, Moves

-----------------------------------------------------------------------------
(* The requests of each desk stay among its statements *)

LEMMA AccountMoves ==
    ASSUME DOMAIN pc = Request, NEW r \in Request
    PROVE  /\ StartAccount(r) => Moves(r, {"idle"}, AccountLabel)
           /\ AccountStep(r) => Moves(r, AccountLabel, AccountLabel \cup {"idle"})
<1> USE DEF AccountLabel
<1>1. ASSUME NEW e, NEW admin, StartCreateUser(r, e, admin)
      PROVE  Moves(r, {"idle"}, AccountLabel)
  BY <1>1, StepMoves DEF StartCreateUser, Moves
<1>2. ASSUME NEW u, NEW e, NEW admin, StartUpdateUser(r, u, e, admin)
      PROVE  Moves(r, {"idle"}, AccountLabel)
  <2>1. PICK to \in {"countAdmins", "writeUser"} : Step(r, "idle", to)
    BY <1>2 DEF StartUpdateUser
  <2>2. QED
    BY <2>1, StepMoves DEF Moves
<1>3. ASSUME NEW u, NEW active, StartStatus(r, u, active)
      PROVE  Moves(r, {"idle"}, AccountLabel)
  <2>1. PICK to \in {"countAdmins", "writeUser"} : Step(r, "idle", to)
    BY <1>3 DEF StartStatus
  <2>2. QED
    BY <2>1, StepMoves DEF Moves
<1>4. StartAccount(r) => Moves(r, {"idle"}, AccountLabel)
  BY <1>1, <1>2, <1>3 DEF StartAccount
<1>5. CASE \E u \in User : InsertUser(r, u)
  BY <1>4, <1>5, StepMoves DEF InsertUser, Moves
<1>6. CASE CountAdmins(r) \/ WriteUser(r)
  BY <1>4, <1>6, StepMoves DEF CountAdmins, WriteUser, Moves
<1>7. CASE AbortAccount(r)
  BY <1>4, <1>7 DEF AbortAccount, Moves
<1>8. QED
  BY <1>4, <1>5, <1>6, <1>7 DEF AccountStep

LEMMA CustomerMoves ==
    ASSUME DOMAIN pc = Request, NEW r \in Request
    PROVE  /\ StartCustomer(r) => Moves(r, {"idle"}, CustomerLabel)
           /\ CustomerStep(r) => Moves(r, CustomerLabel, CustomerLabel \cup {"idle"})
<1> USE DEF CustomerLabel
<1>1. ASSUME NEW d, NEW p, NEW active, StartCreateCustomer(r, d, p, active)
      PROVE  Moves(r, {"idle"}, CustomerLabel)
  BY <1>1, StepMoves DEF StartCreateCustomer, Moves
<1>2. ASSUME NEW c, NEW d, NEW p, NEW active, StartUpdateCustomer(r, c, d, p, active)
      PROVE  Moves(r, {"idle"}, CustomerLabel)
  BY <1>2, StepMoves DEF StartUpdateCustomer, Moves
<1>3. ASSUME NEW c, NEW active, StartCustomerStatus(r, c, active)
      PROVE  Moves(r, {"idle"}, CustomerLabel)
  BY <1>3, StepMoves DEF StartCustomerStatus, Moves
<1>4. StartCustomer(r) => Moves(r, {"idle"}, CustomerLabel)
  BY <1>1, <1>2, <1>3 DEF StartCustomer
<1>5. CASE \E c \in Customer : InsertCustomer(r, c)
  BY <1>4, <1>5, StepMoves DEF InsertCustomer, Moves
<1>6. CASE WriteCustomer(r) \/ WriteCustomerStatus(r)
  BY <1>4, <1>6, StepMoves DEF WriteCustomer, WriteCustomerStatus, Moves
<1>7. CASE AbortCustomer(r)
  BY <1>4, <1>7 DEF AbortCustomer, Moves
<1>8. QED
  BY <1>4, <1>5, <1>6, <1>7 DEF CustomerStep

\* Some handlers of the catalogue are one statement: their request stays idle.
LEMMA CatalogueMoves ==
    ASSUME DOMAIN pc = Request, NEW r \in Request
    PROVE  /\ StartCatalogue(r) => Moves(r, {"idle"}, CatalogueLabel \cup {"idle"})
           /\ CatalogueStep(r) => Moves(r, CatalogueLabel, CatalogueLabel \cup {"idle"})
<1> USE DEF CatalogueLabel
<1> DEFINE Starts == Moves(r, {"idle"}, CatalogueLabel \cup {"idle"})
<1>1. ASSUME NEW c, NEW n, \/ StartCreateCategory(r, n) \/ StartUpdateCategory(r, c, n)
                           \/ StartDeactivateCategory(r, c)
      PROVE  Starts
  BY <1>1, StepMoves DEF StartCreateCategory, StartUpdateCategory, StartDeactivateCategory, Moves
<1>2. ASSUME NEW p, NEW d, \/ StartCreateProduct(r, d) \/ StartUpdateProduct(r, p, d)
                           \/ StartDeactivateProduct(r, p)
      PROVE  Starts
  BY <1>2, StepMoves DEF StartCreateProduct, StartUpdateProduct, StartDeactivateProduct, Moves
<1>3. ASSUME NEW c, NEW n, NEW q, NEW t, \/ WriteQuickCategory(r, c, n) \/ DeactivateQuickCategory(r, c)
                           \/ StartService(r, q, c, t) \/ DeactivateService(r, q)
      PROVE  Starts
  BY <1>3, StepMoves DEF WriteQuickCategory, DeactivateQuickCategory, StartService,
     DeactivateService, Idle, Moves
<1>4. StartCatalogue(r) => Starts
  BY <1>1, <1>2, <1>3 DEF StartCatalogue
<1>5. CASE \/ \E c \in Category : InsertCategory(r, c)
           \/ \E p \in Product : InsertProduct(r, p)
  BY <1>4, <1>5, StepMoves DEF InsertCategory, InsertProduct, Moves
<1>6. CASE WriteCategory(r) \/ WriteProduct(r) \/ DropProduct(r) \/ WriteService(r)
  BY <1>4, <1>6, StepMoves DEF WriteCategory, WriteProduct, DropProduct, WriteService, Moves
<1>7. CASE AbortCatalogue(r)
  BY <1>4, <1>7 DEF AbortCatalogue, Moves
<1>8. QED
  BY <1>4, <1>5, <1>6, <1>7 DEF CatalogueStep

LEMMA NoticeMoves ==
    ASSUME DOMAIN pc = Request, NEW r \in Request
    PROVE  /\ StartNotice(r) => Moves(r, {"idle"}, NoticeLabel \cup {"idle"})
           /\ NoticeStep(r) => Moves(r, NoticeLabel, NoticeLabel \cup {"idle"})
<1> USE DEF NoticeLabel
<1>1. ASSUME NEW alarms, StartNotices(r, alarms)
      PROVE  Moves(r, {"idle"}, NoticeLabel \cup {"idle"})
  BY <1>1, StepMoves DEF StartNotices, Moves
<1>2. ASSUME NEW n, NEW to, \/ PostNotice(r, n, to) \/ MarkRead(r, n) \/ RemoveNotice(r, n)
                            \/ ReadAll(r)
      PROVE  Moves(r, {"idle"}, NoticeLabel \cup {"idle"})
  BY <1>2 DEF PostNotice, MarkRead, RemoveNotice, ReadAll, Idle, Moves
<1>3. StartNotice(r) => Moves(r, {"idle"}, NoticeLabel \cup {"idle"})
  BY <1>1, <1>2 DEF StartNotice
<1>4. CASE FindNotice(r) \/ \E n \in Notice : CreateNotice(r, n)
  BY <1>3, <1>4, StepMoves DEF FindNotice, CreateNotice, Moves
<1>5. CASE AnswerNotices(r)
  BY <1>3, <1>5 DEF AnswerNotices, Moves
<1>6. QED
  BY <1>3, <1>4, <1>5 DEF NoticeStep

LEMMA SettingsMoves ==
    ASSUME DOMAIN pc = Request, NEW r \in Request
    PROVE  /\ \A tax : FindSettings(r, tax) => Moves(r, {"idle"}, SettingsLabel)
           /\ SettingsStep(r) => Moves(r, SettingsLabel, SettingsLabel \cup {"idle"})
<1> USE DEF SettingsLabel
<1>1. ASSUME NEW tax, FindSettings(r, tax) PROVE Moves(r, {"idle"}, SettingsLabel)
  BY <1>1, StepMoves DEF FindSettings, Moves
<1>2. CASE WriteSettings(r) \/ \E i \in Row : CreateSettings(r, i)
  BY <1>1, <1>2, StepMoves DEF WriteSettings, CreateSettings, Moves
<1>3. CASE EndSettings(r)
  BY <1>1, <1>3 DEF EndSettings, Moves
<1>4. QED
  BY <1>1, <1>2, <1>3 DEF SettingsStep

LEMMA AskMoves ==
    ASSUME DOMAIN pc = Request, NEW r \in Request
    PROVE  /\ StartAsk(r) => Moves(r, {"idle"}, AskLabel)
           /\ AskStep(r) => Moves(r, AskLabel, AskLabel \cup {"idle"})
<1> USE DEF AskLabel
<1>1. ASSUME NEW q, AskRules(r, q) \/ AskCache(r, q) \/ AskCloud(r, q)
      PROVE  Moves(r, {"idle"}, AskLabel)
  BY <1>1, StepMoves DEF AskRules, AskCache, AskCloud, Moves
<1>2. ASSUME NEW sentence, CloudAnswers(r, sentence)
      PROVE  Moves(r, AskLabel, AskLabel \cup {"idle"})
  BY <1>2, StepMoves DEF CloudAnswers, Moves
<1>3. CASE CloudFails(r)
  BY <1>1, <1>3, StepMoves DEF StartAsk, CloudFails, Moves
<1>4. CASE EndAsk(r)
  BY <1>1, <1>4 DEF StartAsk, EndAsk, Moves
<1>5. QED
  BY <1>1, <1>2, <1>3, <1>4 DEF StartAsk, AskStep, GeminiAnswers, GeminiFails, OpenAiAnswers, OpenAiFails

-----------------------------------------------------------------------------
(* Which steps touch a desk *)

\* A client that waits has a request handled at once.
MayArrive == patient => \A q \in Request : Idle(q)

\* What one step of the office is, desk by desk; the rest moves no request.
LEMMA OfficeCases ==
    ASSUME DOMAIN pc = Request, [OfficeNext]_officeVars
    PROVE  /\ patient' = patient
           /\ \/ \E r \in Request :
                  /\ MayArrive \/ pc[r] # "idle"
                  /\ \/ StartAccount(r) /\ MayArrive /\ UNCHANGED deskVars
                     \/ AccountStep(r) /\ UNCHANGED deskVars
                     \/ /\ (StartCustomer(r) /\ MayArrive) \/ CustomerStep(r)
                        /\ UNCHANGED <<accountVars, serviceVars, catalogueVars>>
                     \/ /\ (StartCatalogue(r) /\ MayArrive) \/ CatalogueStep(r)
                        /\ UNCHANGED <<accountVars, customerVars, serviceVars>>
                     \/ /\ (StartNotice(r) /\ MayArrive) \/ NoticeStep(r)
                        /\ UNCHANGED <<accountVars, customerVars, catalogueVars>>
                        /\ UNCHANGED <<settingsVars, aiVars>>
                     \/ /\ \/ SettingsStep(r)
                           \/ \E tax \in Tax \cup {None} : FindSettings(r, tax) /\ MayArrive
                        /\ UNCHANGED <<accountVars, customerVars, catalogueVars>>
                        /\ UNCHANGED <<noticeVars, aiVars>>
                     \/ /\ (StartAsk(r) /\ MayArrive) \/ AskStep(r)
                        /\ UNCHANGED <<accountVars, customerVars, catalogueVars>>
                        /\ UNCHANGED <<noticeVars, settingsVars>>
                  /\ UNCHANGED browserVars
              \/ /\ pc' = pc
                 /\ UNCHANGED <<accountVars, customerVars, catalogueVars>>
                 /\ UNCHANGED <<noticeVars, settingsVars>>
                 /\ AiEnvironment \/ UNCHANGED aiVars
                 /\ \/ UNCHANGED browserVars
                    \/ \E t \in Tab : BrowserStep(t) \/ \E u \in User : Login(t, u)
<1>1. CASE UNCHANGED officeVars
  BY <1>1 DEF officeVars, deskVars, serviceVars
<1>2. CASE Environment
  BY <1>2 DEF Environment, AiEnvironment, BusinessGoesOn, Expire, RestartAi
<1>3. CASE SignIn \/ Browse
  BY <1>3 DEF SignIn, Browse, deskVars, serviceVars
<1>4. CASE SeedShop \/ FillForms
  BY <1>4 DEF SeedShop, FillForms, deskVars, serviceVars
<1>5. ASSUME NEW r \in Request, Arrive(r) PROVE MayArrive /\ patient' = patient
  BY <1>5 DEF Arrive, MayArrive
<1>6. CASE \E r \in Request : Arrive(r)
  <2>1. PICK r \in Request : Arrive(r)
    BY <1>6
  <2>2. QED
    BY <1>5, <2>1 DEF Arrive, deskVars, serviceVars
<1>7. CASE \E r \in Request : Handle(r)
  <2>1. PICK r \in Request : Handle(r)
    BY <1>7
  <2>2. pc[r] # "idle"
    BY <2>1, AccountMoves, CustomerMoves, CatalogueMoves, NoticeMoves, SettingsMoves, AskMoves
       DEF Handle, Moves, AccountLabel, CustomerLabel, CatalogueLabel, NoticeLabel,
           SettingsLabel, AskLabel
  <2>3. QED
    BY <2>1, <2>2 DEF Handle, deskVars, serviceVars
<1>8. QED
  BY <1>1, <1>2, <1>3, <1>4, <1>6, <1>7 DEF OfficeNext

\* Every step moves one request at most, and only a free one while the client
\* of another waits.
LEMMA OfficeMoves ==
    ASSUME DOMAIN pc = Request, Waiting, [OfficeNext]_officeVars
    PROVE  patient' = patient /\ (DOMAIN pc = Request)' /\ Waiting'
<1>1. CASE pc' = pc
  BY <1>1, OfficeCases DEF Waiting, Idle
<1>2. CASE pc' # pc
  <2>1. PICK r \in Request :
          /\ MayArrive \/ pc[r] # "idle"
          /\ \/ StartAccount(r) \/ AccountStep(r)
             \/ StartCustomer(r) \/ CustomerStep(r)
             \/ StartCatalogue(r) \/ CatalogueStep(r)
             \/ StartNotice(r) \/ NoticeStep(r)
             \/ (\E tax \in Tax \cup {None} : FindSettings(r, tax)) \/ SettingsStep(r)
             \/ StartAsk(r) \/ AskStep(r)
    BY <1>2, OfficeCases
  <2>2. /\ DOMAIN pc' = Request
        /\ \A q \in Request \ {r} : pc'[q] = pc[q]
    BY <2>1, AccountMoves, CustomerMoves, CatalogueMoves, NoticeMoves, SettingsMoves, AskMoves
       DEF Moves
  <2>3. patient' = patient
    BY OfficeCases
  <2>4. QED
    BY <2>1, <2>2, <2>3 DEF Waiting, MayArrive, Idle
<1>3. QED
  BY <1>1, <1>2

LEMMA AccountFrame ==
    ASSUME DOMAIN pc = Request, [OfficeNext]_officeVars
    PROVE  \/ \E r \in Request : (MayArrive /\ StartAccount(r)) \/ AccountStep(r)
           \/ UNCHANGED accountVars /\ Apart(AccountLabel)
  BY OfficeCases, CustomerMoves, CatalogueMoves, NoticeMoves, SettingsMoves, AskMoves
     DEF Apart, Moves, serviceVars, deskVars, AccountLabel, CustomerLabel, CatalogueLabel,
         NoticeLabel, SettingsLabel, AskLabel

LEMMA CustomerFrame ==
    ASSUME DOMAIN pc = Request, [OfficeNext]_officeVars
    PROVE  \/ \E r \in Request : (MayArrive /\ StartCustomer(r)) \/ CustomerStep(r)
           \/ UNCHANGED customerVars /\ Apart(CustomerLabel)
  BY OfficeCases, AccountMoves, CatalogueMoves, NoticeMoves, SettingsMoves, AskMoves
     DEF Apart, Moves, serviceVars, deskVars, AccountLabel, CustomerLabel, CatalogueLabel,
         NoticeLabel, SettingsLabel, AskLabel

LEMMA CatalogueFrame ==
    ASSUME DOMAIN pc = Request, [OfficeNext]_officeVars
    PROVE  \/ \E r \in Request : (MayArrive /\ StartCatalogue(r)) \/ CatalogueStep(r)
           \/ UNCHANGED catalogueVars /\ Apart(CatalogueLabel)
  BY OfficeCases, AccountMoves, CustomerMoves, NoticeMoves, SettingsMoves, AskMoves
     DEF Apart, Moves, serviceVars, deskVars, AccountLabel, CustomerLabel, CatalogueLabel,
         NoticeLabel, SettingsLabel, AskLabel

LEMMA NoticeFrame ==
    ASSUME DOMAIN pc = Request, [OfficeNext]_officeVars
    PROVE  \/ \E r \in Request : (MayArrive /\ StartNotice(r)) \/ NoticeStep(r)
           \/ UNCHANGED noticeVars /\ Apart(NoticeLabel)
  BY OfficeCases, AccountMoves, CustomerMoves, CatalogueMoves, SettingsMoves, AskMoves
     DEF Apart, Moves, serviceVars, deskVars, AccountLabel, CustomerLabel, CatalogueLabel,
         NoticeLabel, SettingsLabel, AskLabel

LEMMA SettingsFrame ==
    ASSUME DOMAIN pc = Request, [OfficeNext]_officeVars
    PROVE  \/ \E r \in Request : (MayArrive /\ \E tax \in Tax \cup {None} : FindSettings(r, tax)) \/ SettingsStep(r)
           \/ UNCHANGED settingsVars /\ Apart(SettingsLabel)
  BY OfficeCases, AccountMoves, CustomerMoves, CatalogueMoves, NoticeMoves, AskMoves
     DEF Apart, Moves, serviceVars, deskVars, AccountLabel, CustomerLabel, CatalogueLabel,
         NoticeLabel, SettingsLabel, AskLabel

LEMMA AskFrame ==
    ASSUME DOMAIN pc = Request, [OfficeNext]_officeVars
    PROVE  \/ \E r \in Request : (MayArrive /\ StartAsk(r)) \/ AskStep(r)
           \/ AiEnvironment
           \/ UNCHANGED aiVars /\ Apart(AskLabel)
  BY OfficeCases, AccountMoves, CustomerMoves, CatalogueMoves, NoticeMoves, SettingsMoves
     DEF Apart, Moves, serviceVars, deskVars, AccountLabel, CustomerLabel, CatalogueLabel,
         NoticeLabel, SettingsLabel, AskLabel

-----------------------------------------------------------------------------
(* Users *)

Maybe(S) == S \cup {None}

AccountRow == [email : Maybe(Email), admin : BOOLEAN, active : BOOLEAN]
EditRow ==
    [user : Maybe(User), email : Maybe(Email), admin : Maybe(BOOLEAN), active : Maybe(BOOLEAN)]

AccountTypeOK ==
    /\ account \in [User -> AccountRow]
    /\ DOMAIN editing = Request
    /\ \A r \in Request :
         /\ pc[r] \in AccountLabel => editing[r] \in EditRow
         /\ pc[r] = "insertUser" => editing[r].email # None /\ editing[r].admin # None

\* What r is about to write leaves an administrator: another one, or the user
\* whom it edits.
Leaves(r) ==
    \E a \in ActiveAdmins :
        a = editing[r].user => editing[r].admin # FALSE /\ editing[r].active # FALSE

AccountsInv ==
    /\ AccountTypeOK
    /\ patient => AdminRemains
    /\ patient => \A r \in Request : pc[r] = "writeUser" => Leaves(r)

LEMMA AccountsInitially ==
    ASSUME OfficeInit
    PROVE  AccountsInv
<1> USE RequestAssumption, AccountAssumption DEF OfficeInit, AccountsInit
<1>1. account \in [User -> AccountRow]
  BY DEF AccountRow, Maybe
<1>2. AccountTypeOK
  BY <1>1 DEF AccountTypeOK, AccountLabel
<1>3. AdminRemains
  BY DEF AdminRemains, ActiveAdmins, Existing
<1>4. QED
  BY <1>2, <1>3 DEF AccountsInv

LEMMA StartAccountKeeps ==
    ASSUME DOMAIN pc = Request, AccountsInv, NEW r \in Request, MayArrive, StartAccount(r),
           patient' = patient
    PROVE  AccountsInv'
<1> USE RequestAssumption, AccountAssumption DEF AccountsInv, AccountTypeOK
<1>1. Moves(r, {"idle"}, AccountLabel) /\ UNCHANGED account
  BY AccountMoves DEF StartAccount, StartCreateUser, StartUpdateUser, StartStatus
<1> DEFINE Opened(e) ==
        /\ editing' = [editing EXCEPT ![r] = e]
        /\ pc'[r] = "insertUser" => e.email # None /\ e.admin # None
        /\ pc'[r] = "writeUser" /\ AdminRemains =>
             \E a \in ActiveAdmins : a = e.user => e.admin # FALSE /\ e.active # FALSE
<1>2. \E e \in EditRow : Opened(e)
  <2>1. ASSUME NEW email \in Email, NEW admin \in BOOLEAN, StartCreateUser(r, email, admin)
        PROVE  \E e \in EditRow : Opened(e)
    <3>1. Edit(None, email, admin, TRUE) \in EditRow
      BY DEF Edit, EditRow, Maybe
    <3>2. pc'[r] = "insertUser"
      BY <2>1 DEF StartCreateUser, Step
    <3>3. QED
      BY <2>1, <3>1, <3>2 DEF StartCreateUser, Edit
  <2>2. ASSUME NEW u \in User, NEW email \in Maybe(Email), NEW admin \in Maybe(BOOLEAN),
               StartUpdateUser(r, u, email, admin)
        PROVE  \E e \in EditRow : Opened(e)
    <3>1. Edit(u, email, admin, None) \in EditRow
      BY DEF Edit, EditRow, Maybe
    <3>2. pc'[r] \in {"countAdmins", "writeUser"}
      BY <2>2 DEF StartUpdateUser, Step
    <3>3. pc'[r] = "writeUser" =>
            ~(admin # None /\ account[u].admin /\ ~(admin = TRUE /\ account[u].active))
      BY <2>2 DEF StartUpdateUser, Step
    <3>4. ASSUME NEW a \in ActiveAdmins, pc'[r] = "writeUser", a = u
          PROVE  admin # FALSE
      BY <3>3, <3>4 DEF ActiveAdmins, Existing
    <3>5. QED
      BY <2>2, <3>1, <3>2, <3>4 DEF StartUpdateUser, Edit, AdminRemains
  <2>3. ASSUME NEW u \in User, NEW active \in BOOLEAN, StartStatus(r, u, active)
        PROVE  \E e \in EditRow : Opened(e)
    <3>1. Edit(u, None, None, active) \in EditRow
      BY DEF Edit, EditRow, Maybe
    <3>2. pc'[r] \in {"countAdmins", "writeUser"}
      BY <2>3 DEF StartStatus, Step
    <3>3. pc'[r] = "writeUser" => ~(~active /\ account[u].admin)
      BY <2>3 DEF StartStatus, Step
    <3>4. ASSUME NEW a \in ActiveAdmins, pc'[r] = "writeUser", a = u
          PROVE  active # FALSE
      BY <3>3, <3>4 DEF ActiveAdmins, Existing
    <3>5. QED
      BY <2>3, <3>1, <3>2, <3>4 DEF StartStatus, Edit, AdminRemains
  <2> HIDE DEF Opened
  <2>4. CASE \E e \in Email, admin \in BOOLEAN : StartCreateUser(r, e, admin)
    BY <2>1, <2>4, Zenon
  <2>5. CASE \E u \in User, e \in Maybe(Email), admin \in Maybe(BOOLEAN) :
               StartUpdateUser(r, u, e, admin)
    BY <2>2, <2>5, Zenon
  <2>6. CASE \E u \in User, active \in BOOLEAN : StartStatus(r, u, active)
    BY <2>3, <2>6, Zenon
  <2>7. QED
    BY <2>4, <2>5, <2>6, Zenon DEF StartAccount, Maybe
<1> PICK e \in EditRow : Opened(e)
  BY <1>2
<1>3. AccountTypeOK'
  BY <1>1 DEF Moves, AccountLabel
<1>4. ActiveAdmins' = ActiveAdmins
  BY <1>1 DEF ActiveAdmins, Existing
<1>5. ASSUME patient, NEW q \in Request, pc'[q] = "writeUser" PROVE Leaves(q)'
  <2>1. q = r
    BY <1>1, <1>5 DEF MayArrive, Idle, Moves
  <2>2. QED
    BY <1>4, <1>5, <2>1 DEF Leaves
<1>6. QED
  BY <1>3, <1>4, <1>5 DEF AdminRemains

LEMMA AccountStepKeeps ==
    ASSUME DOMAIN pc = Request, Waiting, AccountsInv, NEW r \in Request, AccountStep(r),
           patient' = patient
    PROVE  AccountsInv'
<1> USE RequestAssumption, AccountAssumption DEF AccountsInv
<1>1. Moves(r, AccountLabel, AccountLabel \cup {"idle"})
  BY AccountMoves
<1>2. ASSUME patient, NEW q \in Request, pc'[q] = "writeUser" PROVE q = r
  BY <1>1, <1>2 DEF Waiting, Idle, Moves, AccountLabel
<1>3. ASSUME NEW u \in User, InsertUser(r, u) PROVE AccountsInv'
  <2> DEFINE row == [email |-> editing[r].email, admin |-> editing[r].admin, active |-> TRUE]
  <2>1. row \in AccountRow
    BY <1>3 DEF InsertUser, Step, AccountTypeOK, AccountLabel, EditRow, AccountRow, Maybe
  <2>2. pc'[r] = "idle"
    BY <1>3 DEF InsertUser, Step
  <2>3. AccountTypeOK'
    BY <1>1, <1>3, <2>1, <2>2 DEF InsertUser, AccountTypeOK, AccountLabel, Moves
  <2>4. ActiveAdmins \subseteq ActiveAdmins'
    BY <1>3 DEF InsertUser, ActiveAdmins, Existing, AccountTypeOK
  <2>5. QED
    BY <1>2, <2>2, <2>3, <2>4 DEF AdminRemains
<1>4. CASE CountAdmins(r)
  <2>1. /\ UNCHANGED accountVars /\ pc'[r] = "writeUser" /\ pc[r] = "countAdmins"
        /\ ActiveAdmins \ {editing[r].user} # {}
    BY <1>4 DEF CountAdmins, Step
  <2>2. AccountTypeOK'
    BY <1>1, <2>1 DEF accountVars, AccountTypeOK, AccountLabel, Moves
  <2>3. ActiveAdmins' = ActiveAdmins
    BY <2>1 DEF accountVars, ActiveAdmins, Existing
  <2>4. Leaves(r)'
    BY <2>1, <2>3 DEF Leaves, accountVars
  <2>5. QED
    BY <1>2, <2>2, <2>3, <2>4 DEF AdminRemains
<1>5. CASE WriteUser(r)
  <2> DEFINE e == editing[r]
  <2>1. /\ pc[r] = "writeUser" /\ pc'[r] = "idle"
        /\ account' = [account EXCEPT ![e.user] = Changed(@, e)]
        /\ editing' = [editing EXCEPT ![r] = None]
        /\ e \in EditRow
    BY <1>5 DEF WriteUser, Step, AccountTypeOK, AccountLabel
  <2>2. ASSUME NEW row \in AccountRow
        PROVE  /\ Changed(row, e) \in AccountRow
               /\ row.email # None => Changed(row, e).email # None
               /\ row.admin /\ e.admin # FALSE => Changed(row, e).admin
               /\ row.active /\ e.active # FALSE => Changed(row, e).active
    <3>1. e = [user |-> e.user, email |-> e.email, admin |-> e.admin, active |-> e.active]
      BY <2>1 DEF EditRow
    <3>2. Changed(row, e) =
            [email |-> IF e.email = None THEN row.email ELSE e.email,
             admin |-> IF e.admin = None THEN row.admin ELSE e.admin,
             active |-> IF e.active = None THEN row.active ELSE e.active]
      BY DEF Changed
    <3>3. /\ e.email \in Maybe(Email) /\ e.admin \in Maybe(BOOLEAN)
          /\ e.active \in Maybe(BOOLEAN)
      BY <2>1 DEF EditRow
    <3>4. /\ IF e.email = None THEN row.email \in Maybe(Email) ELSE e.email \in Maybe(Email)
          /\ row.admin \in BOOLEAN /\ (e.admin # None => e.admin \in BOOLEAN)
          /\ row.active \in BOOLEAN /\ (e.active # None => e.active \in BOOLEAN)
      BY <3>3 DEF AccountRow, Maybe
    <3>5. Changed(row, e) \in AccountRow
      BY <3>2, <3>4 DEF AccountRow
    <3>6. row.email # None => Changed(row, e).email # None
      BY <3>2
    <3>7. /\ e.admin \notin {None, FALSE} => e.admin = TRUE
          /\ e.active \notin {None, FALSE} => e.active = TRUE
      BY <3>4
    <3>8. /\ Changed(row, e).admin = IF e.admin = None THEN row.admin ELSE e.admin
          /\ Changed(row, e).active = IF e.active = None THEN row.active ELSE e.active
      BY <3>2
    <3>9. /\ row.admin /\ e.admin # FALSE => Changed(row, e).admin
          /\ row.active /\ e.active # FALSE => Changed(row, e).active
      BY <3>7, <3>8, Zenon
    <3>10. QED
      BY <3>5, <3>6, <3>9
  <2>3. AccountTypeOK'
    BY <1>1, <2>1, <2>2 DEF AccountTypeOK, AccountLabel, Moves
  <2>4. ASSUME NEW a \in ActiveAdmins, a = e.user => e.admin # FALSE /\ e.active # FALSE
        PROVE  a \in ActiveAdmins'
    BY <2>1, <2>2, <2>4 DEF ActiveAdmins, Existing, AccountTypeOK
  <2>5. patient => AdminRemains'
    BY <2>1, <2>4 DEF Leaves, AdminRemains
  <2>6. QED
    BY <1>2, <2>1, <2>3, <2>5
<1>6. CASE AbortAccount(r)
  <2>1. /\ UNCHANGED account /\ pc'[r] = "idle"
        /\ editing' = [editing EXCEPT ![r] = None]
    BY <1>6 DEF AbortAccount, AccountTypeOK, Moves
  <2>2. AccountTypeOK'
    BY <1>1, <2>1 DEF AccountTypeOK, AccountLabel, Moves
  <2>3. ActiveAdmins' = ActiveAdmins
    BY <2>1 DEF ActiveAdmins, Existing
  <2>4. QED
    BY <1>2, <2>1, <2>2, <2>3 DEF AdminRemains
<1>7. QED
  BY <1>3, <1>4, <1>5, <1>6 DEF AccountStep

LEMMA AccountsStay ==
    ASSUME DOMAIN pc = Request, Waiting, AccountsInv, [OfficeNext]_officeVars
    PROVE  AccountsInv'
<1>1. patient' = patient
  BY OfficeCases
<1>2. CASE UNCHANGED accountVars /\ Apart(AccountLabel)
  BY <1>1, <1>2 DEF accountVars, Apart, AccountsInv, AccountTypeOK, AdminRemains, Leaves,
     ActiveAdmins, Existing, AccountLabel
<1>3. QED
  BY <1>1, <1>2, AccountFrame, StartAccountKeeps, AccountStepKeeps

-----------------------------------------------------------------------------
(* Customers *)

\* An edit that leaves the status out is about to write the status of the row.
CustomersInv ==
    /\ DOMAIN customer = Customer /\ DOMAIN filing = Request
    /\ patient =>
         \A r \in Request : pc[r] = "writeCustomer" /\ ~filing[r].states =>
           filing[r].row.active = customer[filing[r].id].active

LEMMA StartCustomerKeeps ==
    ASSUME DOMAIN pc = Request, CustomersInv, NEW r \in Request, MayArrive, StartCustomer(r),
           patient' = patient
    PROVE  CustomersInv'
<1> DEFINE Read(f) ==
        /\ filing' = [filing EXCEPT ![r] = f]
        /\ pc'[r] = "writeCustomer" /\ ~f.states => f.row.active = customer[f.id].active
<1>1. ASSUME NEW d, NEW p, NEW active, StartCreateCustomer(r, d, p, active)
      PROVE  \E f : Read(f)
  <2>1. pc'[r] = "insertCustomer"
    BY <1>1 DEF StartCreateCustomer, Step
  <2>2. QED
    BY <1>1, <2>1 DEF StartCreateCustomer
<1>2. ASSUME NEW c, NEW d, NEW p, NEW active, StartUpdateCustomer(r, c, d, p, active)
      PROVE  \E f : Read(f)
  <2> DEFINE f == Filing(c, Merge(customer[c], d, p, active), active)
  <2>1. ~f.states => f.row.active = customer[f.id].active
    BY DEF Filing, Merge, Given
  <2>2. QED
    BY <1>2, <2>1 DEF StartUpdateCustomer
<1>3. ASSUME NEW c, NEW active, StartCustomerStatus(r, c, active)
      PROVE  \E f : Read(f)
  <2>1. pc'[r] = "writeCustomerStatus"
    BY <1>3 DEF StartCustomerStatus, Step
  <2>2. QED
    BY <1>3, <2>1 DEF StartCustomerStatus
<1>4. \E f : Read(f)
  <2> HIDE DEF Read
  <2>1. QED
    BY <1>1, <1>2, <1>3 DEF StartCustomer
<1>5. Moves(r, {"idle"}, CustomerLabel) /\ UNCHANGED customer
  BY CustomerMoves DEF StartCustomer, StartCreateCustomer, StartUpdateCustomer, StartCustomerStatus
<1>6. ASSUME patient, NEW q \in Request, pc'[q] = "writeCustomer" PROVE q = r
  BY <1>5, <1>6 DEF MayArrive, Idle, Moves
<1>7. QED
  BY <1>4, <1>5, <1>6 DEF CustomersInv

LEMMA CustomersStay ==
    ASSUME DOMAIN pc = Request, Waiting, CustomersInv, [OfficeNext]_officeVars
    PROVE  CustomersInv'
<1>1. patient' = patient
  BY OfficeCases
<1>2. CASE UNCHANGED customerVars /\ Apart(CustomerLabel)
  BY <1>1, <1>2 DEF customerVars, Apart, CustomersInv, CustomerLabel
<1>3. ASSUME NEW r \in Request, CustomerStep(r) PROVE CustomersInv'
  <2>1. Moves(r, CustomerLabel, CustomerLabel \cup {"idle"}) /\ pc'[r] = "idle"
    BY <1>3, CustomerMoves DEF CustomerStep, InsertCustomer, WriteCustomer, WriteCustomerStatus,
       AbortCustomer, Step, Moves
  <2>2. /\ DOMAIN customer' = DOMAIN customer
        /\ DOMAIN filing' = DOMAIN filing
    BY <1>3 DEF CustomerStep, InsertCustomer, WriteCustomer, WriteCustomerStatus, AbortCustomer
  <2>3. patient => \A q \in Request : pc'[q] # "writeCustomer"
    BY <2>1 DEF Waiting, Idle, Moves, CustomerLabel
  <2>4. QED
    BY <1>1, <2>2, <2>3 DEF CustomersInv
<1>4. QED
  BY <1>1, <1>2, <1>3, CustomerFrame, StartCustomerKeeps

\* The request of another desk writes no customer, and that of this one the
\* status it read.
LEMMA CustomerEdits ==
    ASSUME DOMAIN pc = Request, CustomersInv, [OfficeNext]_officeVars, patient
    PROVE  EditsKeepStatus
<1> SUFFICES ASSUME NEW r \in Request, pc[r] = "writeCustomer", pc'[r] = "idle",
                    ~filing[r].states, NEW c \in Filed
             PROVE  customer'[c].active = customer[c].active
  BY DEF EditsKeepStatus
<1>1. PICK q \in Request : (MayArrive /\ StartCustomer(q)) \/ CustomerStep(q)
  BY CustomerFrame DEF Apart, CustomerLabel
<1>2. q = r
  BY <1>1, CustomerMoves DEF Moves
<1>3. WriteCustomer(r) \/ UNCHANGED customer
  <2>1. ~StartCustomer(r)
    BY CustomerMoves DEF Moves
  <2>2. QED
    BY <1>1, <1>2, <2>1 DEF CustomerStep, InsertCustomer, WriteCustomerStatus, AbortCustomer, Step
<1>4. c \in Customer
  BY DEF Filed
<1>5. QED
  BY <1>3, <1>4 DEF WriteCustomer, CustomersInv

-----------------------------------------------------------------------------
(* The catalogue *)

\* Names are normalised before they are looked up and stored.
Normal == {n \in Name : normalized[n] = n}
Stated ==
    [category : Maybe(Category), sku : Maybe(Code), barcode : Maybe(Code), text : Maybe(Text)]

CategoriesInv ==
    /\ DOMAIN category = Category
    /\ \A c \in Category :
         DOMAIN category[c] = {"name", "active"} /\ category[c].name \in Maybe(Normal)
    /\ \A c, d \in Categories : category[c].name = category[d].name => c = d

ProductsInv ==
    /\ DOMAIN product = Product
    /\ \A p \in Product : DOMAIN product[p] = DOMAIN NoProduct

\* What a handler keeps between its statements: w, before the statement `label',
\* while the rows of categories are those of cs.
Pending(w, label, cs) ==
    /\ label = "insertCategory" => \E n \in Normal : w.row = [name |-> n]
    /\ label = "writeCategory" =>
         /\ w.id \in cs
         /\ w.row = [active |-> FALSE] \/ \E n \in Normal : w.row = [name |-> n]
    /\ label \in {"insertProduct", "writeProduct"} => w.row \in Stated
    /\ label = "writeProduct" => w.id \in Product

PendingInv ==
    /\ DOMAIN cataloguing = Request
    /\ \A r \in Request : Pending(cataloguing[r], pc[r], Categories)

CatalogueInv == CategoriesInv /\ ProductsInv /\ PendingInv

LEMMA CatalogueInitially ==
    ASSUME OfficeInit
    PROVE  CatalogueInv
<1> USE DEF OfficeInit, CatalogueInit
<1>1. CategoriesInv
  BY DEF CategoriesInv, Categories, NoCategory, Maybe
<1>2. ProductsInv
  BY DEF ProductsInv
<1>3. PendingInv
  BY DEF PendingInv, Pending
<1>4. QED
  BY <1>1, <1>2, <1>3 DEF CatalogueInv

\* UPDATE: the columns stated.
LEMMA UpdatedProduct ==
    ASSUME NEW row, DOMAIN row = DOMAIN NoProduct, NEW d \in Stated
    PROVE  /\ DOMAIN [UpdatedRow(row, d) EXCEPT !.search = d.text] = DOMAIN NoProduct
           /\ [UpdatedRow(row, d) EXCEPT !.search = d.text].active = row.active
           /\ \A f \in DOMAIN d :
                d[f] = None => [UpdatedRow(row, d) EXCEPT !.search = d.text][f] = row[f]
<1>1. /\ DOMAIN d = {"category", "sku", "barcode", "text"}
      /\ DOMAIN row = {"category", "sku", "barcode", "text", "search", "active"}
  BY DEF Stated, NoProduct
<1>2. DOMAIN UpdatedRow(row, d) = DOMAIN row
  BY DEF UpdatedRow
<1>3. QED
  BY <1>1, <1>2 DEF UpdatedRow

LEMMA UpdatedCategory ==
    ASSUME NEW row, DOMAIN row = {"name", "active"}, CatalogueAssumption
    PROVE  /\ \A n \in Normal :
                /\ DOMAIN UpdatedRow(row, [name |-> n]) = DOMAIN row
                /\ UpdatedRow(row, [name |-> n]).name = n
           /\ DOMAIN UpdatedRow(row, [active |-> FALSE]) = DOMAIN row
           /\ UpdatedRow(row, [active |-> FALSE]).name = row.name
  BY DEF UpdatedRow, Normal, CatalogueAssumption

LEMMA StartCatalogueKeeps ==
    ASSUME DOMAIN pc = Request, CatalogueInv, NEW r \in Request, StartCatalogue(r)
    PROVE  CatalogueInv'
<1> USE CatalogueAssumption DEF CatalogueInv
<1>1. Moves(r, {"idle"}, CatalogueLabel \cup {"idle"})
  BY CatalogueMoves
<1>2. UNCHANGED <<category, product>>
  <2> DEFINE Unmoved == UNCHANGED <<category, product>>
  <2>1. /\ \A n \in Name : StartCreateCategory(r, n) => Unmoved
        /\ \A c \in Category, n \in Name : StartUpdateCategory(r, c, n) => Unmoved
        /\ \A c \in Category : StartDeactivateCategory(r, c) => Unmoved
    BY DEF StartCreateCategory, StartUpdateCategory, StartDeactivateCategory
  <2>2. /\ \A d : StartCreateProduct(r, d) => Unmoved
        /\ \A p, d : StartUpdateProduct(r, p, d) => Unmoved
        /\ \A p \in Product : StartDeactivateProduct(r, p) => Unmoved
    BY DEF StartCreateProduct, StartUpdateProduct, StartDeactivateProduct
  <2>3. /\ \A c \in QuickCategory, n \in Name : WriteQuickCategory(r, c, n) => Unmoved
        /\ \A c \in QuickCategory : DeactivateQuickCategory(r, c) => Unmoved
        /\ \A q, c, t : StartService(r, q, c, t) => Unmoved
        /\ \A q \in Services : DeactivateService(r, q) => Unmoved
    BY DEF WriteQuickCategory, DeactivateQuickCategory, StartService, DeactivateService
  <2> HIDE DEF Unmoved
  <2>4. Unmoved
    BY <2>1, <2>2, <2>3 DEF StartCatalogue
  <2>5. QED
    BY <2>4 DEF Unmoved
<1>3. CategoriesInv' /\ ProductsInv' /\ Categories' = Categories
  BY <1>2 DEF CategoriesInv, ProductsInv, Categories
<1>4. ASSUME NEW name \in Name PROVE normalized[name] \in Normal
  BY DEF Normal
<1> DEFINE Done ==
        \/ UNCHANGED cataloguing /\ pc'[r] = "idle"
        \/ \E w : cataloguing' = [cataloguing EXCEPT ![r] = w] /\ Pending(w, pc'[r], Categories)
<1>5. ASSUME NEW c \in Category, NEW n \in Name, StartUpdateCategory(r, c, n) PROVE Done
  BY <1>4, <1>5 DEF StartUpdateCategory, Step, Open, Pending
<1>6. ASSUME NEW n \in Name, StartCreateCategory(r, n) PROVE Done
  BY <1>4, <1>6 DEF StartCreateCategory, Step, Open, Pending
<1>7. ASSUME NEW c \in Category, StartDeactivateCategory(r, c) PROVE Done
  BY <1>7 DEF StartDeactivateCategory, Step, Open, Pending
<1>8. ASSUME NEW d \in Stated, StartCreateProduct(r, d) PROVE Done
  BY <1>8 DEF StartCreateProduct, Step, Open, Pending
<1>9. ASSUME NEW p \in Product, NEW d \in Stated, StartUpdateProduct(r, p, d) PROVE Done
  <2>1. Pending([id |-> p, row |-> d], "writeProduct", Categories)
    BY DEF Pending
  <2>2. QED
    BY <1>9, <2>1 DEF StartUpdateProduct, Step, Open
<1>10. ASSUME NEW p, StartDeactivateProduct(r, p) PROVE Done
  BY <1>10 DEF StartDeactivateProduct, Step, Open, Pending
<1>11. ASSUME NEW q, NEW c, NEW t, StartService(r, q, c, t) PROVE Done
  BY <1>11 DEF StartService, Step, Open, Pending
<1>12. ASSUME NEW q, NEW c, NEW n, \/ WriteQuickCategory(r, c, n) \/ DeactivateQuickCategory(r, c)
                                   \/ DeactivateService(r, q)
       PROVE  Done
  BY <1>12 DEF WriteQuickCategory, DeactivateQuickCategory, DeactivateService, Idle
<1>13. ASSUME NEW c \in Maybe(Category), NEW k \in Maybe(Code), NEW b \in Maybe(Code),
              NEW t \in Maybe(Text)
       PROVE  Description(c, k, b, t) \in Stated
  BY DEF Description, Stated
<1>14. Done
  <2> HIDE DEF Done
  <2>1. CASE \E c \in Category, k \in Code, b \in Maybe(Code), t \in Text :
               StartCreateProduct(r, Description(c, k, b, t))
    BY <1>8, <1>13, <2>1 DEF Maybe
  <2>2. CASE \E p \in Product, c \in Maybe(Category), k, b \in Maybe(Code), t \in Maybe(Text) :
               StartUpdateProduct(r, p, Description(c, k, b, t))
    BY <1>9, <1>13, <2>2
  <2>3. CASE \/ \E p \in Product : StartDeactivateProduct(r, p)
             \/ \E n \in Name : StartCreateCategory(r, n)
             \/ \E n \in Name, c \in Category : StartUpdateCategory(r, c, n)
             \/ \E c \in Category : StartDeactivateCategory(r, c)
    BY <1>5, <1>6, <1>7, <1>10, <2>3
  <2>4. CASE \/ \E c \in QuickCategory :
                  \/ \E n \in Name : WriteQuickCategory(r, c, n)
                  \/ DeactivateQuickCategory(r, c)
                  \/ \E t \in Text : StartService(r, None, c, t)
             \/ \E q \in Services :
                  \/ \E c \in Maybe(QuickCategory), t \in Maybe(Text) : StartService(r, q, c, t)
                  \/ DeactivateService(r, q)
    BY <1>11, <1>12, <2>4
  <2>5. QED
    BY <2>1, <2>2, <2>3, <2>4, Zenon DEF StartCatalogue, Maybe
<1>15. PendingInv'
  <2>1. \A q \in Request \ {r} : cataloguing'[q] = cataloguing[q] /\ pc'[q] = pc[q]
    BY <1>1, <1>14 DEF PendingInv, Moves
  <2>2. Pending(cataloguing'[r], pc'[r], Categories)
    BY <1>14 DEF Pending, PendingInv
  <2>3. QED
    BY <1>3, <1>14, <2>1, <2>2 DEF PendingInv
<1>16. QED
  BY <1>3, <1>15

\* A closed request keeps nothing, and the categories only grow.
LEMMA PendingStays ==
    ASSUME DOMAIN pc = Request, PendingInv, NEW r \in Request,
           Moves(r, CatalogueLabel, {"idle"}), Close(r), Categories \subseteq Categories'
    PROVE  PendingInv'
<1>1. \A q \in Request \ {r} : cataloguing'[q] = cataloguing[q] /\ pc'[q] = pc[q]
  BY DEF PendingInv, Moves, Close
<1>2. pc'[r] = "idle" /\ DOMAIN cataloguing' = Request
  BY DEF Moves, Close, PendingInv
<1>3. QED
  BY <1>1, <1>2 DEF PendingInv, Pending

LEMMA CatalogueStepKeeps ==
    ASSUME DOMAIN pc = Request, CatalogueInv, NEW r \in Request, CatalogueStep(r)
    PROVE  CatalogueInv'
<1> USE CatalogueAssumption DEF CatalogueInv
<1>1. Moves(r, CatalogueLabel, {"idle"}) /\ Close(r)
  BY CatalogueMoves DEF CatalogueStep, InsertCategory, InsertProduct, WriteCategory,
     WriteProduct, DropProduct, WriteService, AbortCatalogue, Step, Moves
<1>2. Pending(cataloguing[r], pc[r], Categories)
  BY DEF PendingInv
<1>3. ASSUME NEW c \in Category, InsertCategory(r, c) PROVE CatalogueInv'
  <2>1. PICK n \in Normal : cataloguing[r].row = [name |-> n]
    BY <1>2, <1>3 DEF Pending, InsertCategory, Step
  <2>2. /\ c \notin Categories /\ Named(n) = {} /\ UNCHANGED product
        /\ category' = [category EXCEPT ![c] = [name |-> n, active |-> TRUE]]
    BY <1>3, <2>1 DEF InsertCategory
  <2>3. Categories' = Categories \cup {c}
    BY <2>2 DEF Categories, CategoriesInv, Normal
  <2>4. CategoriesInv'
    BY <2>2, <2>3 DEF CategoriesInv, Categories, Named, Maybe
  <2>5. QED
    BY <1>1, <2>2, <2>3, <2>4, PendingStays DEF ProductsInv
<1>4. CASE WriteCategory(r)
  <2> DEFINE w == cataloguing[r]
  <2>1. /\ w.id \in Categories /\ UNCHANGED product
        /\ category' = [category EXCEPT ![w.id] = UpdatedRow(@, w.row)]
        /\ "name" \in DOMAIN w.row => Named(w.row.name) \subseteq {w.id}
        /\ w.row = [active |-> FALSE] \/ \E n \in Normal : w.row = [name |-> n]
    BY <1>2, <1>4 DEF WriteCategory, Step, Pending
  <2>2. w.id \in Category /\ DOMAIN category[w.id] = {"name", "active"}
    BY <2>1 DEF Categories, CategoriesInv
  <2>3. /\ DOMAIN category'[w.id] = {"name", "active"}
        /\ \/ category'[w.id].name = category[w.id].name
           \/ /\ category'[w.id].name \in Normal
              /\ Named(category'[w.id].name) \subseteq {w.id}
    <3>1. CASE w.row = [active |-> FALSE]
      BY <2>1, <2>2, <3>1, UpdatedCategory DEF CategoriesInv
    <3>2. ASSUME NEW n \in Normal, w.row = [name |-> n] PROVE <2>3
      <4>1. category'[w.id] = UpdatedRow(category[w.id], [name |-> n])
        BY <2>1, <2>2, <3>2 DEF CategoriesInv
      <4>2. "name" \in DOMAIN w.row /\ w.row.name = n
        BY <3>2
      <4>3. Named(n) \subseteq {w.id}
        BY <2>1, <4>2
      <4>4. DOMAIN category'[w.id] = {"name", "active"} /\ category'[w.id].name = n
        <5>1. PICK old : old = category[w.id]
          OBVIOUS
        <5>2. PICK new : new = category'[w.id]
          OBVIOUS
        <5>3. DOMAIN old = {"name", "active"} /\ new = UpdatedRow(old, [name |-> n])
          BY <2>2, <4>1, <5>1, <5>2
        <5>4. DOMAIN new = {"name", "active"} /\ new.name = n
          BY <5>3, UpdatedCategory
        <5>5. QED
          BY <5>2, <5>4
      <4>5. QED
        BY <4>3, <4>4
    <3>3. QED
      BY <2>1, <3>1, <3>2
  <2>4. Categories' = Categories
    BY <2>1, <2>2, <2>3 DEF Categories, CategoriesInv, Normal
  <2>5. CategoriesInv'
    <3>1. /\ DOMAIN category' = Category
          /\ \A c \in Category : c # w.id => category'[c] = category[c]
      BY <2>1 DEF CategoriesInv
    <3>2. \A c \in Category : /\ DOMAIN category'[c] = {"name", "active"}
                              /\ category'[c].name \in Maybe(Normal)
      BY <2>3, <3>1 DEF CategoriesInv, Maybe
    <3>3. ASSUME NEW c \in Categories, NEW d \in Categories,
                 category'[c].name = category'[d].name
          PROVE  c = d
      BY <2>3, <3>1, <3>3 DEF CategoriesInv, Categories, Named
    <3>4. QED
      BY <2>4, <3>1, <3>2, <3>3 DEF CategoriesInv
  <2>6. QED
    BY <1>1, <2>1, <2>4, <2>5, PendingStays DEF ProductsInv
<1>5. ASSUME NEW p \in Product, InsertProduct(r, p) PROVE CatalogueInv'
  <2> DEFINE d == cataloguing[r].row
  <2>1. /\ UNCHANGED category
        /\ product' = [product EXCEPT ![p] =
             [UpdatedRow(NoProduct, d) EXCEPT !.search = d.text, !.active = TRUE]]
    BY <1>5 DEF InsertProduct
  <2>2. DOMAIN [UpdatedRow(NoProduct, d) EXCEPT !.search = d.text, !.active = TRUE] =
          DOMAIN NoProduct
    BY DEF UpdatedRow
  <2>3. ProductsInv'
    BY <2>1, <2>2 DEF ProductsInv
  <2>4. CategoriesInv' /\ Categories' = Categories
    BY <2>1 DEF CategoriesInv, Categories
  <2>5. QED
    BY <1>1, <2>3, <2>4, PendingStays
<1>6. CASE WriteProduct(r)
  <2> DEFINE w == cataloguing[r]
  <2>1. /\ UNCHANGED category /\ w.id \in Product /\ w.row \in Stated
        /\ product' = [product EXCEPT ![w.id] =
             [UpdatedRow(@, w.row) EXCEPT !.search = w.row.text]]
    BY <1>2, <1>6 DEF WriteProduct, Step, Pending
  <2>2. ProductsInv'
    BY <2>1, UpdatedProduct DEF ProductsInv
  <2>3. CategoriesInv' /\ Categories' = Categories
    BY <2>1 DEF CategoriesInv, Categories
  <2>4. QED
    BY <1>1, <2>2, <2>3, PendingStays
<1>7. CASE DropProduct(r) \/ WriteService(r) \/ AbortCatalogue(r)
  <2>1. CategoriesInv' /\ Categories' = Categories
    BY <1>7 DEF DropProduct, WriteService, AbortCatalogue, CategoriesInv, Categories
  <2>2. ProductsInv'
    BY <1>7 DEF DropProduct, WriteService, AbortCatalogue, ProductsInv
  <2>3. QED
    BY <1>1, <2>1, <2>2, PendingStays
<1>8. QED
  BY <1>3, <1>4, <1>5, <1>6, <1>7 DEF CatalogueStep

LEMMA CatalogueStays ==
    ASSUME DOMAIN pc = Request, CatalogueInv, [OfficeNext]_officeVars
    PROVE  CatalogueInv'
<1>1. CASE UNCHANGED catalogueVars /\ Apart(CatalogueLabel)
  <2>1. CategoriesInv' /\ ProductsInv' /\ Categories' = Categories
    BY <1>1 DEF CatalogueInv, catalogueVars, CategoriesInv, ProductsInv, Categories
  <2>2. ASSUME NEW r \in Request PROVE Pending(cataloguing[r], pc'[r], Categories)
    BY <1>1 DEF CatalogueInv, PendingInv, Pending, Apart, CatalogueLabel
  <2>3. QED
    BY <1>1, <2>1, <2>2 DEF CatalogueInv, PendingInv, catalogueVars
<1>2. QED
  BY <1>1, CatalogueFrame, StartCatalogueKeeps, CatalogueStepKeeps

LEMMA ProductEdits ==
    ASSUME DOMAIN pc = Request, CatalogueInv, [OfficeNext]_officeVars
    PROVE  ProductEditsKeepTheRest
<1> SUFFICES ASSUME NEW r \in Request, NEW p \in Listed, pc[r] = "writeProduct",
                    pc'[r] = "idle", cataloguing[r].id = p
             PROVE  LET d == cataloguing[r].row
                    IN  /\ product'[p].active = product[p].active
                        /\ \A f \in DOMAIN d : d[f] = None => product'[p][f] = product[p][f]
  BY DEF ProductEditsKeepTheRest
<1>1. PICK q \in Request : StartCatalogue(q) \/ CatalogueStep(q)
  BY CatalogueFrame DEF Apart, CatalogueLabel
<1>2. q = r /\ ~StartCatalogue(r)
  BY <1>1, CatalogueMoves DEF Moves
<1>3. WriteProduct(r) \/ UNCHANGED product
  BY <1>1, <1>2 DEF CatalogueStep, InsertCategory, InsertProduct, WriteCategory, DropProduct,
     WriteService, AbortCatalogue, Step
<1>4. p \in Product /\ cataloguing[r].row \in Stated /\ DOMAIN product[p] = DOMAIN NoProduct
  BY DEF Listed, CatalogueInv, PendingInv, Pending, ProductsInv
<1>5. CASE UNCHANGED product
  BY <1>5
<1>6. CASE WriteProduct(r)
  <2> DEFINE d == cataloguing[r].row
  <2>1. product'[p] = [UpdatedRow(product[p], d) EXCEPT !.search = d.text]
    BY <1>4, <1>6 DEF WriteProduct, CatalogueInv, ProductsInv
  <2>2. QED
    BY <1>4, <2>1, UpdatedProduct
<1>7. QED
  BY <1>3, <1>5, <1>6

-----------------------------------------------------------------------------
(* Notices *)

IsNotice(x) == x = [title |-> x.title, to |-> x.to, read |-> x.read]

NoticesInv ==
    /\ DOMAIN notice = Notice /\ DOMAIN noticing = Request
    /\ \A n \in Notice : IsNotice(notice[n])
    /\ patient =>
         /\ OneUnreadPerTitle
         /\ \A r \in Request : pc[r] = "createNotice" => Unread(Head(noticing[r])) = {}

LEMMA NoticesStay ==
    ASSUME DOMAIN pc = Request, Waiting, NoticesInv, [OfficeNext]_officeVars
    PROVE  NoticesInv'
<1> USE NoticeAssumption
<1>1. patient' = patient
  BY OfficeCases
<1>2. CASE UNCHANGED noticeVars /\ Apart(NoticeLabel)
  BY <1>1, <1>2 DEF NoticesInv, noticeVars, Apart, NoticeLabel, OneUnreadPerTitle, Unread, Posted
<1>3. ASSUME NEW r \in Request, (MayArrive /\ StartNotice(r)) \/ NoticeStep(r),
             UNCHANGED notice, DOMAIN noticing' = Request,
             pc'[r] = "createNotice" => Unread(Head(noticing'[r])) = {}
      PROVE  NoticesInv'
  <2>1. \A title : Unread(title)' = Unread(title)
    BY <1>3 DEF Unread, Posted
  <2>2. ASSUME patient, NEW q \in Request, pc'[q] = "createNotice" PROVE q = r
    BY <1>3, <2>2, NoticeMoves DEF Waiting, MayArrive, Idle, Moves, NoticeLabel
  <2>3. QED
    BY <1>1, <1>3, <2>1, <2>2 DEF NoticesInv, OneUnreadPerTitle
\* A change of rows that leaves no request before an insertion.
<1>4. ASSUME NEW r \in Request, (MayArrive /\ StartNotice(r)) \/ NoticeStep(r),
             pc'[r] # "createNotice", DOMAIN noticing' = Request, DOMAIN notice' = Notice,
             \A n \in Notice : IsNotice(notice'[n]),
             patient => OneUnreadPerTitle'
      PROVE  NoticesInv'
  <2>1. patient => \A q \in Request : pc'[q] # "createNotice"
    BY <1>4, NoticeMoves DEF Waiting, MayArrive, Idle, Moves, NoticeLabel
  <2>2. QED
    BY <1>1, <1>4, <2>1 DEF NoticesInv
<1>5. ASSUME NEW r \in Request, MayArrive, StartNotice(r) PROVE NoticesInv'
  <2>1. ASSUME NEW alarms, StartNotices(r, alarms) PROVE NoticesInv'
    BY <1>3, <1>5, <2>1 DEF StartNotices, Step, NoticesInv
  <2>2. ASSUME NEW n \in Notice, NEW to, PostNotice(r, n, to) PROVE NoticesInv'
    <3> DEFINE row == [title |-> "written", to |-> to, read |-> FALSE]
    <3>1. /\ notice' = [notice EXCEPT ![n] = row] /\ UNCHANGED <<pc, noticing>> /\ Idle(r)
          /\ IsNotice(row) /\ row.title = "written"
      BY <2>2 DEF PostNotice, IsNotice
    <3>2. ASSUME NEW i \in DOMAIN Titles PROVE Unread(Titles[i])' \subseteq Unread(Titles[i])
      BY <3>1 DEF Unread, Posted, NoticesInv, Automatic
    <3>3. patient => OneUnreadPerTitle'
      BY <3>2 DEF NoticesInv, OneUnreadPerTitle
    <3>4. QED
      BY <1>4, <1>5, <3>1, <3>3 DEF NoticesInv, Idle
  <2>3. ASSUME NEW n \in Notice, MarkRead(r, n) \/ RemoveNotice(r, n) \/ ReadAll(r)
        PROVE  NoticesInv'
    <3>1. /\ UNCHANGED <<pc, noticing>> /\ Idle(r) /\ DOMAIN notice' = Notice
          /\ \A m \in Notice :
               \/ notice'[m] = notice[m] \/ notice'[m] = NoNotice
               \/ notice'[m] = [notice[m] EXCEPT !.read = TRUE]
      BY <2>3 DEF MarkRead, RemoveNotice, ReadAll, NoticesInv
    <3>2. \A m \in Notice : IsNotice(notice'[m])
      BY <3>1 DEF IsNotice, NoticesInv, NoNotice
    <3>3. \A m \in Notice :
            notice'[m] \in {notice[m], NoNotice} \/ notice'[m].read
      BY <3>1 DEF IsNotice, NoticesInv
    <3>4. \A title : Unread(title)' \subseteq Unread(title)
      BY <3>3 DEF Unread, Posted
    <3>5. patient => OneUnreadPerTitle'
      BY <3>4 DEF NoticesInv, OneUnreadPerTitle
    <3>6. QED
      BY <1>4, <1>5, <3>1, <3>2, <3>5 DEF NoticesInv, Idle
  <2>4. CASE ReadAll(r) /\ Notice = {}
    <3>1. UNCHANGED <<pc, noticing>> /\ DOMAIN notice' = Notice /\ Idle(r)
      BY <2>4 DEF ReadAll
    <3>2. QED
      BY <1>4, <1>5, <2>4, <3>1 DEF NoticesInv, OneUnreadPerTitle, Idle
  <2>5. QED
    BY <1>5, <2>1, <2>2, <2>3, <2>4 DEF StartNotice
<1>6. ASSUME NEW r \in Request, NoticeStep(r) PROVE NoticesInv'
  <2>1. CASE FindNotice(r)
    <3>1. /\ UNCHANGED notice /\ DOMAIN noticing' = Request
          /\ pc'[r] = "createNotice" => Unread(Head(noticing'[r])) = {}
      BY <2>1 DEF FindNotice, Step, NoticesInv
    <3>2. QED
      BY <1>3, <1>6, <3>1
  <2>2. CASE AnswerNotices(r)
    <3>1. /\ UNCHANGED notice /\ DOMAIN noticing' = Request /\ pc'[r] = "idle"
      BY <2>2 DEF AnswerNotices, NoticesInv
    <3>2. QED
      BY <1>3, <1>6, <3>1
  <2>3. ASSUME NEW n \in Notice, CreateNotice(r, n) PROVE NoticesInv'
    <3> PICK title : title = Head(noticing[r])
      OBVIOUS
    <3> DEFINE row == [title |-> title, to |-> None, read |-> FALSE]
    <3>1. /\ pc[r] = "createNotice" /\ pc'[r] = "findNotice" /\ DOMAIN noticing' = Request
          /\ notice' = [notice EXCEPT ![n] = row]
          /\ IsNotice(row) /\ row.title = title
      BY <2>3 DEF CreateNotice, Step, NoticesInv, IsNotice
    <3>2. patient => Unread(title) = {}
      BY <3>1 DEF NoticesInv
    <3>3. Unread(title)' \subseteq Unread(title) \cup {n}
      BY <3>1 DEF Unread, Posted, NoticesInv
    <3>4. ASSUME NEW other, other # title PROVE Unread(other)' \subseteq Unread(other)
      BY <3>1, <3>4 DEF Unread, Posted, NoticesInv
    <3>5. patient => OneUnreadPerTitle'
      BY <3>2, <3>3, <3>4 DEF NoticesInv, OneUnreadPerTitle
    <3>6. QED
      BY <1>4, <1>6, <3>1, <3>5 DEF NoticesInv
  <2>4. QED
    BY <1>6, <2>1, <2>2, <2>3 DEF NoticeStep
<1>7. QED
  BY <1>2, <1>5, <1>6, NoticeFrame

-----------------------------------------------------------------------------
(* Settings *)

\* With one request at a time there is one row, which holds what was saved
\* last; before there is a row, what the first reading will create is that.
SettingsInv ==
    /\ DOMAIN settings = Row /\ DOMAIN setting = Request
    /\ \A r \in Request : pc[r] \in SettingsLabel =>
         /\ setting[r] = [row |-> setting[r].row, tax |-> setting[r].tax]
         /\ setting[r].tax \in Maybe(Tax)
    /\ patient =>
         /\ saved \in Tax
         /\ \A i, j \in Rows : i = j
         /\ \A i \in Rows : settings[i] = saved
         /\ Rows = {} => saved = DefaultTax
         /\ \A r \in Request :
              /\ pc[r] = "createSettings" => Rows = {}
              /\ pc[r] = "writeSettings" => setting[r].row \in Rows

LEMMA SettingsStay ==
    ASSUME DOMAIN pc = Request, Waiting, SettingsInv, [OfficeNext]_officeVars
    PROVE  SettingsInv'
<1> USE SettingsAssumption
<1>1. patient' = patient
  BY OfficeCases
<1>2. CASE UNCHANGED settingsVars /\ Apart(SettingsLabel)
  BY <1>1, <1>2 DEF SettingsInv, settingsVars, Apart, SettingsLabel, Rows
<1>3. ASSUME NEW r \in Request, MayArrive, NEW tax \in Maybe(Tax), FindSettings(r, tax)
      PROVE  SettingsInv'
  <2>1. Moves(r, {"idle"}, SettingsLabel) /\ UNCHANGED <<settings, saved>> /\ Rows' = Rows
    BY <1>3, SettingsMoves DEF FindSettings, Rows
  <2>2. /\ DOMAIN setting' = Request
        /\ \A q \in Request \ {r} : setting'[q] = setting[q]
        /\ setting'[r] = [row |-> setting'[r].row, tax |-> tax]
        /\ pc'[r] = "createSettings" => Rows = {}
        /\ pc'[r] = "writeSettings" => setting'[r].row \in Rows
    BY <1>3 DEF FindSettings, Step, Current, SettingsInv, Rows
  <2>3. patient => \A q \in Request \ {r} : pc'[q] = "idle"
    BY <1>3, <2>1 DEF MayArrive, Idle, Moves
  <2>4. QED
    BY <1>1, <2>1, <2>2, <2>3 DEF SettingsInv, Moves
<1>4. ASSUME NEW r \in Request, SettingsStep(r) PROVE SettingsInv'
  <2>1. Moves(r, SettingsLabel, SettingsLabel \cup {"idle"})
    BY <1>4, SettingsMoves
  <2>2. patient => \A q \in Request \ {r} : pc'[q] = "idle"
    BY <2>1 DEF Waiting, Idle, Moves, SettingsLabel
  <2>3. ASSUME NEW i \in Row, CreateSettings(r, i) PROVE SettingsInv'
    <3>1. /\ pc[r] = "createSettings" /\ pc'[r] = "writeSettings" /\ i \notin Rows
          /\ settings' = [settings EXCEPT ![i] = DefaultTax] /\ saved' = saved
          /\ setting' = [setting EXCEPT ![r] = [row |-> i, tax |-> setting[r].tax]]
      <4>1. Step(r, "createSettings", "writeSettings") /\ setting' = [setting EXCEPT ![r].row = i]
        BY <2>3 DEF CreateSettings
      <4>2. setting[r] = [row |-> setting[r].row, tax |-> setting[r].tax]
        BY <4>1 DEF SettingsInv, SettingsLabel, Step
      <4>3. [setting[r] EXCEPT !.row = i] = [row |-> i, tax |-> setting[r].tax]
        BY <4>2
      <4>4. QED
        BY <2>3, <4>1, <4>3 DEF CreateSettings, Step
    <3>2. Rows' = Rows \cup {i}
      BY <3>1 DEF Rows, SettingsInv
    <3>3. QED
      BY <1>1, <2>1, <2>2, <3>1, <3>2 DEF SettingsInv, Moves, SettingsLabel
  <2>4. CASE WriteSettings(r)
    <3> DEFINE s == setting[r]
    <3>1. /\ pc[r] = "writeSettings" /\ pc'[r] = "idle" /\ s.tax \in Maybe(Tax)
          /\ settings' = [settings EXCEPT ![s.row] = IF s.tax = None THEN @ ELSE s.tax]
          /\ saved' = IF s.tax = None THEN saved ELSE s.tax
          /\ setting' = [setting EXCEPT ![r] = None]
      BY <2>4 DEF WriteSettings, Step, SettingsInv, SettingsLabel
    <3>2. patient => s.row \in Rows
      BY <3>1 DEF SettingsInv
    <3>3. patient => Rows' = Rows
      BY <3>1, <3>2 DEF Rows, SettingsInv, Maybe
    <3>4. patient => saved' \in Tax /\ \A i \in Rows : settings'[i] = saved'
      BY <3>1, <3>2 DEF SettingsInv, Rows, Maybe
    <3>5. QED
      BY <1>1, <2>1, <2>2, <3>1, <3>2, <3>3, <3>4 DEF SettingsInv, Moves, SettingsLabel
  <2>5. CASE EndSettings(r)
    <3>1. /\ pc'[r] = "idle" /\ UNCHANGED <<settings, saved>> /\ Rows' = Rows
          /\ setting' = [setting EXCEPT ![r] = None]
      BY <2>1, <2>5 DEF EndSettings, Rows, Moves
    <3>2. QED
      BY <1>1, <2>1, <2>2, <3>1 DEF SettingsInv, Moves, SettingsLabel
  <2>6. QED
    BY <1>4, <2>3, <2>4, <2>5 DEF SettingsStep
<1>5. QED
  BY <1>2, <1>3, <1>4, SettingsFrame DEF Maybe

-----------------------------------------------------------------------------
(* Questions *)

Source ==
    {"RULE_BASED", "text", "Gemini no devolvio contenido util.",
     "OpenAI no devolvio contenido util."}

\* An entry of the cache is filed under the question and the figures of the
\* answer it holds.
Entry == {x \in [key : Question \X Facts,
                 answer : [question : Question, context : Facts, source : Source],
                 expired : BOOLEAN] :
            x.key = CacheKey(x.answer.question, x.answer.context)}

Asked == [question : Question, context : Facts,
          reply : Maybe([question : Question, context : Facts, source : Source])]
Fits(a) ==
    a.reply # None => a.reply.question = a.question /\ a.reply.context = a.context

AskInv ==
    /\ facts \in Facts
    /\ cache \in Seq(Entry)
    /\ DOMAIN asking = Request
    /\ \A r \in Request :
         IF pc[r] \in AskLabel THEN asking[r] \in Asked /\ Fits(asking[r]) ELSE asking[r] = None

LEMMA ExpiredEntry ==
    ASSUME NEW y \in Entry
    PROVE  [y EXCEPT !.expired = TRUE] \in Entry
<1>1. /\ y.answer \in [question : Question, context : Facts, source : Source]
      /\ y.key \in Question \X Facts
      /\ y.key = CacheKey(y.answer.question, y.answer.context)
  BY DEF Entry
<1>2. ASSUME NEW v PROVE [y EXCEPT !.expired = v] = [key |-> y.key, answer |-> y.answer, expired |-> v]
  BY DEF Entry
<1>3. [y EXCEPT !.expired = TRUE] = [key |-> y.key, answer |-> y.answer, expired |-> TRUE]
  BY <1>2, Zenon
<1>4. QED
  BY <1>1, <1>3 DEF Entry

LEMMA SeqRemoveAt ==
    ASSUME NEW S, NEW s \in Seq(S), NEW i \in DOMAIN s
    PROVE  RemoveAt(s, i) \in Seq(S)
<1>1. i \in 1 .. Len(s) /\ Len(s) \in Nat
  OBVIOUS
<1>2. SubSeq(s, 1, i - 1) \in Seq(S) /\ SubSeq(s, i + 1, Len(s)) \in Seq(S)
  BY <1>1
<1>3. QED
  BY <1>2 DEF RemoveAt

LEMMA RememberKeeps ==
    ASSUME NEW entries \in Seq(Entry), NEW question \in Question, NEW context \in Facts,
           NEW source \in Source, AiAssumption
    PROVE  Remember(entries, CacheKey(question, context), Answer(question, context, source))
             \in Seq(Entry)
<1> DEFINE key == CacheKey(question, context)
           answer == Answer(question, context, source)
           kept == IF Len(entries) > MaxSize THEN Tail(entries) ELSE entries
           entry == [key |-> key, answer |-> answer, expired |-> FALSE]
           same == {i \in DOMAIN kept : kept[i].key = key}
<1>1. entry \in Entry
  BY DEF Entry, CacheKey, Answer
<1>2. kept \in Seq(Entry)
  BY DEF AiAssumption
<1> HIDE DEF entry, kept
<1>3. Append(kept, entry) \in Seq(Entry)
  BY <1>1, <1>2
<1>4. [i \in DOMAIN kept |-> IF i \in same THEN entry ELSE kept[i]] \in Seq(Entry)
  <2>1. DOMAIN kept = 1 .. Len(kept) /\ Len(kept) \in Nat
    BY <1>2
  <2>2. \A i \in 1 .. Len(kept) : kept[i] \in Entry
    BY <1>2
  <2>3. QED
    BY <1>1, <2>1, <2>2
<1>5. QED
  BY <1>3, <1>4 DEF Remember, entry, kept

\* Whatever a slot does, the invariant is about one slot at a time.
LEMMA AskSlot ==
    ASSUME DOMAIN pc = Request, AskInv, NEW r \in Request,
           Moves(r, AskLabel \cup {"idle"}, AskLabel \cup {"idle"}),
           facts' \in Facts, cache' \in Seq(Entry),
           \/ \E a \in Asked : asking' = [asking EXCEPT ![r] = a] /\ Fits(a) /\ pc'[r] \in AskLabel
           \/ asking' = [asking EXCEPT ![r] = None] /\ pc'[r] = "idle"
    PROVE  AskInv'
  BY DEF AskInv, Moves, AskLabel, Fits

LEMMA AskStay ==
    ASSUME DOMAIN pc = Request, AskInv, [OfficeNext]_officeVars
    PROVE  AskInv'
<1> USE AiAssumption
<1>1. CASE UNCHANGED aiVars /\ Apart(AskLabel)
  BY <1>1 DEF AskInv, aiVars, Apart, Fits
<1>2. CASE AiEnvironment
  <2>1. ASSUME NEW f \in Facts, BusinessGoesOn(f) PROVE AskInv'
    BY <2>1 DEF BusinessGoesOn, AskInv, Fits
  <2>2. ASSUME NEW i \in DOMAIN cache, Expire(i) PROVE AskInv'
    <3> DEFINE x == [cache[i] EXCEPT !.expired = TRUE]
    <3>1. cache \in Seq(Entry) /\ cache[i] \in Entry
      BY DEF AskInv
    <3>3. x \in Entry
      BY <3>1, ExpiredEntry
    <3>4. cache' = [cache EXCEPT ![i] = x]
      BY <2>2 DEF Expire
    <3> HIDE DEF x
    <3>5. cache' \in Seq(Entry)
      BY <3>1, <3>3, <3>4
    <3>6. QED
      BY <2>2, <3>5 DEF Expire, AskInv, Fits
  <2>3. ASSUME NEW s, RestartAi(s) PROVE AskInv'
    BY <2>3 DEF RestartAi, AskInv, Fits
  <2>4. QED
    BY <1>2, <2>1, <2>2, <2>3 DEF AiEnvironment
<1>3. ASSUME NEW r \in Request, StartAsk(r) PROVE AskInv'
  <2>1. PICK q \in Question : AskRules(r, q) \/ AskCache(r, q) \/ AskCloud(r, q)
    BY <1>3 DEF StartAsk
  <2>2. Moves(r, {"idle"}, AskLabel) /\ facts' = facts /\ facts \in Facts
    BY <1>3, <2>1, AskMoves DEF AskRules, AskCache, AskCloud, AskInv
  <2>3. CASE AskRules(r, q)
    <3>1. Answer(q, facts, "RULE_BASED") \in [question : Question, context : Facts, source : Source]
      BY <2>2 DEF Answer, Source
    <3>2. Asking(q, Answer(q, facts, "RULE_BASED")) \in Asked
      BY <2>2, <3>1 DEF Asking, Asked, Maybe
    <3>3. QED
      BY <2>2, <2>3, <3>2, AskSlot DEF AskRules, AskInv, Moves, Fits, Asking, Answer
  <2>4. CASE AskCache(r, q)
    <3>1. PICK i \in EntriesOf(CacheKey(q, facts)) :
            asking' = [asking EXCEPT ![r] = Asking(q, cache[i].answer)]
      BY <2>4 DEF AskCache
    <3>2. cache[i] \in Entry /\ cache[i].key = CacheKey(q, facts)
      BY <3>1 DEF EntriesOf, AskInv
    <3>3. /\ cache[i].answer \in [question : Question, context : Facts, source : Source]
          /\ cache[i].answer.question = q /\ cache[i].answer.context = facts
      BY <3>2 DEF Entry, CacheKey
    <3>4. Asking(q, cache[i].answer) \in Asked /\ Fits(Asking(q, cache[i].answer))
      BY <2>2, <3>3 DEF Asking, Asked, Maybe, Fits
    <3>5. QED
      BY <2>2, <2>4, <3>1, <3>4, AskSlot DEF AskCache, AskInv, Moves
  <2>5. CASE AskCloud(r, q)
    <3>1. Asking(q, None) \in Asked /\ Fits(Asking(q, None))
      BY <2>2 DEF Asking, Asked, Maybe, Fits
    <3>2. cache' \in Seq(Entry)
      BY <2>5, SeqRemoveAt DEF AskCloud, EntriesOf, AskInv
    <3>3. QED
      BY <2>2, <2>5, <3>1, <3>2, AskSlot DEF AskCloud, Moves
  <2>6. QED
    BY <2>1, <2>3, <2>4, <2>5
<1>4. ASSUME NEW r \in Request, AskStep(r) PROVE AskInv'
  <2>1. Moves(r, AskLabel, AskLabel \cup {"idle"}) /\ facts' = facts
    BY <1>4, AskMoves DEF AskStep, GeminiAnswers, GeminiFails, OpenAiAnswers, OpenAiFails,
       CloudAnswers, CloudFails, EndAsk
  <2>2. asking[r] \in Asked /\ facts \in Facts /\ cache \in Seq(Entry)
    BY <2>1 DEF AskInv, Moves
  <2>3. ASSUME NEW source \in Source
        PROVE  LET a == asking[r]
                   b == [a EXCEPT !.reply = Answer(a.question, a.context, source)]
               IN  b \in Asked /\ Fits(b)
    <3> DEFINE a == asking[r]
               given == Answer(a.question, a.context, source)
    <3>1. a.question \in Question /\ a.context \in Facts
      BY <2>2 DEF Asked
    <3>2. given \in [question : Question, context : Facts, source : Source]
      BY <3>1 DEF Answer
    <3>3. [a EXCEPT !.reply = given] =
            [question |-> a.question, context |-> a.context, reply |-> given]
      BY <2>2 DEF Asked
    <3>4. QED
      BY <3>1, <3>2, <3>3 DEF Asked, Maybe, Fits, Answer
  <2> DEFINE Replied(source) ==
        [asking[r] EXCEPT !.reply = Answer(asking[r].question, asking[r].context, source)]
  <2>4. ASSUME NEW source \in Source, CloudAnswers(r, source) PROVE AskInv'
    <3>1. cache' \in Seq(Entry)
      BY <2>2, <2>4, RememberKeeps DEF CloudAnswers, Asked
    <3>2. asking' = [asking EXCEPT ![r] = Replied(source)] /\ pc'[r] = "answer"
      BY <2>1, <2>4 DEF CloudAnswers, Step, Moves
    <3>3. Replied(source) \in Asked /\ Fits(Replied(source))
      BY <2>3
    <3> HIDE DEF Replied
    <3>4. QED
      BY <2>1, <2>2, <3>1, <3>2, <3>3, AskSlot DEF Moves, AskLabel
  <2>5. CASE CloudFails(r)
    <3>1. asking' = [asking EXCEPT ![r] = Replied("RULE_BASED")] /\ pc'[r] = "answer"
      BY <2>1, <2>5 DEF CloudFails, Step, Moves
    <3>2. Replied("RULE_BASED") \in Asked /\ Fits(Replied("RULE_BASED")) /\ cache' = cache
      BY <2>3, <2>5 DEF Source, CloudFails
    <3> HIDE DEF Replied
    <3>3. QED
      BY <2>1, <2>2, <3>1, <3>2, AskSlot DEF Moves, AskLabel
  <2>6. CASE EndAsk(r)
    BY <2>1, <2>2, <2>6, AskSlot DEF EndAsk, AskInv, Moves
  <2>7. QED
    BY <1>4, <2>4, <2>5, <2>6 DEF AskStep, GeminiAnswers, GeminiFails, OpenAiAnswers,
       OpenAiFails, Source
<1>5. QED
  BY <1>1, <1>2, <1>3, <1>4, AskFrame

-----------------------------------------------------------------------------
(* The browser *)

OneTab == \A t, u \in Tab : t = u

\* Two of the three names of roles that the guards know, for those who are no
\* administrators: the seed creates these; RolesService.create accepts any.
SeededRoles == plainRole \in [User -> Staff \ {"ADMIN"}]

ShownInv ==
    /\ DOMAIN tab = Tab /\ DOMAIN sent = Tab
    /\ \A t \in Tab : tab[t].at \in {"checking", "inside"} => stored \in {None, tab[t].user}
    /\ ShownUserActs

ServedInv ==
    /\ DOMAIN tab = Tab /\ DOMAIN sent = Tab
    /\ stored \in Maybe(User)
    /\ \A t \in Tab :
         /\ tab[t].at \in {"checking", "inside"} => tab[t].user \in User
         /\ tab[t].at = "inside" => tab[t].role \in Staff
         /\ sent[t] # None /\ sent[t].aware => sent[t].role \in sent[t].need

BrowserMoves == \E t \in Tab : BrowserStep(t) \/ \E u \in User : Login(t, u)

LEMMA ShownStays ==
    ASSUME OneTab, ShownInv, BrowserMoves
    PROVE  ShownInv'
<1>1. PICK t \in Tab : BrowserStep(t) \/ \E u \in User : Login(t, u)
  BY DEF BrowserMoves
<1>2. \A u \in Tab : u = t
  BY DEF OneTab
<1> USE DEF ShownInv, ShownUserActs
<1>3. CASE Load(t) \/ ProfileAnswered(t) \/ ProfileFailed(t) \/ Logout(t)
  BY <1>2, <1>3 DEF Load, ProfileAnswered, ProfileFailed, Logout, Out, Checking, Inside
<1>4. CASE Unauthorised(t) \/ Answered(t)
  BY <1>2, <1>4 DEF Unauthorised, Answered
<1>5. CASE \E u \in User : Login(t, u)
  <2>1. PICK u \in User : Login(t, u)
    BY <1>5
  <2>2. stored' = u /\ sent' = sent /\ tab' = [tab EXCEPT ![t] = Inside(u)]
    BY <2>1 DEF Login
  <2>3. QED
    BY <1>2, <2>2 DEF Inside
<1>6. ASSUME NEW page, NEW call, Call(t, page, call) PROVE ShownInv'
  BY <1>2, <1>6 DEF Call
<1>7. QED
  BY <1>1, <1>3, <1>4, <1>5, <1>6 DEF BrowserStep

\* What the pages that are open to everyone ask for, the role-blind ones aside.
OpenAsks ==
    DashboardAsks \cup PosAsks \cup ReceiptModalAsks \cup CashAsks \cup CashFormsAsk
    \cup SalesAsks \cup OrdersAsks \cup OrderFormAsks \cup OrderAsks \cup OrderPanelsAsk
    \cup PartFormAsks \cup QuickAsks \cup QuickSalesAsks \cup ReportsAsks \cup BellAsks

LEMMA OpenAsksAreForAll ==
    ASSUME NEW call \in OpenAsks
    PROVE  call \notin ForAdmin /\ call \notin IntegrationsForOffice
<1> USE DEF OpenAsks, DashboardAsks, PosAsks, ReceiptModalAsks, CashAsks, CashFormsAsk, SalesAsks,
        OrdersAsks, OrderFormAsks, OrderAsks, OrderPanelsAsk, PartFormAsks, QuickAsks,
        QuickSalesAsks, ReportsAsks, BellAsks
<1>1. call \notin SalesForAdmin \cup PurchasesForAdmin \cup InventoryForAdmin \cup CustomersForAdmin
  BY DEF SalesForAdmin, PurchasesForAdmin, InventoryForAdmin, CustomersForAdmin
<1>2. call \notin SuppliersForAdmin \cup OrdersForAdmin \cup QuickForAdmin \cup UsersForAdmin
  BY DEF SuppliersForAdmin, OrdersForAdmin, QuickForAdmin, UsersForAdmin
<1>3. call \notin RolesForAdmin \cup AuditForAdmin \cup SettingsForAdmin \cup ProfitForAdmin
  BY DEF RolesForAdmin, AuditForAdmin, SettingsForAdmin, ProfitForAdmin
<1>4. call \notin SunatForAdmin \cup PaymentsForAdmin \cup ShopForAdmin \cup NoticesForAdmin
  BY DEF SunatForAdmin, PaymentsForAdmin, ShopForAdmin, NoticesForAdmin
<1>5. call \notin WhatsappForAdmin \cup LookupForAdmin \cup AiForAdmin \cup LocalAiForAdmin \cup IntegrationsForAdmin
  BY DEF WhatsappForAdmin, LookupForAdmin, AiForAdmin, LocalAiForAdmin, IntegrationsForAdmin
<1>6. call \notin IntegrationsForOffice
  BY DEF IntegrationsForOffice
<1>7. QED
  BY <1>1, <1>2, <1>3, <1>4, <1>5, <1>6 DEF ForAdmin

LEMMA PagesServe ==
    ASSUME NEW role \in Staff, NEW page \in Page \ RoleBlind, CanOpen(role, page),
           NEW call \in Offered(role, page)
    PROVE  role \in Admitted(call)
<1>1. CASE role = "ADMIN"
  BY <1>1 DEF Admitted, Roles, Staff
<1>2. CASE role # "ADMIN"
  <2>1. page \in {"dashboard", "pos", "cash", "sales", "orders", "order", "quick",
                  "quickSales", "reports"}
    BY <1>2 DEF CanOpen, CanAccess, Guarded, AdminOnly, RoleBlind, Page, Asks
  <2>2. call \in Asks[page] \cup BellAsks
    BY <1>2 DEF Offered
  <2>3. call \in OpenAsks
    BY <2>1, <2>2 DEF Asks, OpenAsks
  <2>4. QED
    BY <2>3, OpenAsksAreForAll DEF Admitted, Roles
<1>3. QED
  BY <1>1, <1>2

LEMMA ServedStays ==
    ASSUME SeededRoles, AccountTypeOK, ServedInv, BrowserMoves
    PROVE  ServedInv'
<1> USE DEF ServedInv
<1>1. PICK t \in Tab : BrowserStep(t) \/ \E u \in User : Login(t, u)
  BY DEF BrowserMoves
<1>2. ASSUME NEW u \in User
      PROVE  Inside(u).user = u /\ Inside(u).role \in Staff /\ Inside(u).at = "inside"
  BY DEF Inside, RoleNow, SeededRoles, Staff
<1>3. CASE Load(t)
  BY <1>3 DEF Load, Out, Checking, Maybe
<1>4. CASE ProfileAnswered(t)
  <2>1. /\ tab[t].user \in User /\ UNCHANGED <<stored, sent>>
        /\ tab' = [tab EXCEPT ![t] = Inside(tab[t].user)]
    BY <1>4 DEF ProfileAnswered
  <2>2. QED
    BY <1>2, <2>1
<1>5. CASE ProfileFailed(t) \/ Logout(t)
  BY <1>5 DEF ProfileFailed, Logout, Out, Maybe
<1>6. CASE Unauthorised(t) \/ Answered(t)
  BY <1>6 DEF Unauthorised, Answered, Maybe
<1>7. CASE \E u \in User : Login(t, u)
  <2>1. PICK u \in User : Login(t, u)
    BY <1>7
  <2>2. stored' = u /\ sent' = sent /\ tab' = [tab EXCEPT ![t] = Inside(u)]
    BY <2>1 DEF Login
  <2>3. QED
    BY <1>2, <2>2 DEF Maybe
<1>8. ASSUME NEW page \in Page, NEW call, Call(t, page, call) PROVE ServedInv'
  <2> DEFINE role == tab[t].role
             new == [as |-> stored, user |-> tab[t].user, role |-> role,
                     need |-> Admitted(call), aware |-> page \notin RoleBlind]
  <2>1. /\ UNCHANGED <<stored, tab>> /\ role \in Staff
        /\ sent' = [sent EXCEPT ![t] = new]
        /\ CanOpen(role, page) /\ call \in Offered(role, page)
    BY <1>8 DEF Call
  <2>2. new.aware => new.role \in new.need
    BY <2>1, PagesServe
  <2> HIDE DEF new
  <2>3. QED
    BY <2>1, <2>2
<1>9. QED
  BY <1>1, <1>3, <1>4, <1>5, <1>6, <1>7, <1>8 DEF BrowserStep

-----------------------------------------------------------------------------
(* The theorems *)

OfficeInv ==
    /\ DOMAIN pc = Request /\ Waiting
    /\ AccountsInv /\ CustomersInv /\ CatalogueInv
    /\ NoticesInv /\ SettingsInv /\ AskInv

LEMMA OfficeInitially ==
    ASSUME OfficeInit
    PROVE  OfficeInv
<1>1. (DOMAIN pc = Request) /\ Waiting /\ \A r \in Request : pc[r] = "idle"
  BY DEF OfficeInit, Waiting, Idle
<1>2. AccountsInv /\ CatalogueInv
  BY AccountsInitially, CatalogueInitially
<1>3. CustomersInv
  BY <1>1 DEF OfficeInit, CustomersInit, CustomersInv
<1>4. NoticesInv
  BY <1>1 DEF OfficeInit, NoticesInit, NoticesInv, IsNotice, NoNotice, OneUnreadPerTitle,
     Unread, Posted
<1>5. SettingsInv
  BY <1>1, SettingsAssumption DEF OfficeInit, SettingsInit, SettingsInv, SettingsLabel, Rows
<1>6. AskInv
  BY <1>1 DEF OfficeInit, AiInit, AskInv, AskLabel
<1>7. QED
  BY <1>1, <1>2, <1>3, <1>4, <1>5, <1>6 DEF OfficeInv

\* The desks keep their invariants together: no step of one touches another's.
THEOREM OfficeKeepsItsInvariant == OfficeSpec => []OfficeInv
<1>1. OfficeInit => OfficeInv
  BY OfficeInitially
<1>2. OfficeInv /\ [OfficeNext]_officeVars => OfficeInv'
  BY OfficeMoves, AccountsStay, CustomersStay, CatalogueStays, NoticesStay, SettingsStay, AskStay
     DEF OfficeInv
<1>3. QED
  BY <1>1, <1>2, PTL DEF OfficeSpec

\* However users are edited, by clients that wait for every answer, an active
\* administrator remains: the count before each update is still right at it
\* (UsersService.ensureAdminContinuity).
THEOREM AnAdministratorRemains == OfficeSpec => []CountedAdminRemains
<1>1. OfficeInv => CountedAdminRemains
  BY DEF OfficeInv, AccountsInv, CountedAdminRemains
<1>2. QED
  BY <1>1, OfficeKeepsItsInvariant, PTL

\* For such clients the unread notices of a title are one at most, and the one
\* row of settings holds the tax rule saved last (NotificationsService,
\* SettingsService.business).
THEOREM NoticesAndTaxAreSingle == OfficeSpec => []OneNoticeAndOneTax
<1>1. OfficeInv => OneNoticeAndOneTax
  BY DEF OfficeInv, NoticesInv, SettingsInv, OneNoticeAndOneTax, TaxIsTheSavedOne, Current
<1>2. QED
  BY <1>1, OfficeKeepsItsInvariant, PTL

\* Every answer is about the question put and the figures read for it, cached
\* or not, whatever is asked, sold or restarted meanwhile
\* (AiAnalyticsService.ask and its responseCache).
THEOREM AnswersFit == OfficeSpec => []AnswersFitTheQuestion
<1>1. OfficeInv => AnswersFitTheQuestion
  BY DEF OfficeInv, AskInv, Fits, AnswersFitTheQuestion
<1>2. QED
  BY <1>1, OfficeKeepsItsInvariant, PTL

\* However creations and renamings race, no two categories share a normalised
\* name (InventoryService.createCategory, updateCategory).
THEOREM CategoriesStayDistinct == OfficeSpec => []CategoriesAreDistinct
<1>1. OfficeInv => CategoriesAreDistinct
  <2> SUFFICES ASSUME CategoriesInv, NEW c \in Categories, NEW d \in Categories,
                      normalized[category[c].name] = normalized[category[d].name]
               PROVE  c = d
    BY DEF OfficeInv, CatalogueInv, CategoriesAreDistinct
  <2>1. category[c].name \in Normal /\ category[d].name \in Normal
    BY DEF CategoriesInv, Categories, Maybe
  <2>2. QED
    BY <2>1 DEF CategoriesInv, Normal
<1>2. QED
  BY <1>1, OfficeKeepsItsInvariant, PTL

\* An edit of a product changes what it states, for any clients; an edit of a
\* customer that leaves the status out keeps it, for those that wait
\* (InventoryService.updateProduct, CustomersService.update).
THEOREM EditsKeep == OfficeSpec => EditsKeepTheRest
<1>1. OfficeInv /\ [OfficeNext]_officeVars =>
        [(patient => EditsKeepStatus) /\ ProductEditsKeepTheRest]_officeVars
  BY CustomerEdits, ProductEdits DEF OfficeInv
<1>2. QED
  BY <1>1, OfficeKeepsItsInvariant, PTL DEF OfficeSpec, EditsKeepTheRest

\* In a browser with one tab, a call carries the token of the user on display
\* or none (auth.store.ts, http-client.ts); with two tabs it is not so.
THEOREM TheShownUserActs ==
    ASSUME OneTab
    PROVE  OfficeSpec => []ShownUserActs
<1>1. OfficeInit => ShownInv
  BY DEF OfficeInit, BrowserInit, ShownInv, ShownUserActs, Out
<1>2. OfficeInv /\ ShownInv /\ [OfficeNext]_officeVars => ShownInv'
  <2>1. CASE UNCHANGED browserVars
    BY <2>1 DEF browserVars, ShownInv, ShownUserActs
  <2>2. QED
    BY <2>1, OfficeCases, ShownStays DEF OfficeInv, BrowserMoves
<1>3. ShownInv => ShownUserActs
  BY DEF ShownInv
<1>4. QED
  BY <1>1, <1>2, <1>3, OfficeKeepsItsInvariant, PTL DEF OfficeSpec

\* With the roles of the seed, no page but the role-blind ones makes a call that
\* RolesGuard refuses to the role the page goes by, while the user still has it
\* (router.tsx and canAccessModule against the @Roles of the controllers).
THEOREM PagesAreServed ==
    ASSUME SeededRoles
    PROVE  OfficeSpec => []AwarePagesAreServed
<1>1. OfficeInit => ServedInv
  BY DEF OfficeInit, BrowserInit, ServedInv, Out, Maybe
<1>2. OfficeInv /\ ServedInv /\ [OfficeNext]_officeVars => ServedInv'
  <2>1. CASE UNCHANGED browserVars
    BY <2>1 DEF browserVars, ServedInv
  <2>2. QED
    BY <2>1, OfficeCases, ServedStays DEF OfficeInv, AccountsInv, BrowserMoves
<1>3. ServedInv => AwarePagesAreServed
  BY DEF ServedInv, AwarePagesAreServed
<1>4. QED
  BY <1>1, <1>2, <1>3, OfficeKeepsItsInvariant, PTL DEF OfficeSpec

-----------------------------------------------------------------------------
(* The script that seeds the database: what it has done by each statement *)

SeedDocuments == {"insert", "readStock", "writeStock", "record", "collect"}
PastNotices == {"audits", "settings"}
PastTotals == {"notices"} \cup PastNotices
PastDocuments == {"totals"} \cup PastTotals
PastManual == SeedDocuments \cup PastDocuments
PastSession == {"manual"} \cup PastManual
PastSuppliers == {"session"} \cup PastSession
PastServices == {"suppliers"} \cup PastSuppliers
PastStock == {"services"} \cup PastServices
PastProducts == {"initialStock", "adjustment"} \cup PastStock
PastCustomers == {"products"} \cup PastProducts
PastUsers == {"customers"} \cup PastCustomers
PastPosts == {"users"} \cup PastUsers
PastHistory == {"deletePosts"} \cup PastPosts
SeedLabel ==
    {"new", "stopped", "finished", "find", "deleteCash", "deleteSales", "deleteQuick",
     "deleteWork", "deletePurchases", "deleteSession", "deleteHistory"} \cup PastHistory

KindsBefore(k) ==
    CASE k = "purchase" -> {} [] k = "sale" -> {"purchase"}
      [] k = "work" -> {"purchase", "sale"} [] k = "quick" -> {"purchase", "sale", "work"}

\* Documents of kind k that have gone through a stage, when those under way
\* have at the statements of stages: 1 up to this number.
Done(s, k, stages) ==
    IF s.at \in PastDocuments \/ (s.at \in SeedDocuments /\ k \in KindsBefore(s.kind))
      THEN Demo
    ELSE IF s.at \in SeedDocuments /\ k = s.kind
      THEN IF s.at \in stages THEN s.n ELSE s.n - 1
    ELSE 0

Inserted(s, k) == Done(s, k, SeedDocuments \ {"insert"})
Collected(s, k) == Done(s, k, {})
Moved(s) == [k \in DocumentKind |-> Done(s, k, {"record", "collect"})]
Recorded(s) == [k \in DocumentKind |-> Done(s, k, {"collect"})]

\* What that many documents of each kind move.
Balance(f) ==
    Cardinality(Received \cap 1..f["purchase"]) - f["sale"] - Cardinality(Fitted \cap 1..f["work"])

\* What the movements of the initial stock add up to.
Counted(at) ==
    IF at \in PastStock THEN CatalogueStock + CountedTwice
    ELSE IF at = "adjustment" THEN CatalogueStock ELSE 0

SeedRecord == [at : SeedLabel, kind : DocumentKind, n : DemoCodes, read : Int]

SeedTyped ==
    /\ seed \in SeedRecord
    /\ found \in [documents : [DocumentKind -> SUBSET DemoCodes], session : BOOLEAN]
    /\ numbers \in [DocumentKind -> SUBSET Nat]
    /\ drawer \in BOOLEAN
    /\ shelf \in Int /\ history \in Int
    /\ posted \in [{"notices", "audits"} -> Nat]
    /\ tables \subseteq {"users", "customers", "products", "services", "suppliers", "settings"}

\* But for the codes of the demonstration, no number is left out.
NumbersFit ==
    \A k \in DocumentKind : \E m \in Nat : m >= Demo /\ numbers[k] \cup DemoCodes = 1..m

\* Foreign keys: what is in the session, and the session.
DrawerHolds == ~drawer => inDrawer = {} /\ \A c \in cash : ~c[1]

\* What a run has written, whoever else writes.
RunLeaves ==
    /\ seed.at \in PastUsers => "users" \in tables
    /\ seed.at \in PastCustomers => "customers" \in tables
    /\ seed.at \in PastProducts => "products" \in tables
    /\ seed.at \in PastServices => "services" \in tables
    /\ seed.at \in PastSuppliers => "suppliers" \in tables
    /\ seed.at \in PastHistory =>
         history = Counted(seed.at) + Balance(Recorded(seed))
    /\ seed.at \in PastPosts =>
         /\ posted["notices"] = IF seed.at \in PastNotices THEN 1 ELSE 0
         /\ posted["audits"] = IF seed.at = "settings" THEN 1 ELSE 0
    /\ seed.at \in PastSession => drawer
    /\ \A k \in DocumentKind : 1..Inserted(seed, k) \subseteq numbers[k]

\* What it has written while the shop waits.
ShopWaits ==
    /\ seed.at \in PastProducts => shelf = CatalogueStock + Balance(Moved(seed))
    /\ seed.at = "writeStock" => seed.read = shelf
    /\ seed.at \in PastSession =>
         /\ inDrawer = 1..Inserted(seed, "quick")
         /\ \A k \in DocumentKind, n \in DemoCodes :
              <<TRUE, k, n>> \in cash <=> Collects(k, n) /\ n <= Collected(seed, k)
         /\ Manual \in cash <=> seed.at \in PastManual
         /\ \A c \in cash : c[1] => c \in DemoCash
    /\ seed.at \in PastTotals => totals = {c \in cash : c[1]}

SeedInv == SeedTyped /\ NumbersFit /\ DrawerHolds /\ RunLeaves /\ (patient => ShopWaits)

LEMMA NextNumberFits ==
    ASSUME NEW N, NEW m \in Nat, m >= Demo, N \cup DemoCodes = 1..m, Cardinality(N) + 1 \notin N
    PROVE  \E p \in Nat : p >= Demo /\ (N \cup {Cardinality(N) + 1}) \cup DemoCodes = 1..p
<1>1. IsFiniteSet(1..m) /\ Cardinality(1..m) = m /\ N \in SUBSET (1..m)
  BY FS_Interval
<1>2. Cardinality(N) \in Nat /\ Cardinality(N) <= m
  BY <1>1, FS_Subset, FS_CardinalityType
<1>3. PICK n \in Nat : n = Cardinality(N) + 1 /\ n >= 1
  BY <1>2
<1>4. CASE n \in DemoCodes
  <2>1. (N \cup {n}) \cup DemoCodes = 1..m
    BY <1>4
  <2>2. QED
    BY <1>3, <2>1
<1>5. CASE n \notin DemoCodes
  <2>1. n \notin 1..m
    BY <1>3, <1>5
  <2>2. n = m + 1
    BY <1>2, <1>3, <2>1
  <2>3. 1..(m + 1) = (1..m) \cup {n}
    BY <2>2
  <2>4. (N \cup {n}) \cup DemoCodes = 1..(m + 1) /\ m + 1 \in Nat /\ m + 1 >= Demo
    BY <2>3, SeedingAssumption
  <2>5. QED
    BY <1>3, <2>4
<1>6. QED
  BY <1>4, <1>5

\* Once the documents of the demonstration are there, count + 1 is free.
LEMMA CompleteNumbersGoOn ==
    ASSUME NumbersFit, NEW k \in DocumentKind, DemoCodes \subseteq numbers[k]
    PROVE  Cardinality(numbers[k]) + 1 \notin numbers[k]
<1>1. PICK m \in Nat : numbers[k] \cup DemoCodes = 1..m
  BY DEF NumbersFit
<1>2. numbers[k] = 1..m
  BY <1>1
<1>3. Cardinality(numbers[k]) = m
  BY <1>2, FS_Interval
<1>4. QED
  BY <1>2, <1>3

LEMMA CountOfFirst ==
    ASSUME NEW S, NEW n \in Nat
    PROVE  IsFiniteSet(S \cap 1..n) /\ Cardinality(S \cap 1..n) \in Nat
<1>1. IsFiniteSet(1..n) /\ S \cap 1..n \in SUBSET (1..n)
  BY FS_Interval
<1>2. IsFiniteSet(S \cap 1..n)
  BY <1>1, FS_Subset
<1>3. QED
  BY <1>2, FS_CardinalityType

\* What the first n of a set of documents are, one document after the other.
LEMMA OneMoreOf ==
    ASSUME NEW S, NEW n \in DemoCodes
    PROVE  /\ Cardinality(S \cap 1..n) \in Nat /\ Cardinality(S \cap 1..(n - 1)) \in Nat
           /\ Cardinality(S \cap 1..n) =
                Cardinality(S \cap 1..(n - 1)) + IF n \in S THEN 1 ELSE 0
<1>1. n \in Nat \ {0} /\ n - 1 \in Nat
  BY SeedingAssumption DEF DemoCodes
<1>2. PICK A : A = S \cap 1..(n - 1)
  OBVIOUS
<1>3. IsFiniteSet(A)
  BY <1>1, <1>2, CountOfFirst
<1>4. n \notin A
  BY <1>1, <1>2
<1>5. Cardinality(A \cup {n}) = Cardinality(A) + 1 /\ Cardinality(A) \in Nat
  BY <1>3, <1>4, FS_AddElement, FS_CardinalityType
<1>6. Cardinality(S \cap 1..(n - 1)) = Cardinality(A)
  BY <1>2, Zenon
<1>7. CASE n \in S
  <2>1. S \cap 1..n = A \cup {n}
    BY <1>1, <1>2, <1>7
  <2>2. Cardinality(S \cap 1..n) = Cardinality(A \cup {n})
    BY <2>1, Zenon
  <2>3. QED
    BY <1>5, <1>6, <1>7, <2>2
<1>8. CASE n \notin S
  <2>1. S \cap 1..n = A
    BY <1>1, <1>2, <1>8
  <2>2. Cardinality(S \cap 1..n) = Cardinality(A)
    BY <2>1, Zenon
  <2>3. QED
    BY <1>5, <1>6, <1>8, <2>2
<1>9. QED
  BY <1>7, <1>8

LEMMA BalanceType ==
    ASSUME NEW f \in [DocumentKind -> Nat]
    PROVE  Balance(f) \in Int
<1>1. f["purchase"] \in Nat /\ f["sale"] \in Nat /\ f["work"] \in Nat
  BY DEF DocumentKind
<1>2. /\ Cardinality(Received \cap 1..f["purchase"]) \in Nat
      /\ Cardinality(Fitted \cap 1..f["work"]) \in Nat
  BY <1>1, CountOfFirst
<1>3. QED
  BY <1>1, <1>2 DEF Balance

LEMMA BalanceChanges ==
    ASSUME NEW f \in [DocumentKind -> Nat], NEW g \in [DocumentKind -> Nat],
           NEW k \in DocumentKind, NEW n \in DemoCodes, f[k] = n - 1, g[k] = n,
           \A j \in DocumentKind \ {k} : g[j] = f[j]
    PROVE  Balance(g) = Balance(f) + Delta(k, n)
<1>1. n \in Nat \ {0}
  BY SeedingAssumption DEF DemoCodes
<1>2. /\ f["purchase"] \in Nat /\ f["sale"] \in Nat /\ f["work"] \in Nat
      /\ g["purchase"] \in Nat /\ g["sale"] \in Nat /\ g["work"] \in Nat
  BY DEF DocumentKind
<1>3. /\ Cardinality(Received \cap 1..f["purchase"]) \in Nat
      /\ Cardinality(Fitted \cap 1..f["work"]) \in Nat
      /\ Cardinality(Received \cap 1..g["purchase"]) \in Nat
      /\ Cardinality(Fitted \cap 1..g["work"]) \in Nat
  BY <1>2, CountOfFirst
<1>4. CASE k = "purchase"
  <2>1. g["sale"] = f["sale"] /\ g["work"] = f["work"]
    BY <1>4 DEF DocumentKind
  <2>2. Cardinality(Received \cap 1..g["purchase"]) =
          Cardinality(Received \cap 1..f["purchase"]) + Delta(k, n)
    BY <1>4, OneMoreOf DEF Delta
  <2>3. Delta(k, n) \in Int
    BY <1>4 DEF Delta
  <2>4. QED
    BY <1>2, <1>3, <2>1, <2>2, <2>3 DEF Balance
<1>5. CASE k = "sale"
  <2>1. g["purchase"] = f["purchase"] /\ g["work"] = f["work"] /\ g["sale"] = f["sale"] + 1
    BY <1>1, <1>5 DEF DocumentKind
  <2>2. Delta(k, n) = -1
    BY <1>5 DEF Delta
  <2>3. QED
    BY <1>2, <1>3, <2>1, <2>2 DEF Balance
<1>6. CASE k = "work"
  <2>1. g["sale"] = f["sale"] /\ g["purchase"] = f["purchase"]
    BY <1>6 DEF DocumentKind
  <2>2. Cardinality(Fitted \cap 1..g["work"]) =
          Cardinality(Fitted \cap 1..f["work"]) - Delta(k, n)
    BY <1>3, <1>2, <1>6, OneMoreOf DEF Delta
  <2>3. Delta(k, n) \in Int
    BY <1>6 DEF Delta
  <2>4. QED
    BY <1>2, <1>3, <2>1, <2>2, <2>3 DEF Balance
<1>7. CASE k = "quick"
  <2>1. g["sale"] = f["sale"] /\ g["purchase"] = f["purchase"] /\ g["work"] = f["work"]
    BY <1>7 DEF DocumentKind
  <2>2. Delta(k, n) = 0
    BY <1>7 DEF Delta
  <2>3. QED
    BY <1>2, <1>3, <2>1, <2>2 DEF Balance
<1>8. QED
  BY <1>4, <1>5, <1>6, <1>7 DEF DocumentKind

LEMMA BalanceOfNone ==
    ASSUME NEW f, \A k \in DocumentKind : f[k] = 0
    PROVE  Balance(f) = 0
<1>1. f["purchase"] = 0 /\ f["sale"] = 0 /\ f["work"] = 0
  BY DEF DocumentKind
<1>2. \A S : S \cap 1..0 = {}
  OBVIOUS
<1>3. QED
  BY <1>1, <1>2, FS_EmptySet DEF Balance

LEMMA BalanceOfAll ==
    ASSUME NEW f, \A k \in DocumentKind : f[k] = Demo
    PROVE  Balance(f) = Cardinality(Received) - Demo - Cardinality(Fitted)
<1>1. f["purchase"] = Demo /\ f["sale"] = Demo /\ f["work"] = Demo
  BY DEF DocumentKind
<1>2. Received \cap 1..Demo = Received /\ Fitted \cap 1..Demo = Fitted
  BY SeedingAssumption
<1>3. QED
  BY <1>1, <1>2 DEF Balance

LEMMA DoneType ==
    ASSUME NEW s \in SeedRecord
    PROVE  /\ \A k \in DocumentKind : \A stages : Done(s, k, stages) \in 0..Demo
           /\ Moved(s) \in [DocumentKind -> Nat] /\ Recorded(s) \in [DocumentKind -> Nat]
           /\ \A k \in DocumentKind : /\ Moved(s)[k] = Done(s, k, {"record", "collect"})
                                      /\ Recorded(s)[k] = Done(s, k, {"collect"})
<1>1. s.n \in 1..Demo /\ Demo \in Nat
  BY SeedingAssumption DEF SeedRecord, DemoCodes
<1>2. \A k, stages : Done(s, k, stages) \in 0..Demo
  BY <1>1 DEF Done
<1>3. QED
  BY <1>1, <1>2 DEF Moved, Recorded

LEMMA DoneBefore ==
    ASSUME NEW s, s.at \notin PastManual
    PROVE  /\ \A k, stages : Done(s, k, stages) = 0
           /\ Balance(Moved(s)) = 0 /\ Balance(Recorded(s)) = 0
<1>1. \A k, stages : Done(s, k, stages) = 0
  BY DEF Done, PastManual
<1>2. \A k \in DocumentKind : Moved(s)[k] = 0 /\ Recorded(s)[k] = 0
  BY <1>1 DEF Moved, Recorded
<1>3. QED
  BY <1>1, <1>2, BalanceOfNone

LEMMA DoneAfter ==
    ASSUME NEW s, s.at \in PastDocuments
    PROVE  /\ \A k, stages : Done(s, k, stages) = Demo
           /\ Balance(Moved(s)) = Cardinality(Received) - Demo - Cardinality(Fitted)
           /\ Balance(Recorded(s)) = Cardinality(Received) - Demo - Cardinality(Fitted)
<1>1. \A k, stages : Done(s, k, stages) = Demo
  BY DEF Done
<1>2. \A k \in DocumentKind : Moved(s)[k] = Demo /\ Recorded(s)[k] = Demo
  BY <1>1 DEF Moved, Recorded
<1>3. QED
  BY <1>1, <1>2, BalanceOfAll

\* A document goes from one of its statements to another.
LEMMA DoneWithin ==
    ASSUME NEW s \in SeedRecord, NEW t \in SeedRecord, NEW k \in DocumentKind, NEW stages,
           s.at \in SeedDocuments, t.at \in SeedDocuments, t.kind = s.kind, t.n = s.n
    PROVE  /\ Done(s, k, stages) =
                IF k = s.kind THEN IF s.at \in stages THEN s.n ELSE s.n - 1
                ELSE IF k \in KindsBefore(s.kind) THEN Demo ELSE 0
           /\ Done(t, k, stages) =
                IF k = s.kind THEN IF t.at \in stages THEN s.n ELSE s.n - 1
                ELSE IF k \in KindsBefore(s.kind) THEN Demo ELSE 0
<1>1. s.at \notin PastDocuments /\ t.at \notin PastDocuments
  BY DEF SeedDocuments, PastDocuments, PastTotals, PastNotices
<1>2. s.kind \in DocumentKind /\ s.kind \notin KindsBefore(s.kind)
  BY DEF SeedRecord, DocumentKind, KindsBefore
<1>3. QED
  BY <1>1, <1>2 DEF Done

\* The next document: of the same kind, of the next one, or none.
NextDocument(s) ==
    IF s.n < Demo THEN [s EXCEPT !.at = "insert", !.n = @ + 1]
    ELSE IF s.kind = "quick" THEN [s EXCEPT !.at = "totals"]
    ELSE [s EXCEPT !.at = "insert", !.kind = AfterKind(s.kind), !.n = 1]

LEMMA DoneNext ==
    ASSUME NEW s \in SeedRecord, s.at = "collect"
    PROVE  /\ NextDocument(s) \in SeedRecord
           /\ NextDocument(s).at \in {"insert", "totals"}
           /\ \A k \in DocumentKind : \A stages :
                "insert" \notin stages =>
                  Done(NextDocument(s), k, stages) =
                    IF k = s.kind THEN s.n ELSE Done(s, k, stages)
<1>1. s.n \in 1..Demo /\ Demo \in Nat \ {0} /\ s.kind \in DocumentKind
  BY SeedingAssumption DEF SeedRecord, DemoCodes
<1>2. s.kind \notin KindsBefore(s.kind)
  BY <1>1 DEF DocumentKind, KindsBefore
<1>3. \A a \in {"insert", "collect"} : a \notin PastDocuments /\ a \in SeedDocuments
  BY DEF SeedDocuments, PastDocuments, PastTotals, PastNotices
<1>4. "totals" \in PastDocuments /\ {"insert", "totals"} \subseteq SeedLabel
  BY DEF PastDocuments, SeedLabel, PastHistory, PastPosts, PastUsers, PastCustomers, PastProducts,
         PastStock, PastServices, PastSuppliers, PastSession, PastManual, SeedDocuments
<1>5. \A k, stages :
        Done(s, k, stages) =
          IF k \in KindsBefore(s.kind) THEN Demo
          ELSE IF k = s.kind THEN IF "collect" \in stages THEN s.n ELSE s.n - 1
          ELSE 0
  BY <1>3 DEF Done
<1>6. CASE s.n < Demo
  <2>1. PICK t : t = NextDocument(s)
    OBVIOUS
  <2>2. t \in SeedRecord /\ t.at = "insert" /\ t.kind = s.kind /\ t.n = s.n + 1
    <3>1. t = [s EXCEPT !.at = "insert", !.n = s.n + 1]
      BY <1>6, <2>1 DEF NextDocument
    <3>2. s.n + 1 \in DemoCodes
      BY <1>1, <1>6 DEF DemoCodes
    <3>3. QED
      BY <1>4, <3>1, <3>2 DEF SeedRecord
  <2>3. \A k, stages : "insert" \notin stages =>
          Done(t, k, stages) = IF k = s.kind THEN s.n ELSE Done(s, k, stages)
    BY <1>1, <1>2, <1>3, <1>5, <2>2 DEF Done
  <2>4. QED
    BY <2>1, <2>2, <2>3
<1>7. CASE ~(s.n < Demo) /\ s.kind = "quick"
  <2>1. PICK t : t = NextDocument(s)
    OBVIOUS
  <2>2. t \in SeedRecord /\ t.at = "totals" /\ s.n = Demo
    BY <1>1, <1>4, <1>7, <2>1 DEF NextDocument, SeedRecord
  <2>3. \A k \in DocumentKind : k \in KindsBefore(s.kind) \/ k = s.kind
    BY <1>7 DEF KindsBefore, DocumentKind
  <2>4. \A k \in DocumentKind : \A stages :
          Done(t, k, stages) = IF k = s.kind THEN s.n ELSE Done(s, k, stages)
    BY <1>4, <1>5, <2>2, <2>3 DEF Done
  <2>5. QED
    BY <2>1, <2>2, <2>4
<1>8. CASE ~(s.n < Demo) /\ s.kind # "quick"
  <2>1. PICK t : t = NextDocument(s)
    OBVIOUS
  <2>2. AfterKind(s.kind) \in DocumentKind
    BY <1>1, <1>8 DEF AfterKind, DocumentKind
  <2>3. t \in SeedRecord /\ t.at = "insert" /\ t.kind = AfterKind(s.kind) /\ t.n = 1 /\ s.n = Demo
    <3>1. PICK after : after = AfterKind(s.kind)
      OBVIOUS
    <3>2. t = [s EXCEPT !.at = "insert", !.kind = after, !.n = 1]
      BY <1>8, <2>1, <3>1 DEF NextDocument
    <3>3. 1 \in DemoCodes /\ after \in DocumentKind
      BY <1>1, <2>2, <3>1 DEF DemoCodes
    <3>4. s.n = Demo
      BY <1>1, <1>8
    <3>5. QED
      BY <1>4, <3>1, <3>2, <3>3, <3>4 DEF SeedRecord
  <2>4. /\ AfterKind(s.kind) # s.kind /\ AfterKind(s.kind) \notin KindsBefore(s.kind)
        /\ AfterKind(s.kind) \notin KindsBefore(AfterKind(s.kind))
        /\ \A k : k \in KindsBefore(AfterKind(s.kind)) <=> k \in KindsBefore(s.kind) \/ k = s.kind
    BY <1>1, <1>8 DEF AfterKind, DocumentKind, KindsBefore
  <2>5. \A k \in DocumentKind : \A stages : "insert" \notin stages =>
          Done(t, k, stages) = IF k = s.kind THEN s.n ELSE Done(s, k, stages)
    BY <1>1, <1>3, <1>5, <2>3, <2>4 DEF Done
  <2>6. QED
    BY <2>1, <2>3, <2>5
<1>9. QED
  BY <1>6, <1>7, <1>8

LEMMA NumbersStayFit ==
    ASSUME NumbersFit, SeedTyped,
           \/ numbers' = numbers
           \/ \E k \in DocumentKind, F \in SUBSET DemoCodes :
                numbers' = [numbers EXCEPT ![k] = @ \ F]
           \/ \E k \in DocumentKind, n \in DemoCodes :
                numbers' = [numbers EXCEPT ![k] = @ \cup {n}]
    PROVE  NumbersFit'
<1>1. \A k \in DocumentKind : numbers'[k] \cup DemoCodes = numbers[k] \cup DemoCodes
  BY DEF SeedTyped
<1>2. QED
  BY <1>1 DEF NumbersFit

LEMMA BeginOrStop ==
    ASSUME SeedInv, Run \/ StopSeeding
    PROVE  SeedInv'
<1>1. /\ seed' = [seed EXCEPT !.at = seed'.at] /\ seed'.at \in {"find", "stopped"}
      /\ UNCHANGED <<found, dataVars>>
  BY DEF Run, StopSeeding, SeedInv, SeedTyped, SeedRecord
<1>2. /\ seed' \in SeedRecord /\ seed'.at \notin PastHistory /\ seed'.at \notin PastManual
      /\ seed'.at # "writeStock"
  BY <1>1 DEF SeedInv, SeedTyped, SeedRecord, SeedLabel, PastHistory, PastPosts, PastUsers,
              PastCustomers, PastProducts, PastStock, PastServices, PastSuppliers, PastSession,
              PastManual, SeedDocuments, PastDocuments, PastTotals, PastNotices
<1>3. \A k, stages : Done(seed', k, stages) = 0
  BY <1>2, DoneBefore
<1>4. SeedTyped' /\ NumbersFit' /\ DrawerHolds'
  BY <1>1, <1>2, NumbersStayFit DEF SeedInv, SeedTyped, DrawerHolds, dataVars
<1>5. RunLeaves'
  <2>1. \A k \in DocumentKind : 1..Inserted(seed', k) \subseteq numbers'[k]
    BY <1>3 DEF Inserted
  <2>2. QED
    BY <1>2, <2>1 DEF RunLeaves, Counted, PastHistory, PastPosts, PastUsers,
              PastCustomers, PastProducts, PastStock, PastServices, PastSuppliers, PastSession
<1>6. ShopWaits'
  BY <1>2 DEF ShopWaits, PastHistory, PastPosts, PastUsers,
              PastCustomers, PastProducts, PastStock, PastServices, PastSuppliers, PastSession,
              PastManual, PastDocuments
<1>7. QED
  BY <1>4, <1>5, <1>6 DEF SeedInv

\* Statements before the documents.
LEMMA SetupMoves ==
    ASSUME SeedInv, NEW from, NEW to \in SeedLabel, Go(from, to),
           from \notin PastManual, to \notin PastManual
    PROVE  /\ seed.at = from /\ seed' \in SeedRecord /\ seed'.at = to
           /\ Balance(Moved(seed)) = 0 /\ Balance(Recorded(seed)) = 0
           /\ Balance(Moved(seed')) = 0 /\ Balance(Recorded(seed')) = 0
           /\ \A k, stages : Done(seed', k, stages) = 0
           /\ \A k \in DocumentKind : 1..Inserted(seed', k) = {} /\ Collected(seed', k) = 0
<1>1. seed.at = from /\ seed' \in SeedRecord /\ seed'.at = to
  BY DEF Go, SeedInv, SeedTyped, SeedRecord
<1>2. \A k, stages : Done(seed', k, stages) = 0
  BY <1>1, DoneBefore
<1>3. \A k \in DocumentKind : 1..Inserted(seed', k) = {} /\ Collected(seed', k) = 0
  BY <1>2 DEF Inserted, Collected
<1>4. QED
  BY <1>1, <1>2, <1>3, DoneBefore

LEMMA CleanupKeeps ==
    ASSUME SeedInv, CleanupDemoData
    PROVE  SeedInv'
<1> USE DEF SeedLabel, PastHistory, PastPosts, PastUsers, PastCustomers, PastProducts, PastStock,
            PastServices, PastSuppliers, PastSession, PastManual, SeedDocuments, PastDocuments,
            PastTotals, PastNotices
<1> USE DEF SeedInv, SeedTyped, DrawerHolds
<1>1. ASSUME NEW from, NEW to, Go(from, to),
             from \notin PastHistory, to \notin PastPosts, to \in SeedLabel,
             to = "deletePosts" => history' = 0
      PROVE  seed' \in SeedRecord /\ RunLeaves' /\ ShopWaits'
  <2>1. /\ seed' \in SeedRecord /\ seed'.at = to /\ Balance(Recorded(seed')) = 0
        /\ \A k \in DocumentKind : 1..Inserted(seed', k) = {}
    <3> from \notin PastManual /\ to \notin PastManual
      BY <1>1
    <3> QED
      BY <1>1, SetupMoves
  <2>2. \A k \in DocumentKind : 1..Inserted(seed', k) \subseteq numbers'[k]
    BY <2>1
  <2>3. RunLeaves'
    BY <1>1, <2>1, <2>2 DEF RunLeaves, Counted
  <2>4. ShopWaits'
    BY <1>1, <2>1 DEF ShopWaits
  <2>5. QED
    BY <2>1, <2>3, <2>4
<1>2. CASE FindDemo
  <2>1. found' \in [documents : [DocumentKind -> SUBSET DemoCodes], session : BOOLEAN]
    BY <1>2 DEF FindDemo
  <2>2. seed' \in SeedRecord /\ RunLeaves' /\ ShopWaits'
    BY <1>1, <1>2 DEF FindDemo
  <2>3. QED
    BY <1>2, <2>1, <2>2, NumbersStayFit DEF FindDemo, dataVars
<1>3. CASE DeleteCash
  <2>1. seed' \in SeedRecord /\ RunLeaves' /\ ShopWaits'
    BY <1>1, <1>3 DEF DeleteCash
  <2>2. cash' \subseteq cash
    BY <1>3 DEF DeleteCash
  <2>3. QED
    BY <1>3, <2>1, <2>2, NumbersStayFit DEF DeleteCash
<1>4. ASSUME NEW k \in DocumentKind, NEW from, NEW to, DeleteDocuments(k, from, to),
             from \notin PastHistory, to \notin PastHistory, to \in SeedLabel
      PROVE  SeedInv'
  <2>1. seed' \in SeedRecord /\ RunLeaves' /\ ShopWaits'
    BY <1>1, <1>4 DEF DeleteDocuments
  <2>2. numbers' = [numbers EXCEPT ![k] = @ \ found.documents[k]]
    BY <1>4 DEF DeleteDocuments
  <2>3. found.documents[k] \in SUBSET DemoCodes
    OBVIOUS
  <2>4. NumbersFit'
    BY <2>2, <2>3, NumbersStayFit
  <2>5. numbers' \in [DocumentKind -> SUBSET Nat]
    BY <2>2
  <2>6. inDrawer' \subseteq inDrawer
    BY <1>4 DEF DeleteDocuments
  <2>7. QED
    BY <1>4, <2>1, <2>4, <2>5, <2>6 DEF DeleteDocuments
<1>5. CASE DeleteSession
  <2>1. seed' \in SeedRecord /\ RunLeaves' /\ ShopWaits'
    BY <1>1, <1>5 DEF DeleteSession
  <2>2. QED
    BY <1>5, <2>1, NumbersStayFit DEF DeleteSession
<1>6. CASE DeleteHistory
  <2>1. seed' \in SeedRecord /\ RunLeaves' /\ ShopWaits'
    BY <1>1, <1>6 DEF DeleteHistory
  <2>2. QED
    BY <1>6, <2>1, NumbersStayFit DEF DeleteHistory
<1>7. CASE DeletePosts
  <2>1. /\ seed' \in SeedRecord /\ seed.at = "deletePosts" /\ seed'.at = "users"
        /\ Balance(Recorded(seed)) = 0 /\ Balance(Recorded(seed')) = 0
        /\ \A k \in DocumentKind : 1..Inserted(seed', k) = {}
    BY <1>7, SetupMoves DEF DeletePosts
  <2>2. \A k \in DocumentKind : 1..Inserted(seed', k) \subseteq numbers'[k]
    BY <2>1
  <2>3. posted' = [p \in {"notices", "audits"} |-> 0]
    BY <1>7 DEF DeletePosts
  <2>4. RunLeaves'
    BY <1>7, <2>1, <2>2, <2>3 DEF DeletePosts, RunLeaves, Counted
  <2>5. ShopWaits'
    BY <2>1 DEF ShopWaits
  <2>6. QED
    BY <1>7, <2>1, <2>3, <2>4, <2>5, NumbersStayFit DEF DeletePosts
<1>8. QED
  BY <1>2, <1>3, <1>4, <1>5, <1>6, <1>7 DEF CleanupDemoData, DocumentKind

LEMMA UpsertsKeep ==
    ASSUME SeedInv, patient' = patient,
           \/ SeedRolesAndUsers \/ SeedCustomers \/ SeedQuickServices \/ SeedSuppliers
           \/ SeedProductCatalog \/ SeedInitialInventoryMovements \/ SeedCashSession
    PROVE  SeedInv'
<1> USE DEF SeedLabel, PastHistory, PastPosts, PastUsers, PastCustomers, PastProducts, PastStock,
            PastServices, PastSuppliers, PastSession, PastManual, SeedDocuments, PastDocuments,
            PastTotals, PastNotices
<1> USE DEF SeedInv, SeedTyped, DrawerHolds
<1> USE SeedingAssumption
<1>1. ASSUME NEW from, NEW to, Upsert(from, to),
             <<from, to>> \in {<<"users", "customers">>, <<"customers", "products">>,
                               <<"services", "suppliers">>, <<"suppliers", "session">>}
      PROVE  SeedInv'
  <2>1. /\ seed' \in SeedRecord /\ seed.at = from /\ seed'.at = to
        /\ Balance(Moved(seed)) = 0 /\ Balance(Recorded(seed)) = 0
        /\ Balance(Moved(seed')) = 0 /\ Balance(Recorded(seed')) = 0
        /\ \A k \in DocumentKind : 1..Inserted(seed', k) = {}
    <3> from \notin PastManual /\ to \notin PastManual /\ to \in SeedLabel
      BY <1>1
    <3> QED
      BY <1>1, SetupMoves DEF Upsert
  <2>2. \A k \in DocumentKind : 1..Inserted(seed', k) \subseteq numbers'[k]
    BY <2>1
  <2>3. RunLeaves'
    BY <1>1, <2>1, <2>2 DEF Upsert, RunLeaves, Counted
  <2>4. patient => ShopWaits'
    BY <1>1, <2>1 DEF Upsert, ShopWaits
  <2>5. SeedTyped' /\ DrawerHolds' /\ NumbersFit'
    BY <1>1, <2>1, NumbersStayFit DEF Upsert
  <2>6. QED
    BY <2>3, <2>4, <2>5
<1>2. CASE SeedProductCatalog
  <2>1. /\ seed' \in SeedRecord /\ seed.at = "products" /\ seed'.at = "initialStock"
        /\ Balance(Moved(seed)) = 0 /\ Balance(Recorded(seed)) = 0
        /\ Balance(Moved(seed')) = 0 /\ Balance(Recorded(seed')) = 0
        /\ \A k \in DocumentKind : 1..Inserted(seed', k) = {}
    BY <1>2, SetupMoves DEF SeedProductCatalog
  <2>2. \A k \in DocumentKind : 1..Inserted(seed', k) \subseteq numbers'[k]
    BY <2>1
  <2>3. RunLeaves'
    BY <1>2, <2>1, <2>2 DEF SeedProductCatalog, RunLeaves, Counted
  <2>4. ShopWaits'
    BY <1>2, <2>1 DEF SeedProductCatalog, ShopWaits
  <2>5. SeedTyped' /\ DrawerHolds' /\ NumbersFit'
    BY <1>2, <2>1, NumbersStayFit DEF SeedProductCatalog
  <2>6. QED
    BY <2>3, <2>4, <2>5
<1>3. CASE SeedInitialInventoryMovements
  <2>1. /\ seed' \in SeedRecord
        /\ \/ seed.at = "initialStock" /\ seed'.at = "adjustment"
           \/ seed.at = "adjustment" /\ seed'.at = "services"
        /\ Balance(Moved(seed)) = 0 /\ Balance(Recorded(seed)) = 0
        /\ Balance(Moved(seed')) = 0 /\ Balance(Recorded(seed')) = 0
        /\ \A k \in DocumentKind : 1..Inserted(seed', k) = {}
    BY <1>3, SetupMoves DEF SeedInitialInventoryMovements
  <2>2. \A k \in DocumentKind : 1..Inserted(seed', k) \subseteq numbers'[k]
    BY <2>1
  <2>3. RunLeaves'
    <3>1. history \in Int /\ history' = Counted(seed'.at)
      BY <1>3, <2>1 DEF SeedInitialInventoryMovements, RunLeaves, Go, Counted, CountedTwice
    <3>2. QED
      BY <1>3, <2>1, <2>2, <3>1 DEF SeedInitialInventoryMovements, RunLeaves, Counted, CountedTwice
  <2>4. patient => ShopWaits'
    BY <1>3, <2>1 DEF SeedInitialInventoryMovements, ShopWaits
  <2>5. SeedTyped' /\ DrawerHolds' /\ NumbersFit'
    <3>1. history' \in Int
      BY <2>1, <2>3 DEF RunLeaves, Counted, CountedTwice
    <3>2. QED
      BY <1>3, <2>1, <3>1, NumbersStayFit DEF SeedInitialInventoryMovements
  <2>6. QED
    BY <2>3, <2>4, <2>5
<1>4. CASE SeedCashSession
  <2>1. /\ seed' \in SeedRecord /\ seed.at = "session" /\ seed'.at = "manual"
        /\ Balance(Moved(seed)) = 0 /\ Balance(Recorded(seed)) = 0
        /\ Balance(Moved(seed')) = 0 /\ Balance(Recorded(seed')) = 0
        /\ \A k \in DocumentKind : 1..Inserted(seed', k) = {} /\ Collected(seed', k) = 0
    BY <1>4, SetupMoves DEF SeedCashSession
  <2>2. \A k \in DocumentKind : 1..Inserted(seed', k) \subseteq numbers'[k]
    BY <2>1
  <2>3. RunLeaves'
    BY <1>4, <2>1, <2>2 DEF SeedCashSession, RunLeaves, Counted
  <2>4. inDrawer' = {} /\ cash' = cash /\ \A c \in cash : ~c[1]
    BY <1>4 DEF SeedCashSession
  <2>5. patient => ShopWaits'
    <3>1. \A k \in DocumentKind, n \in DemoCodes :
            <<TRUE, k, n>> \notin cash' /\ ~(n <= Collected(seed', k))
      <4> TAKE k \in DocumentKind, n \in DemoCodes
      <4>1. n \in Nat \ {0} /\ Collected(seed', k) = 0
        BY <2>1 DEF DemoCodes
      <4>2. <<TRUE, k, n>>[1] = TRUE
        OBVIOUS
      <4>3. PICK c : c = <<TRUE, k, n>>
        OBVIOUS
      <4>4. c[1] = TRUE
        BY <4>2, <4>3, Zenon
      <4>5. c \notin cash'
        BY <2>4, <4>4, Zenon
      <4>6. QED
        BY <4>1, <4>3, <4>5
    <3>2. Manual \notin cash'
      BY <2>4 DEF Manual
    <3>3. inDrawer' = 1..Inserted(seed', "quick")
      BY <2>1, <2>4 DEF DocumentKind
    <3>4. patient => shelf' = CatalogueStock + Balance(Moved(seed'))
      BY <1>4, <2>1 DEF SeedCashSession, ShopWaits
    <3>5. QED
      BY <2>1, <2>4, <3>1, <3>2, <3>3, <3>4 DEF ShopWaits
  <2>6. SeedTyped' /\ DrawerHolds' /\ NumbersFit'
    BY <1>4, <2>1, NumbersStayFit DEF SeedCashSession
  <2>7. QED
    BY <2>3, <2>5, <2>6
<1>5. QED
  BY <1>1, <1>2, <1>3, <1>4
     DEF SeedRolesAndUsers, SeedCustomers, SeedQuickServices, SeedSuppliers

LEMMA BalanceSame ==
    ASSUME NEW f \in [DocumentKind -> Nat], NEW g \in [DocumentKind -> Nat],
           \A k \in DocumentKind : g[k] = f[k]
    PROVE  Balance(g) = Balance(f)
<1>1. f = g
  OBVIOUS
<1>2. QED
  BY <1>1

\* What a document moves is counted at the statement that moves it.
LEMMA BalanceWithin ==
    ASSUME NEW s \in SeedRecord, NEW t \in SeedRecord,
           s.at \in SeedDocuments, t.at \in SeedDocuments, t.kind = s.kind, t.n = s.n
    PROVE  /\ (s.at \in {"record", "collect"} <=> t.at \in {"record", "collect"})
                => Balance(Moved(t)) = Balance(Moved(s))
           /\ s.at \notin {"record", "collect"} /\ t.at \in {"record", "collect"}
                => Balance(Moved(t)) = Balance(Moved(s)) + Delta(s.kind, s.n)
           /\ (s.at = "collect" <=> t.at = "collect") => Balance(Recorded(t)) = Balance(Recorded(s))
           /\ s.at # "collect" /\ t.at = "collect"
                => Balance(Recorded(t)) = Balance(Recorded(s)) + Delta(s.kind, s.n)
<1>1. PICK f, g : f = Moved(s) /\ g = Moved(t)
  OBVIOUS
<1>2. PICK h, i : h = Recorded(s) /\ i = Recorded(t)
  OBVIOUS
<1>3. /\ f \in [DocumentKind -> Nat] /\ g \in [DocumentKind -> Nat]
      /\ h \in [DocumentKind -> Nat] /\ i \in [DocumentKind -> Nat]
      /\ \A k \in DocumentKind : /\ f[k] = Done(s, k, {"record", "collect"})
                                 /\ g[k] = Done(t, k, {"record", "collect"})
                                 /\ h[k] = Done(s, k, {"collect"}) /\ i[k] = Done(t, k, {"collect"})
  BY <1>1, <1>2, DoneType
<1>4. s.kind \in DocumentKind /\ s.n \in DemoCodes
  BY DEF SeedRecord
<1>5. \A k \in DocumentKind :
        k # s.kind => g[k] = f[k] /\ i[k] = h[k]
  BY <1>3, DoneWithin
<1>6. /\ f[s.kind] = IF s.at \in {"record", "collect"} THEN s.n ELSE s.n - 1
      /\ g[s.kind] = IF t.at \in {"record", "collect"} THEN s.n ELSE s.n - 1
      /\ h[s.kind] = IF s.at \in {"collect"} THEN s.n ELSE s.n - 1
      /\ i[s.kind] = IF t.at \in {"collect"} THEN s.n ELSE s.n - 1
  BY <1>3, <1>4, DoneWithin
<1>7. (s.at \in {"record", "collect"} <=> t.at \in {"record", "collect"}) => Balance(g) = Balance(f)
  BY <1>3, <1>4, <1>5, <1>6, BalanceSame
<1>8. s.at \notin {"record", "collect"} /\ t.at \in {"record", "collect"}
        => Balance(g) = Balance(f) + Delta(s.kind, s.n)
  BY <1>3, <1>4, <1>5, <1>6, BalanceChanges
<1>9. (s.at = "collect" <=> t.at = "collect") => Balance(i) = Balance(h)
  BY <1>3, <1>4, <1>5, <1>6, BalanceSame
<1>10. s.at # "collect" /\ t.at = "collect" => Balance(i) = Balance(h) + Delta(s.kind, s.n)
  BY <1>3, <1>4, <1>5, <1>6, BalanceChanges
<1>11. QED
  BY <1>1, <1>2, <1>7, <1>8, <1>9, <1>10

LEMMA BalanceNext ==
    ASSUME NEW s \in SeedRecord, s.at = "collect"
    PROVE  /\ Balance(Moved(NextDocument(s))) = Balance(Moved(s))
           /\ Balance(Recorded(NextDocument(s))) = Balance(Recorded(s))
<1>1. PICK t : t = NextDocument(s)
  OBVIOUS
<1>2. t \in SeedRecord /\ s.kind \in DocumentKind
  BY <1>1, DoneNext DEF SeedRecord
<1>3. \A k \in DocumentKind : \A stages \in {{"record", "collect"}, {"collect"}} :
        Done(t, k, stages) = IF k = s.kind THEN s.n ELSE Done(s, k, stages)
  BY <1>1, DoneNext
<1>4. \A stages \in {{"record", "collect"}, {"collect"}} : Done(s, s.kind, stages) = s.n
  BY <1>2, DoneWithin DEF SeedDocuments
<1>5. \A k \in DocumentKind : Moved(t)[k] = Moved(s)[k] /\ Recorded(t)[k] = Recorded(s)[k]
  BY <1>2, <1>3, <1>4, DoneType
<1>6. /\ Moved(t) \in [DocumentKind -> Nat] /\ Recorded(t) \in [DocumentKind -> Nat]
      /\ Moved(s) \in [DocumentKind -> Nat] /\ Recorded(s) \in [DocumentKind -> Nat]
  BY <1>2, DoneType
<1>7. QED
  BY <1>1, <1>5, <1>6, BalanceSame

LEMMA DeltaType ==
    ASSUME NEW k \in DocumentKind, NEW n
    PROVE  Delta(k, n) \in Int
  BY DEF Delta, DocumentKind

LEMMA ManualKeeps ==
    ASSUME SeedInv, patient' = patient, SeedManualCashMovements
    PROVE  SeedInv'
<1> USE DEF SeedLabel, PastHistory, PastPosts, PastUsers, PastCustomers, PastProducts, PastStock,
            PastServices, PastSuppliers, PastSession, PastManual, SeedDocuments, PastDocuments,
            PastTotals, PastNotices
<1> USE DEF SeedInv, SeedTyped, DrawerHolds
<1>1. /\ seed' \in SeedRecord /\ seed.at = "manual" /\ seed'.at = "insert"
      /\ seed'.kind = "purchase" /\ seed'.n = 1
  <2>1. 1 \in DemoCodes /\ "purchase" \in DocumentKind
    BY SeedingAssumption DEF DemoCodes, DocumentKind
  <2>2. /\ seed' = [seed EXCEPT !.at = "insert", !.kind = "purchase", !.n = 1]
        /\ seed.at = "manual" /\ seed \in SeedRecord
    BY DEF SeedManualCashMovements
  <2>3. QED
    BY <2>1, <2>2 DEF SeedRecord
<1>2. \A k \in DocumentKind : \A stages : "insert" \notin stages => Done(seed', k, stages) = 0
  BY <1>1 DEF Done, KindsBefore
<1>3. /\ Balance(Moved(seed)) = 0 /\ Balance(Recorded(seed)) = 0
      /\ \A k \in DocumentKind : Inserted(seed, k) = 0 /\ Collected(seed, k) = 0
  BY <1>1, DoneBefore DEF Inserted, Collected
<1>4. Balance(Moved(seed')) = 0 /\ Balance(Recorded(seed')) = 0
  <2>1. \A k \in DocumentKind : Moved(seed')[k] = 0 /\ Recorded(seed')[k] = 0
    BY <1>2 DEF Moved, Recorded
  <2>2. QED
    BY <2>1, BalanceOfNone
<1>5. \A k \in DocumentKind : Inserted(seed', k) = 0 /\ Collected(seed', k) = 0
  BY <1>2 DEF Inserted, Collected
<1>6. RunLeaves'
  <2>1. \A k \in DocumentKind : 1..Inserted(seed', k) \subseteq numbers'[k]
    BY <1>5
  <2>2. QED
    BY <1>1, <1>3, <1>4, <2>1 DEF SeedManualCashMovements, RunLeaves, Counted
<1>7. ASSUME patient
      PROVE  ShopWaits'
  <2>1. /\ shelf' = CatalogueStock + Balance(Moved(seed'))
        /\ inDrawer' = 1..Inserted(seed', "quick")
    BY <1>1, <1>3, <1>4, <1>5, <1>7 DEF SeedManualCashMovements, ShopWaits, DocumentKind
  <2>2. cash' = cash \cup {Manual} /\ \A c \in cash : c[1] => c \in DemoCash
    BY <1>1, <1>7 DEF SeedManualCashMovements, ShopWaits
  <2>3. \A k \in DocumentKind, n \in DemoCodes :
          <<TRUE, k, n>> \in cash' <=> Collects(k, n) /\ n <= Collected(seed', k)
    <3> TAKE k \in DocumentKind, n \in DemoCodes
    <3>1. <<TRUE, k, n>> # Manual
      BY DEF Manual, DocumentKind
    <3>2. <<TRUE, k, n>> \in cash <=> Collects(k, n) /\ n <= Collected(seed, k)
      BY <1>1, <1>7 DEF ShopWaits
    <3>3. Collected(seed, k) = Collected(seed', k)
      BY <1>3, <1>5
    <3>4. <<TRUE, k, n>> \in cash' <=> <<TRUE, k, n>> \in cash
      BY <2>2, <3>1
    <3>5. QED
      BY <3>2, <3>3, <3>4, Zenon
  <2>4. Manual \in cash' /\ \A c \in cash' : c[1] => c \in DemoCash
    <3>1. Manual \in DemoCash
      BY DEF DemoCash
    <3>2. QED
      BY <2>2, <3>1, Zenon
  <2>5. QED
    BY <1>1, <2>1, <2>3, <2>4 DEF ShopWaits
<1>8. DrawerHolds'
  BY <1>1 DEF RunLeaves, SeedManualCashMovements
<1>9. SeedTyped' /\ NumbersFit'
  BY <1>1, NumbersStayFit DEF SeedManualCashMovements
<1>10. QED
  BY <1>6, <1>7, <1>8, <1>9

LEMMA InsertKeeps ==
    ASSUME SeedInv, patient' = patient, NEW k \in DocumentKind, InsertDemo(k)
    PROVE  SeedInv'
<1> USE DEF SeedLabel, PastHistory, PastPosts, PastUsers, PastCustomers, PastProducts, PastStock,
            PastServices, PastSuppliers, PastSession, PastManual, SeedDocuments, PastDocuments,
            PastTotals, PastNotices
<1> USE DEF SeedInv, SeedTyped, DrawerHolds
<1>1. PICK n : n = seed.n
  OBVIOUS
<1>2. /\ seed.at = "insert" /\ seed.kind = k /\ seed' \in SeedRecord
      /\ seed'.at = IF Delta(k, n) # 0 THEN "readStock" ELSE "collect"
      /\ seed'.kind = k /\ seed'.n = n /\ n \in DemoCodes
  BY <1>1 DEF InsertDemo, Go, SeedRecord
<1>3. /\ Balance(Moved(seed')) = Balance(Moved(seed))
      /\ Balance(Recorded(seed')) = Balance(Recorded(seed))
  <2>1. PICK d \in Int : d = Delta(k, n)
    BY DeltaType
  <2>2. /\ Balance(Moved(seed)) \in Int /\ Balance(Recorded(seed)) \in Int
    BY DoneType, BalanceType
  <2>3. CASE d # 0
    BY <1>1, <1>2, <2>1, <2>3, BalanceWithin
  <2>4. CASE d = 0
    <3>1. seed'.at = "collect"
      BY <1>2, <2>1, <2>4
    <3>2. /\ Balance(Moved(seed')) = Balance(Moved(seed)) + d
          /\ Balance(Recorded(seed')) = Balance(Recorded(seed)) + d
      BY <1>1, <1>2, <2>1, <3>1, BalanceWithin
    <3>3. QED
      BY <2>2, <2>4, <3>2
  <2>5. QED
    BY <2>3, <2>4
<1>4. \A j \in DocumentKind :
        /\ Inserted(seed, j) = IF j = k THEN n - 1 ELSE Inserted(seed', j)
        /\ Inserted(seed', k) = n
        /\ Collected(seed', j) = Collected(seed, j)
  BY <1>1, <1>2, DoneWithin DEF Inserted, Collected
<1>5. numbers' = [numbers EXCEPT ![k] = @ \cup {n}]
  BY <1>1 DEF InsertDemo
<1>6. 1..n = (1..(n - 1)) \cup {n}
  BY <1>2, SeedingAssumption DEF DemoCodes
<1>7. \A j \in DocumentKind : 1..Inserted(seed', j) \subseteq numbers'[j]
  <2> TAKE j \in DocumentKind
  <2>1. 1..Inserted(seed, j) \subseteq numbers[j]
    BY DEF RunLeaves
  <2>2. CASE j = k
    BY <1>4, <1>5, <1>6, <2>1, <2>2
  <2>3. CASE j # k
    BY <1>4, <1>5, <2>1, <2>3
  <2>4. QED
    BY <2>2, <2>3
<1>8. RunLeaves'
  BY <1>2, <1>3, <1>7 DEF InsertDemo, RunLeaves, Counted
<1>9. ASSUME patient
      PROVE  ShopWaits'
  <2>1. shelf' = CatalogueStock + Balance(Moved(seed')) /\ cash' = cash
    BY <1>2, <1>3, <1>9 DEF InsertDemo, ShopWaits
  <2>2. inDrawer = 1..Inserted(seed, "quick")
    BY <1>2, <1>9 DEF ShopWaits
  <2>3. inDrawer' = IF k = "quick" THEN inDrawer \cup {n} ELSE inDrawer
    BY <1>1 DEF InsertDemo
  <2>4. inDrawer' = 1..Inserted(seed', "quick")
    BY <1>4, <1>6, <2>2, <2>3 DEF DocumentKind
  <2>5. \A j \in DocumentKind, m \in DemoCodes :
          <<TRUE, j, m>> \in cash' <=> Collects(j, m) /\ m <= Collected(seed', j)
    BY <1>2, <1>4, <1>9, <2>1 DEF ShopWaits
  <2>6. QED
    BY <1>2, <1>9, <2>1, <2>4, <2>5 DEF ShopWaits
<1>10. DrawerHolds'
  BY <1>2 DEF RunLeaves, InsertDemo
<1>11. NumbersFit'
  BY <1>2, <1>5, NumbersStayFit
<1>12. numbers' \in [DocumentKind -> SUBSET Nat]
  BY <1>2, <1>5, SeedingAssumption DEF DemoCodes
<1>13. SeedTyped'
  BY <1>2, <1>12 DEF InsertDemo
<1>14. QED
  BY <1>8, <1>9, <1>10, <1>11, <1>13

LEMMA MoveKeeps ==
    ASSUME SeedInv, patient' = patient, NEW k \in DocumentKind, MoveDemoStock(k)
    PROVE  SeedInv'
<1> USE DEF SeedLabel, PastHistory, PastPosts, PastUsers, PastCustomers, PastProducts, PastStock,
            PastServices, PastSuppliers, PastSession, PastManual, SeedDocuments, PastDocuments,
            PastTotals, PastNotices
<1> USE DEF SeedInv, SeedTyped, DrawerHolds
<1>1. PICK n \in DemoCodes : n = seed.n
  BY DEF SeedRecord
<1>2. PICK d \in Int : d = Delta(k, n)
  BY DeltaType
<1>3. /\ seed.kind = k /\ seed.read \in Int
      /\ UNCHANGED <<found, numbers, drawer, inDrawer, cash, totals, tables, posted>>
  BY DEF MoveDemoStock, SeedRecord
<1>4. PICK b \in Int, h \in Int : b = Balance(Moved(seed)) /\ h = Balance(Recorded(seed))
  BY DoneType, BalanceType
<1>5. /\ seed' \in SeedRecord /\ seed.at \in SeedDocuments /\ seed'.at \in SeedDocuments
      /\ seed'.kind = seed.kind /\ seed'.n = seed.n
      /\ seed.at # "insert" /\ seed'.at # "insert"
  BY DEF MoveDemoStock, Go, SeedRecord
<1>6. \A j \in DocumentKind :
        Inserted(seed', j) = Inserted(seed, j) /\ Collected(seed', j) = Collected(seed, j)
  BY <1>5, DoneWithin DEF Inserted, Collected
<1>7. \A j \in DocumentKind : 1..Inserted(seed', j) \subseteq numbers'[j]
  BY <1>3, <1>6 DEF RunLeaves
<1>8. /\ shelf' \in Int /\ history' \in Int
      /\ history' = Counted(seed'.at) + Balance(Recorded(seed'))
      /\ patient =>
           /\ shelf' = CatalogueStock + Balance(Moved(seed'))
           /\ seed'.at = "writeStock" => seed'.read = shelf'
  <2>0. /\ Counted(seed.at) = CatalogueStock + 1 /\ Counted(seed'.at) = CatalogueStock + 1
        /\ CatalogueStock \in Int
    BY <1>5, SeedingAssumption DEF Counted, CountedTwice
  <2>1. history = Counted(seed'.at) + h
    BY <1>4, <1>5, <2>0 DEF RunLeaves
  <2>2. patient => shelf = CatalogueStock + b
    BY <1>4, <1>5 DEF ShopWaits
  <2>3. CASE seed.at = "readStock"
    <3>1. seed'.at = "writeStock" /\ seed'.read = shelf /\ shelf' = shelf /\ history' = history
      BY <2>3 DEF MoveDemoStock, Go, SeedRecord
    <3>2. Balance(Moved(seed')) = b /\ Balance(Recorded(seed')) = h
      BY <1>4, <1>5, <2>3, <3>1, BalanceWithin
    <3>3. QED
      BY <2>0, <2>1, <2>2, <3>1, <3>2
  <2>4. CASE seed.at = "writeStock"
    <3>1. seed'.at = "record" /\ shelf' = seed.read + d /\ history' = history
      BY <1>1, <1>2, <2>4 DEF MoveDemoStock, Go, SeedRecord
    <3>2. Balance(Moved(seed')) = b + d /\ Balance(Recorded(seed')) = h
      BY <1>1, <1>2, <1>3, <1>4, <1>5, <2>4, <3>1, BalanceWithin
    <3>3. patient => seed.read = shelf
      BY <2>4 DEF ShopWaits
    <3>4. patient => shelf' = CatalogueStock + (b + d)
      BY <2>0, <2>2, <3>1, <3>3
    <3>5. shelf' \in Int /\ history' \in Int
      BY <1>3, <3>1
    <3>6. QED
      BY <2>1, <3>1, <3>2, <3>4, <3>5
  <2>5. CASE seed.at = "record"
    <3>1. seed'.at = "collect" /\ shelf' = shelf /\ history' = history + d
      BY <1>1, <1>2, <2>5 DEF MoveDemoStock, Go, SeedRecord
    <3>2. Balance(Moved(seed')) = b /\ Balance(Recorded(seed')) = h + d
      BY <1>1, <1>2, <1>3, <1>4, <1>5, <2>5, <3>1, BalanceWithin
    <3>3. history' = Counted(seed'.at) + (h + d)
      BY <2>0, <2>1, <3>1
    <3>4. shelf' \in Int /\ history' \in Int
      BY <3>1
    <3>5. QED
      BY <2>2, <3>1, <3>2, <3>3, <3>4
  <2>6. QED
    BY <2>3, <2>4, <2>5 DEF MoveDemoStock, Go
<1>9. RunLeaves'
  BY <1>3, <1>5, <1>7, <1>8 DEF RunLeaves
<1>10. ASSUME patient
       PROVE  ShopWaits'
  <2>1. /\ inDrawer = 1..Inserted(seed, "quick")
        /\ \A j \in DocumentKind, m \in DemoCodes :
             <<TRUE, j, m>> \in cash <=> Collects(j, m) /\ m <= Collected(seed, j)
        /\ Manual \in cash
        /\ \A c \in cash : c[1] => c \in DemoCash
    BY <1>5, <1>10 DEF ShopWaits
  <2>2. inDrawer' = 1..Inserted(seed', "quick")
    BY <1>3, <1>6, <2>1 DEF DocumentKind
  <2>3. \A j \in DocumentKind, m \in DemoCodes :
          <<TRUE, j, m>> \in cash' <=> Collects(j, m) /\ m <= Collected(seed', j)
    BY <1>3, <1>6, <2>1
  <2>4. QED
    BY <1>3, <1>5, <1>8, <1>10, <2>1, <2>2, <2>3 DEF ShopWaits
<1>11. DrawerHolds' /\ NumbersFit'
  BY <1>3, NumbersStayFit
<1>12. SeedTyped'
  BY <1>3, <1>5, <1>8
<1>13. QED
  BY <1>9, <1>10, <1>11, <1>12

LEMMA RowOfDemo ==
    ASSUME NEW k \in DocumentKind, NEW n \in DemoCodes
    PROVE  <<TRUE, k, n>> \in DemoCash
  BY DEF DemoCash, Manual

LEMMA CollectKeeps ==
    ASSUME SeedInv, patient' = patient, NEW k \in DocumentKind, CollectDemo(k)
    PROVE  SeedInv'
<1> USE DEF SeedLabel, PastHistory, PastPosts, PastUsers, PastCustomers, PastProducts, PastStock,
            PastServices, PastSuppliers, PastSession, PastManual, SeedDocuments, PastDocuments,
            PastTotals, PastNotices
<1> USE DEF SeedInv, SeedTyped, DrawerHolds
<1>1. PICK n \in DemoCodes : n = seed.n
  BY DEF SeedRecord
<1>2. seed.at = "collect" /\ seed.kind = k /\ seed' = NextDocument(seed)
  BY DEF CollectDemo, NextDocument
<1>3. seed' \in SeedRecord /\ seed'.at \in {"insert", "totals"}
  BY <1>2, DoneNext
<1>4. /\ UNCHANGED <<found, numbers, drawer, inDrawer, totals, shelf, history, tables, posted>>
      /\ cash' = IF Collects(k, n) THEN cash \cup {<<TRUE, k, n>>} ELSE cash
  BY <1>1, <1>2 DEF CollectDemo
<1>5. /\ Balance(Moved(seed')) = Balance(Moved(seed))
      /\ Balance(Recorded(seed')) = Balance(Recorded(seed))
  BY <1>2, BalanceNext
<1>6. \A j \in DocumentKind : Inserted(seed', j) = Inserted(seed, j)
  <2> TAKE j \in DocumentKind
  <2>1. Inserted(seed', j) = IF j = k THEN n ELSE Inserted(seed, j)
    BY <1>1, <1>2, DoneNext DEF Inserted
  <2>2. Inserted(seed, k) = n
    BY <1>1, <1>2, DoneWithin DEF Inserted
  <2>3. QED
    BY <2>1, <2>2
<1>7. \A j \in DocumentKind :
        Collected(seed', j) = IF j = k THEN n ELSE Collected(seed, j)
  BY <1>1, <1>2, DoneNext DEF Collected
<1>8. Collected(seed, k) = n - 1
  BY <1>1, <1>2, DoneWithin DEF Collected
<1>9. RunLeaves'
  <2>1. \A j \in DocumentKind : 1..Inserted(seed', j) \subseteq numbers'[j]
    BY <1>4, <1>6 DEF RunLeaves
  <2>2. QED
    BY <1>2, <1>3, <1>4, <1>5, <2>1 DEF RunLeaves, Counted
<1>10. ASSUME patient
       PROVE  ShopWaits'
  <2>1. /\ inDrawer = 1..Inserted(seed, "quick")
        /\ \A j \in DocumentKind, m \in DemoCodes :
             <<TRUE, j, m>> \in cash <=> Collects(j, m) /\ m <= Collected(seed, j)
        /\ Manual \in cash
        /\ \A c \in cash : c[1] => c \in DemoCash
        /\ shelf = CatalogueStock + Balance(Moved(seed))
    BY <1>2, <1>10 DEF ShopWaits
  <2>2. inDrawer' = 1..Inserted(seed', "quick")
    BY <1>4, <1>6, <2>1 DEF DocumentKind
  <2>3. \A j \in DocumentKind, m \in DemoCodes :
          <<TRUE, j, m>> \in cash' <=> Collects(j, m) /\ m <= Collected(seed', j)
    <3> TAKE j \in DocumentKind, m \in DemoCodes
    <3>1. <<TRUE, j, m>> \in cash' <=>
            <<TRUE, j, m>> \in cash \/ (Collects(k, n) /\ j = k /\ m = n)
      BY <1>4
    <3>2. <<TRUE, j, m>> \in cash <=> Collects(j, m) /\ m <= Collected(seed, j)
      BY <2>1
    <3>3. m \in Nat /\ n \in Nat
      BY SeedingAssumption DEF DemoCodes
    <3>4. CASE j # k
      BY <1>7, <3>1, <3>2, <3>4
    <3>5. CASE j = k
      <4>1. m <= n <=> m <= n - 1 \/ m = n
        BY <3>3
      <4>2. /\ <<TRUE, j, m>> \in cash <=> Collects(j, m) /\ m <= n - 1
            /\ Collected(seed', j) = n
        BY <1>7, <1>8, <3>2, <3>5
      <4>3. QED
        BY <3>1, <3>5, <4>1, <4>2
    <3>6. QED
      BY <3>4, <3>5
  <2>4. Manual \in cash' /\ \A c \in cash' : c[1] => c \in DemoCash
    <3>1. <<TRUE, k, n>> \in DemoCash
      BY RowOfDemo
    <3>2. cash' \subseteq cash \cup {<<TRUE, k, n>>} /\ cash \subseteq cash'
      BY <1>4
    <3>3. QED
      BY <2>1, <3>1, <3>2, Zenon
  <2>5. shelf' = CatalogueStock + Balance(Moved(seed'))
    BY <1>4, <1>5, <2>1
  <2>6. QED
    BY <1>2, <1>3, <1>4, <2>2, <2>3, <2>4, <2>5 DEF ShopWaits
<1>11. DrawerHolds'
  BY <1>2, <1>4 DEF RunLeaves, Counted
<1>12. SeedTyped' /\ NumbersFit'
  BY <1>3, <1>4, NumbersStayFit
<1>13. QED
  BY <1>9, <1>10, <1>11, <1>12

LEMMA TailKeeps ==
    ASSUME SeedInv, patient' = patient,
           UpdateCashSessionTotals \/ SeedNotifications \/ SeedAuditLogs \/ SeedBusinessSettings
    PROVE  SeedInv'
<1> USE DEF SeedLabel, PastHistory, PastPosts, PastUsers, PastCustomers, PastProducts, PastStock,
            PastServices, PastSuppliers, PastSession, PastManual, SeedDocuments, PastDocuments,
            PastTotals, PastNotices
<1> USE DEF SeedInv, SeedTyped, DrawerHolds
<1>1. CASE SeedBusinessSettings
  <2>1. /\ seed' \in SeedRecord /\ seed'.at = "finished"
        /\ UNCHANGED <<found, numbers, drawer, inDrawer, cash, shelf, history, posted>>
        /\ tables' = tables \cup {"settings"}
    BY <1>1 DEF SeedBusinessSettings, Upsert, Go, SeedRecord
  <2>2. \A k \in DocumentKind : 1..Inserted(seed', k) = {}
    BY <2>1, DoneBefore DEF Inserted
  <2>3. RunLeaves'
    BY <2>1, <2>2 DEF RunLeaves, Counted
  <2>4. ShopWaits'
    BY <2>1 DEF ShopWaits
  <2>5. SeedTyped' /\ DrawerHolds' /\ NumbersFit'
    BY <2>1, NumbersStayFit
  <2>6. QED
    BY <2>3, <2>4, <2>5
<1>2. ASSUME UpdateCashSessionTotals \/ SeedNotifications \/ SeedAuditLogs
      PROVE  SeedInv'
  <2>1. /\ seed' \in SeedRecord
        /\ <<seed.at, seed'.at>> \in
             {<<"totals", "notices">>, <<"notices", "audits">>, <<"audits", "settings">>}
        /\ UNCHANGED <<found, numbers, drawer, inDrawer, cash, shelf, history, tables>>
    BY <1>2 DEF UpdateCashSessionTotals, SeedNotifications, SeedAuditLogs, PostDemo, Go, SeedRecord
  <2>2. seed.at \in PastDocuments /\ seed'.at \in PastDocuments
    BY <2>1
  <2>3. /\ Balance(Moved(seed')) = Balance(Moved(seed))
        /\ Balance(Recorded(seed')) = Balance(Recorded(seed))
        /\ \A k : Inserted(seed', k) = Inserted(seed, k) /\ Collected(seed', k) = Collected(seed, k)
    BY <2>2, DoneAfter DEF Inserted, Collected
  <2>4. posted' \in [{"notices", "audits"} -> Nat]
    BY <1>2 DEF UpdateCashSessionTotals, SeedNotifications, SeedAuditLogs, PostDemo
  <2>5. /\ posted'["notices"] = IF seed'.at \in PastNotices THEN 1 ELSE 0
        /\ posted'["audits"] = IF seed'.at = "settings" THEN 1 ELSE 0
    <3>1. /\ posted["notices"] = IF seed.at \in PastNotices THEN 1 ELSE 0
          /\ posted["audits"] = IF seed.at = "settings" THEN 1 ELSE 0
      BY <2>1 DEF RunLeaves, Counted
    <3>2. CASE UpdateCashSessionTotals
      BY <2>1, <3>1, <3>2 DEF UpdateCashSessionTotals, Go
    <3>3. CASE SeedNotifications
      BY <2>1, <3>1, <3>3 DEF SeedNotifications, PostDemo, Go
    <3>4. CASE SeedAuditLogs
      BY <2>1, <3>1, <3>4 DEF SeedAuditLogs, PostDemo, Go
    <3>5. QED
      BY <1>2, <3>2, <3>3, <3>4
  <2>6. RunLeaves'
    <3>1. \A k \in DocumentKind : 1..Inserted(seed', k) \subseteq numbers'[k]
      BY <2>1, <2>3 DEF RunLeaves, Counted
    <3>2. QED
      BY <2>1, <2>3, <2>5, <3>1 DEF RunLeaves, Counted
  <2>7. patient => totals' = {c \in cash' : c[1]}
    <3>1. CASE UpdateCashSessionTotals
      BY <2>1, <3>1 DEF UpdateCashSessionTotals
    <3>2. CASE SeedNotifications \/ SeedAuditLogs
      <4>1. totals' = totals /\ seed.at \in PastTotals
        BY <3>2 DEF SeedNotifications, SeedAuditLogs, PostDemo, Go
      <4>2. QED
        BY <2>1, <4>1 DEF ShopWaits
    <3>3. QED
      BY <1>2, <3>1, <3>2
  <2>8. ASSUME patient
        PROVE  ShopWaits'
    <3>1. /\ inDrawer = 1..Inserted(seed, "quick")
          /\ \A j \in DocumentKind, m \in DemoCodes :
               <<TRUE, j, m>> \in cash <=> Collects(j, m) /\ m <= Collected(seed, j)
          /\ Manual \in cash
          /\ \A c \in cash : c[1] => c \in DemoCash
          /\ shelf = CatalogueStock + Balance(Moved(seed))
      BY <2>2, <2>8 DEF ShopWaits
    <3>2. \A j \in DocumentKind, m \in DemoCodes :
            <<TRUE, j, m>> \in cash' <=> Collects(j, m) /\ m <= Collected(seed', j)
      BY <2>1, <2>3, <3>1
    <3>3. QED
      BY <2>1, <2>3, <2>7, <2>8, <3>1, <3>2 DEF ShopWaits
  <2>9. SeedTyped' /\ DrawerHolds' /\ NumbersFit'
    BY <2>1, <2>4, NumbersStayFit
  <2>10. QED
    BY <2>6, <2>8, <2>9
<1>3. QED
  BY <1>1, <1>2

\* The shop registers a document, between two statements of the script or two runs.
LEMMA UseKeeps ==
    ASSUME SeedInv, patient' = patient, patient => ~Seeding,
           NEW k \in DocumentKind, NEW session \in BOOLEAN, Use(k, session)
    PROVE  SeedInv'
<1> USE DEF SeedInv, SeedTyped, DrawerHolds
<1>1. PICK n : n = Cardinality(numbers[k]) + 1
  OBVIOUS
<1>2. /\ UNCHANGED <<seed, found, drawer, totals, history, tables, posted>>
      /\ n \notin numbers[k] /\ numbers' = [numbers EXCEPT ![k] = @ \cup {n}]
      /\ shelf' \in Int /\ inDrawer' \subseteq inDrawer \cup (IF session THEN {n} ELSE {})
      /\ cash' \subseteq cash \cup {<<session, k, n>>} /\ (session => drawer)
  BY <1>1 DEF Use
<1>3. \A j \in DocumentKind : \E p \in Nat : p >= Demo /\ numbers'[j] \cup DemoCodes = 1..p
  <2> TAKE j \in DocumentKind
  <2>1. PICK m \in Nat : m >= Demo /\ numbers[j] \cup DemoCodes = 1..m
    BY DEF NumbersFit
  <2>2. CASE j = k
    <3>1. \E p \in Nat : p >= Demo /\ (numbers[k] \cup {n}) \cup DemoCodes = 1..p
      BY <1>1, <1>2, <2>1, <2>2, NextNumberFits
    <3>2. numbers'[j] = numbers[k] \cup {n}
      BY <1>2, <2>2
    <3>3. QED
      BY <3>1, <3>2, Zenon
  <2>3. CASE j # k
    BY <1>2, <2>1, <2>3
  <2>4. QED
    BY <2>2, <2>3
<1>4. numbers' \in [DocumentKind -> SUBSET Nat]
  <2>1. \A j \in DocumentKind : numbers'[j] \in SUBSET Nat
    BY <1>3
  <2>2. numbers' \in [DocumentKind -> {numbers'[j] : j \in DocumentKind}]
    BY <1>2
  <2>3. QED
    BY <1>2, <2>1, <2>2
<1>5. DrawerHolds'
  <2>1. SUFFICES ASSUME ~drawer
                 PROVE  inDrawer' = {} /\ \A c \in cash' : ~c[1]
    BY <1>2
  <2>2. session = FALSE /\ inDrawer' = {}
    BY <1>2, <2>1
  <2>3. ASSUME NEW c \in cash'
        PROVE  ~c[1]
    <3>1. CASE c \in cash
      BY <2>1, <3>1
    <3>2. CASE c = <<session, k, n>>
      <4>1. <<session, k, n>>[1] = FALSE
        BY <2>2
      <4>2. c[1] = FALSE
        BY <3>2, <4>1, Zenon
      <4>3. QED
        BY <4>2, Zenon
    <3>3. QED
      BY <1>2, <3>1, <3>2
  <2>4. QED
    BY <2>2, <2>3
<1>6. RunLeaves'
  <2>1. \A j \in DocumentKind : 1..Inserted(seed, j) \subseteq numbers[j]
    BY DEF RunLeaves
  <2>2. \A j \in DocumentKind : numbers[j] \subseteq numbers'[j]
    BY <1>2
  <2>3. \A j \in DocumentKind : 1..Inserted(seed, j) \subseteq numbers'[j]
    BY <2>1, <2>2
  <2>4. QED
    BY <1>2, <2>3 DEF RunLeaves, Counted
<1>7. patient => ShopWaits'
  BY <1>2 DEF Seeding, ShopWaits, PastProducts, PastStock, PastServices, PastSuppliers, PastSession,
              PastManual, SeedDocuments, PastDocuments, PastTotals, PastNotices
<1>8. QED
  BY <1>2, <1>3, <1>4, <1>5, <1>6, <1>7 DEF NumbersFit

LEMMA SeedingInitially ==
    ASSUME OfficeInit
    PROVE  SeedInv
<1> USE DEF OfficeInit, SeedingInit
<1>1. seed.at = "new"
  OBVIOUS
<1>2. /\ "new" \in SeedLabel /\ "new" \notin PastHistory /\ "new" \notin PastManual
  BY DEF SeedLabel, PastHistory, PastPosts, PastUsers, PastCustomers, PastProducts, PastStock,
         PastServices, PastSuppliers, PastSession, PastManual, SeedDocuments, PastDocuments,
         PastTotals, PastNotices
<1>3. SeedTyped
  <2>1. seed \in SeedRecord
    BY <1>2, SeedingAssumption DEF SeedRecord, DocumentKind, DemoCodes
  <2>2. found \in [documents : [DocumentKind -> SUBSET DemoCodes], session : BOOLEAN]
    <3>1. [k \in DocumentKind |-> {}] \in [DocumentKind -> SUBSET DemoCodes]
      OBVIOUS
    <3>2. PICK none : none = [k \in DocumentKind |-> {}]
      OBVIOUS
    <3>3. found = [documents |-> none, session |-> FALSE]
      BY <3>2
    <3>4. [documents |-> none, session |-> FALSE] \in
            [documents : [DocumentKind -> SUBSET DemoCodes], session : BOOLEAN]
      BY <3>1, <3>2
    <3>5. QED
      BY <3>3, <3>4, Zenon
  <2>3. numbers \in [DocumentKind -> SUBSET Nat] /\ shelf \in Int /\ history \in Int
    OBVIOUS
  <2>4. /\ posted \in [{"notices", "audits"} -> Nat]
        /\ tables \subseteq
             {"users", "customers", "products", "services", "suppliers", "settings"}
    OBVIOUS
  <2>5. drawer \in BOOLEAN
    OBVIOUS
  <2>6. QED
    BY <2>1, <2>2, <2>3, <2>4, <2>5, Zenon DEF SeedTyped
<1>4. NumbersFit
  BY SeedingAssumption DEF NumbersFit, DemoCodes
<1>5. \A k \in DocumentKind : 1..Inserted(seed, k) \subseteq numbers[k]
  BY <1>1, <1>2, DoneBefore DEF Inserted
<1>6. RunLeaves /\ ShopWaits
  BY <1>1, <1>5 DEF RunLeaves, Counted, ShopWaits, PastHistory, PastPosts, PastUsers, PastCustomers,
         PastProducts, PastStock, PastServices, PastSuppliers, PastSession, PastManual,
         SeedDocuments, PastDocuments, PastTotals, PastNotices
<1>7. QED
  BY <1>3, <1>4, <1>6 DEF SeedInv, DrawerHolds

\* The script and the shop; what nobody else touches.
LEMMA SeedCases ==
    ASSUME [OfficeNext]_officeVars
    PROVE  /\ patient' = patient
           /\ \/ Run \/ SeedingStep
              \/ /\ patient => ~Seeding
                 /\ \E k \in DocumentKind, session \in BOOLEAN : Use(k, session)
              \/ UNCHANGED <<seed, found, dataVars>>
  BY DEF OfficeNext, officeVars, seedVars, Environment, SignIn, Browse, SeedShop, FillForms, Arrive,
         Handle

LEMMA SeedStays ==
    ASSUME SeedInv, [OfficeNext]_officeVars
    PROVE  SeedInv'
<1>1. patient' = patient
  BY SeedCases
<1>2. CASE Run
  BY <1>1, <1>2, BeginOrStop
<1>3. CASE SeedingStep
  <2>1. ASSUME NEW k \in DocumentKind, InsertDemo(k) \/ MoveDemoStock(k) \/ CollectDemo(k)
        PROVE  SeedInv'
    BY <1>1, <2>1, InsertKeeps, MoveKeeps, CollectKeeps
  <2>2. QED
    BY <1>1, <1>3, <2>1, BeginOrStop, CleanupKeeps, UpsertsKeep, ManualKeeps, TailKeeps
       DEF SeedingStep, SeedPurchases, SeedSales, SeedServiceOrders, SeedQuickServiceSales,
           DocumentKind
<1>4. CASE /\ patient => ~Seeding
           /\ \E k \in DocumentKind, session \in BOOLEAN : Use(k, session)
  BY <1>1, <1>4, UseKeeps
<1>5. CASE UNCHANGED <<seed, found, dataVars>>
  <2>1. SeedTyped' /\ NumbersFit' /\ DrawerHolds'
    BY <1>5, NumbersStayFit DEF SeedInv, SeedTyped, DrawerHolds, dataVars
  <2>2. RunLeaves'
    BY <1>5 DEF SeedInv, RunLeaves, Counted, dataVars
  <2>3. patient => ShopWaits'
    BY <1>5 DEF SeedInv, ShopWaits, dataVars
  <2>4. QED
    BY <1>1, <2>1, <2>2, <2>3 DEF SeedInv
<1>6. QED
  BY <1>2, <1>3, <1>4, <1>5, SeedCases

LEMMA FinishIsLast ==
    ASSUME SeedTyped, SeedingStep, Seeding, seed'.at = "finished"
    PROVE  SeedBusinessSettings
<1>1. seed \in SeedRecord
  BY DEF SeedTyped
<1>2. ASSUME NEW from, NEW to, Go(from, to)
      PROVE  to = "finished"
  BY <1>1, <1>2 DEF Go, SeedRecord
<1>3. ~CleanupDemoData
  BY <1>2 DEF CleanupDemoData, FindDemo, DeleteCash, DeleteDocuments, DeleteSession, DeleteHistory,
              DeletePosts
<1>4. /\ ~SeedRolesAndUsers /\ ~SeedCustomers /\ ~SeedProductCatalog
      /\ ~SeedInitialInventoryMovements /\ ~SeedQuickServices /\ ~SeedSuppliers
      /\ ~SeedCashSession
  BY <1>2 DEF SeedRolesAndUsers, SeedCustomers, SeedProductCatalog, SeedInitialInventoryMovements,
              SeedQuickServices, SeedSuppliers, SeedCashSession, Upsert
<1>5. ~SeedManualCashMovements
  BY <1>1 DEF SeedManualCashMovements, SeedRecord
<1>6. ~UpdateCashSessionTotals /\ ~SeedNotifications /\ ~SeedAuditLogs /\ ~StopSeeding
  <2>1. ~UpdateCashSessionTotals /\ ~SeedNotifications /\ ~SeedAuditLogs
    BY <1>2 DEF UpdateCashSessionTotals, SeedNotifications, SeedAuditLogs, PostDemo
  <2>2. ~StopSeeding
    BY <1>1 DEF StopSeeding, SeedRecord
  <2>3. QED
    BY <2>1, <2>2
<1>7. ASSUME NEW k \in DocumentKind
      PROVE  ~InsertDemo(k) /\ ~MoveDemoStock(k) /\ ~CollectDemo(k)
  <2>1. ~InsertDemo(k)
    <3>1. CASE Delta(k, seed.n) # 0
      BY <1>2, <3>1 DEF InsertDemo
    <3>2. CASE Delta(k, seed.n) = 0
      BY <1>2, <3>2 DEF InsertDemo
    <3>3. QED
      BY <3>1, <3>2
  <2>2. ~MoveDemoStock(k)
    <3>1. ~(seed.at = "readStock" /\ seed' = [seed EXCEPT !.at = "writeStock", !.read = shelf])
      BY <1>1 DEF SeedRecord
    <3>2. QED
      BY <1>2, <3>1 DEF MoveDemoStock
  <2>3. ~CollectDemo(k)
    <3>1. SUFFICES ASSUME CollectDemo(k) PROVE FALSE
      OBVIOUS
    <3>2. seed' = NextDocument(seed) /\ seed.at = "collect"
      BY <3>1 DEF CollectDemo, NextDocument
    <3>3. QED
      BY <1>1, <3>2, DoneNext
  <2>4. QED
    BY <2>1, <2>2, <2>3
<1>8. ~SeedPurchases /\ ~SeedSales /\ ~SeedServiceOrders /\ ~SeedQuickServiceSales
  BY <1>7 DEF SeedPurchases, SeedSales, SeedServiceOrders, SeedQuickServiceSales, DocumentKind
<1>9. QED
  BY <1>3, <1>4, <1>5, <1>6, <1>8 DEF SeedingStep

LEMMA RowsOfDemo ==
    ASSUME NEW c \in DemoCash, c # Manual
    PROVE  \E k \in DocumentKind : \E n \in DemoCodes : c = <<TRUE, k, n>>
<1>1. c \in {TRUE} \X DocumentKind \X DemoCodes
  BY DEF DemoCash
<1>2. c = <<c[1], c[2], c[3]>> /\ c[2] \in DocumentKind /\ c[3] \in DemoCodes
  BY <1>1
<1>3. c[1] = TRUE
  BY <1>1
<1>4. c = <<TRUE, c[2], c[3]>>
  BY <1>2, <1>3, Zenon
<1>5. QED
  BY <1>2, <1>4, Zenon

LEMMA SettingsComplete ==
    ASSUME SeedInv, SeedInv', patient' = patient, SeedBusinessSettings
    PROVE  NumbersGoOn' /\ (patient => FreshlySeeded')
<1>1. /\ seed.at = "settings"
      /\ tables' = tables \cup {"settings"}
      /\ numbers' = numbers /\ shelf' = shelf /\ history' = history /\ cash' = cash
      /\ totals' = totals /\ inDrawer' = inDrawer /\ posted' = posted
  BY DEF SeedBusinessSettings, Upsert, Go
<1>2. /\ "settings" \in PastNotices /\ "settings" \in PastTotals /\ "settings" \in PastDocuments
      /\ "settings" \in PastManual /\ "settings" \in PastSession /\ "settings" \in PastSuppliers
      /\ "settings" \in PastServices /\ "settings" \in PastStock /\ "settings" \in PastProducts
      /\ "settings" \in PastCustomers /\ "settings" \in PastUsers /\ "settings" \in PastPosts
      /\ "settings" \in PastHistory
  BY DEF PastHistory, PastPosts, PastUsers, PastCustomers, PastProducts, PastStock, PastServices,
         PastSuppliers, PastSession, PastManual, SeedDocuments, PastDocuments, PastTotals,
         PastNotices
<1>3. /\ \A k : Inserted(seed, k) = Demo /\ Collected(seed, k) = Demo
      /\ Balance(Moved(seed)) = Cardinality(Received) - Demo - Cardinality(Fitted)
      /\ Balance(Recorded(seed)) = Cardinality(Received) - Demo - Cardinality(Fitted)
  BY <1>1, <1>2, DoneAfter DEF Inserted, Collected
<1>4. \A k \in DocumentKind : DemoCodes \subseteq numbers[k]
  BY <1>3 DEF SeedInv, RunLeaves, DemoCodes
<1>5. NumbersGoOn'
  <2>1. \A k \in DocumentKind : Cardinality(numbers[k]) + 1 \notin numbers[k]
    BY <1>4, CompleteNumbersGoOn DEF SeedInv
  <2>2. QED
    BY <1>1, <2>1 DEF NumbersGoOn
<1>6. ASSUME patient
      PROVE  FreshlySeeded'
  <2>1. PICK all \in Int : all = Cardinality(Received) - Demo - Cardinality(Fitted)
    <3>1. Demo \in Nat /\ Received \cap 1..Demo = Received /\ Fitted \cap 1..Demo = Fitted
      BY SeedingAssumption
    <3>2. Cardinality(Received) \in Nat /\ Cardinality(Fitted) \in Nat
      BY <3>1, CountOfFirst
    <3>3. QED
      BY <3>1, <3>2
  <2>2. shelf = CatalogueStock + all /\ history = shelf + CountedTwice
    <3>1. Counted(seed.at) = CatalogueStock + 1 /\ CatalogueStock \in Int
      BY <1>1, <1>2, SeedingAssumption DEF Counted, CountedTwice
    <3>2. shelf = CatalogueStock + all /\ history = Counted(seed.at) + all
      BY <1>1, <1>2, <1>3, <1>6, <2>1 DEF SeedInv, RunLeaves, ShopWaits
    <3>3. QED
      BY <2>1, <3>1, <3>2 DEF CountedTwice
  <2>3. shelf = CatalogueStock + Cardinality(Received) - Demo - Cardinality(Fitted)
    <3>1. Demo \in Nat /\ Received \cap 1..Demo = Received /\ Fitted \cap 1..Demo = Fitted
      BY SeedingAssumption
    <3>2. /\ Cardinality(Received) \in Nat /\ Cardinality(Fitted) \in Nat
          /\ CatalogueStock \in Nat
      BY <3>1, CountOfFirst, SeedingAssumption
    <3>3. QED
      BY <2>1, <2>2, <3>1, <3>2
  <2>4. /\ \A k \in DocumentKind, n \in DemoCodes :
             <<TRUE, k, n>> \in cash <=> Collects(k, n) /\ n <= Demo
        /\ Manual \in cash
        /\ \A c \in cash : c[1] => c \in DemoCash
    BY <1>1, <1>2, <1>3, <1>6 DEF SeedInv, ShopWaits
  <2>5. {c \in cash : c[1]} = {c \in DemoCash : c = Manual \/ Collects(c[2], c[3])}
    <3>1. \A n \in DemoCodes : n <= Demo /\ n # 0
      BY SeedingAssumption DEF DemoCodes
    <3>2. ASSUME NEW c \in cash, c[1]
          PROVE  c \in DemoCash /\ (c = Manual \/ Collects(c[2], c[3]))
      <4>1. c \in DemoCash
        BY <2>4, <3>2, Zenon
      <4>2. CASE c # Manual
        <5>1. PICK k \in DocumentKind, n \in DemoCodes : c = <<TRUE, k, n>>
          BY <4>1, <4>2, RowsOfDemo
        <5>2. Collects(k, n) /\ c[2] = k /\ c[3] = n
          BY <2>4, <5>1
        <5>3. QED
          BY <4>1, <5>1, <5>2, Zenon
      <4>3. QED
        BY <4>1, <4>2
    <3>3. ASSUME NEW c \in DemoCash, c = Manual \/ Collects(c[2], c[3])
          PROVE  c \in cash /\ c[1]
      <4>1. CASE c = Manual
        <5>1. Manual[1] = TRUE
          BY DEF Manual
        <5>2. QED
          BY <2>4, <4>1, <5>1, Zenon
      <4>2. CASE c # Manual
        <5>1. PICK k \in DocumentKind, n \in DemoCodes : c = <<TRUE, k, n>>
          BY <4>2, RowsOfDemo
        <5>2. c[2] = k /\ c[3] = n /\ c[1] = TRUE
          BY <5>1
        <5>3. Collects(k, n)
          BY <3>3, <4>2, <5>2
        <5>4. c \in cash
          BY <2>4, <3>1, <5>1, <5>3
        <5>5. QED
          BY <5>2, <5>4, Zenon
      <4>3. QED
        BY <4>1, <4>2
    <3>4. QED
      BY <3>2, <3>3, Zenon
  <2>6. totals = {c \in cash : c[1]}
    BY <1>1, <1>2, <1>6 DEF SeedInv, ShopWaits
  <2>7. inDrawer = DemoCodes
    BY <1>1, <1>2, <1>3, <1>6 DEF SeedInv, ShopWaits, DemoCodes
  <2>8. tables' = {"users", "customers", "products", "services", "suppliers", "settings"}
    BY <1>1, <1>2 DEF SeedInv, SeedTyped, RunLeaves
  <2>9. \A p \in DOMAIN posted : posted[p] = 1
    BY <1>1, <1>2 DEF SeedInv, SeedTyped, RunLeaves
  <2>10. {c \in cash' : c[1]} = {c \in cash : c[1]}
    BY <1>1, Zenon
  <2>11. QED
    BY <1>1, <1>4, <2>2, <2>3, <2>5, <2>6, <2>7, <2>8, <2>9, <2>10 DEF FreshlySeeded
<1>7. QED
  BY <1>5, <1>6

\* A run of the script (prisma/seed.ts) that reaches its last statement leaves
\* the next number of every kind of document free, whatever the shop registered
\* meanwhile and wherever earlier runs stopped; and when the shop waited, it
\* leaves exactly the demonstration: its documents, their stock, their cash and
\* the totals of its session, and a kardex that says one unit more than there
\* is of the product whose count it adjusts.
THEOREM SeedingLeavesTheDemonstration == OfficeSpec => SeedingConverges
<1>1. OfficeInit => SeedInv
  BY SeedingInitially
<1>2. SeedInv /\ [OfficeNext]_officeVars => SeedInv'
  BY SeedStays
<1>3. SeedInv /\ SeedInv' /\ [OfficeNext]_officeVars =>
        [SeedingFinishes => NumbersGoOn' /\ (patient => FreshlySeeded')]_officeVars
  <2>1. SUFFICES ASSUME SeedInv, SeedInv', [OfficeNext]_officeVars, Seeding, seed'.at = "finished"
                 PROVE  NumbersGoOn' /\ (patient => FreshlySeeded')
    BY DEF SeedingFinishes
  <2>2. seed \in SeedRecord /\ seed.at # "finished"
    BY <2>1 DEF SeedInv, SeedTyped, Seeding
  <2>3. ~Run /\ seed' # seed
    BY <2>1, <2>2 DEF Run
  <2>4. ~\E k \in DocumentKind, session \in BOOLEAN : Use(k, session)
    BY <2>3 DEF Use
  <2>5. patient' = patient /\ SeedingStep
    BY <2>1, <2>3, <2>4, SeedCases
  <2>6. SeedBusinessSettings
    BY <2>1, <2>5, FinishIsLast DEF SeedInv
  <2>7. QED
    BY <2>1, <2>5, <2>6, SettingsComplete
<1>4. QED
  BY <1>1, <1>2, <1>3, PTL DEF OfficeSpec, SeedingConverges

-----------------------------------------------------------------------------
(* The forms: what becomes of an entry, form by form                         *)

\* The properties of a saved form, as operators of the form, the entry e, the
\* row k it edits and the row w it leaves.
SettledAs(f, e, key, v) ==
    CASE f = "supplier" /\ key \in {"phone", "whatsapp"} -> NormalizePhone(v)
      [] f = "customer" /\ key = "documentType" /\ e.customerType = "COMPANY" -> "RUC"
      [] f = "product" /\ key = "imageUrl" /\ v = "null" -> "/images/x.png"
      [] f = "diagnosis" /\ v = "zero" -> ""
      [] f \in {"quickService", "product"} /\ v = "" /\ key \in {"costPrice", "unitPrice"} -> "zero"
      [] OTHER -> Trim(v)

ReadsAs(f, e, w, key) == Trim(Shown(f, w)[key]) = SettledAs(f, e, key, e[key])

KeptAs(f, e, k, w, key) ==
    /\ k # NoRow
    /\ f \in {"customer", "supplier", "product"} \/ (f = "diagnosis" /\ key = "notes")
    /\ Trim(e[key]) = ""
    /\ w[key] = k[key]

SavedAs(f, e, k, w) ==
    LET displayed == DOMAIN FormOf(f, e, k).inputs \cap DOMAIN w
    IN  /\ \A key \in displayed : ReadsAs(f, e, w, key) \/ KeptAs(f, e, k, w, key)
        /\ \A key \in DOMAIN k \ displayed : w[key] = k[key] \/ ReadsAs(f, e, w, key)

\* The inputs on display hold what they accept.
Accepted(f, e, k) ==
    \A key \in DOMAIN FormOf(f, e, k).inputs : e[key] \in FormOf(f, e, k).inputs[key]

\* What is entered is neither null nor absent.
Entered(e) == \A key \in DOMAIN e : e[key] \notin {"null", "absent"}

LEMMA SavedAsEnteredIs ==
    SavedAsEntered <=> (stage = "saved" /\ form \in RowForm => SavedAs(form, shown, original, edited))
  BY DEF SavedAsEntered, SavedAs, ReadsAs, KeptAs, SettledAs, Settled, Kept

LEMMA OverIs ==
    ASSUME NEW k, NEW d
    PROVE  /\ k = NoRow =>
                /\ DOMAIN Over(k, d) = DOMAIN d
                /\ \A key \in DOMAIN d :
                     Over(k, d)[key] = IF d[key] = "absent" THEN "null" ELSE d[key]
           /\ k # NoRow =>
                /\ DOMAIN Over(k, d) = DOMAIN k
                /\ \A key \in DOMAIN k :
                     Over(k, d)[key] =
                        IF key \in DOMAIN d /\ d[key] # "absent" THEN d[key] ELSE k[key]
  BY DEF Over, ValueOf

LEMMA OverStores ==
    ASSUME NEW k, NEW d, NEW key \in DOMAIN Over(k, d)
    PROVE  /\ key \in DOMAIN d /\ d[key] # "absent" => Over(k, d)[key] = d[key]
           /\ key \in DOMAIN d /\ d[key] = "absent" /\ k = NoRow => Over(k, d)[key] = "null"
           /\ key \notin DOMAIN d \/ d[key] = "absent" =>
                k = NoRow \/ Over(k, d)[key] = k[key]
  BY OverIs

LEMMA NoRowIsEmpty == DOMAIN NoRow = {}
  BY DEF NoRow

\* The forms that save rows, but for the one of the business, which the pipe
\* refuses; and what they show of a key of the row.
SavingForm == RowForm \ {"business"}
ShownOf(f, key, v) ==
    CASE f = "product" /\ key = "imageUrl" -> v
      [] f = "quickService" /\ key = "costPrice" -> NumberOf(v)
      [] f = "diagnosis" /\ v = "zero" -> ""
      [] OTHER -> OrEmpty(v)

LEMMA BlankKeys ==
    /\ "imageUrl" \in DOMAIN Blank["product"] /\ "costPrice" \in DOMAIN Blank["quickService"]
    /\ DOMAIN Blank["diagnosis"] =
         {"technicalDiagnosis", "solutionApplied", "laborCost", "discount", "notes"}
<1>1. /\ Blank["product"] = BlankProduct /\ Blank["quickService"] = BlankQuickService
      /\ Blank["diagnosis"] = BlankDiagnosis
  <2>1. Blank["product"] = BlankProduct
    BY DEF Blank, ++
  <2>2. Blank["quickService"] = BlankQuickService
    BY DEF Blank, ++
  <2>3. Blank["diagnosis"] = BlankDiagnosis
    BY DEF Blank, ++
  <2>4. QED
    BY <2>1, <2>2, <2>3
<1>2. "imageUrl" \in DOMAIN BlankProduct
  BY DEF BlankProduct, ++
<1>3. "costPrice" \in DOMAIN BlankQuickService
  BY DEF BlankQuickService
<1>4. DOMAIN BlankDiagnosis =
         {"technicalDiagnosis", "solutionApplied", "laborCost", "discount", "notes"}
  BY DEF BlankDiagnosis
<1>5. QED
  BY <1>1, <1>2, <1>3, <1>4

LEMMA ShownByKeys ==
    ASSUME NEW f \in SavingForm, NEW k
    PROVE  /\ DOMAIN Shown(f, k) = DOMAIN Blank[f]
           /\ \A key \in DOMAIN Blank[f] \cap DOMAIN k : Shown(f, k)[key] = ShownOf(f, key, k[key])
<1>1. CASE f = "product"
  BY <1>1, BlankKeys DEF Shown, ShownOf, ++
<1>2. CASE f = "quickService"
  BY <1>2, BlankKeys DEF Shown, ShownOf, ++
<1>3. CASE f = "diagnosis"
  BY <1>3 DEF Shown, ShownOf, OrEmpty
<1>4. CASE f \in {"customer", "supplier", "serviceOrder", "serviceCategory", "user", "tax"}
  BY <1>4 DEF Shown, ShownOf
<1>5. QED
  BY <1>1, <1>2, <1>3, <1>4 DEF SavingForm, RowForm

\* The data d that a form stores for the entry e are what was entered: what is
\* absent was cleared, or not on display.
StoresEntry(f, e, k, d) ==
    /\ DOMAIN d \subseteq DOMAIN Blank[f]
    /\ \A key \in DOMAIN d : d[key] # "absent" =>
         Trim(ShownOf(f, key, d[key])) = SettledAs(f, e, key, e[key])
    /\ \A key \in DOMAIN d \cap DOMAIN FormOf(f, e, k).inputs : d[key] = "absent" =>
         IF k = NoRow THEN Trim(ShownOf(f, key, "null")) = SettledAs(f, e, key, e[key])
         ELSE /\ f \in {"customer", "supplier", "product"} \/ (f = "diagnosis" /\ key = "notes")
              /\ Trim(e[key]) = ""

\* So a form saves as entered when the data do, key by key.
LEMMA SavedByKeys ==
    ASSUME NEW f \in SavingForm, NEW e, NEW k, NEW d, NEW w, StoresEntry(f, e, k, d),
           NEW o, o = Over(k, d), DOMAIN o \subseteq DOMAIN w, \A key \in DOMAIN o : w[key] = o[key],
           DOMAIN FormOf(f, e, k).inputs \cap DOMAIN w \subseteq DOMAIN d \cap DOMAIN o
    PROVE  SavedAs(f, e, k, w)
<1>1. /\ \A key \in DOMAIN Blank[f] \cap DOMAIN w : Shown(f, w)[key] = ShownOf(f, key, w[key])
      /\ DOMAIN d \subseteq DOMAIN Blank[f]
  BY ShownByKeys DEF StoresEntry
<1>2. \A key \in DOMAIN o :
        /\ key \in DOMAIN d /\ d[key] # "absent" => w[key] = d[key]
        /\ key \in DOMAIN d /\ d[key] = "absent" /\ k = NoRow => w[key] = "null"
        /\ key \notin DOMAIN d \/ d[key] = "absent" => k = NoRow \/ w[key] = k[key]
  BY OverStores
<1>3. ASSUME NEW key \in DOMAIN FormOf(f, e, k).inputs \cap DOMAIN w
      PROVE  ReadsAs(f, e, w, key) \/ KeptAs(f, e, k, w, key)
  <2>1. key \in DOMAIN d /\ key \in DOMAIN o
    OBVIOUS
  <2>2. CASE d[key] # "absent"
    <3>1. w[key] = d[key]
      BY <1>2, <2>1, <2>2
    <3>2. Shown(f, w)[key] = ShownOf(f, key, d[key])
      BY <1>1, <2>1, <3>1
    <3>3. QED
      BY <2>1, <2>2, <3>2 DEF ReadsAs, StoresEntry
  <2>3. CASE d[key] = "absent" /\ k = NoRow
    BY <1>1, <1>2, <2>1, <2>3 DEF ReadsAs, StoresEntry
  <2>4. CASE d[key] = "absent" /\ k # NoRow
    BY <1>2, <2>1, <2>4 DEF KeptAs, StoresEntry
  <2>5. QED
    BY <2>2, <2>3, <2>4
<1>4. ASSUME NEW key \in DOMAIN k \ (DOMAIN FormOf(f, e, k).inputs \cap DOMAIN w)
      PROVE  w[key] = k[key] \/ ReadsAs(f, e, w, key)
  <2>1. k # NoRow /\ key \in DOMAIN o
    BY OverIs, NoRowIsEmpty
  <2>2. CASE key \in DOMAIN d /\ d[key] # "absent"
    BY <1>1, <1>2, <2>1, <2>2 DEF ReadsAs, StoresEntry
  <2>3. CASE key \notin DOMAIN d \/ d[key] = "absent"
    BY <1>2, <2>1, <2>3
  <2>4. QED
    BY <2>2, <2>3
<1>5. QED
  BY <1>3, <1>4 DEF SavedAs

CustomerKey ==
    {"documentNumber", "firstName", "lastName", "businessName", "tradeName",
     "legalRepresentative", "phone", "email", "address", "businessLine", "notes",
     "customerType", "documentType", "isActive"}

LEMMA BlankCustomerIs ==
    /\ Blank["customer"] = BlankCustomer /\ DOMAIN BlankCustomer = CustomerKey
    /\ Entered(BlankCustomer)
    /\ BlankCustomer.customerType = "NATURAL" /\ BlankCustomer.documentType = "DNI"
<1>1. Blank["customer"] = BlankCustomer
  BY DEF Blank, ++
<1>2. DOMAIN BlankCustomer = CustomerKey
  BY DEF BlankCustomer, ++, CustomerKey
<1>3. BlankCustomer.customerType = "NATURAL" /\ BlankCustomer.documentType = "DNI"
  BY DEF BlankCustomer, ++
<1>4. \A key \in CustomerKey : BlankCustomer[key] \in {"", "NATURAL", "DNI", "true"}
  <2>1. BlankCustomer.isActive = "true"
    BY DEF BlankCustomer, ++
  <2>2. \A key \in CustomerKey \ {"customerType", "documentType", "isActive"} :
          BlankCustomer[key] = ""
    BY DEF BlankCustomer, ++, CustomerKey
  <2>3. QED
    BY <1>3, <2>1, <2>2
<1>5. Entered(BlankCustomer)
  BY <1>2, <1>4 DEF Entered
<1>6. QED
  BY <1>1, <1>2, <1>3, <1>5

LEMMA CustomerSaves ==
    ASSUME NEW e, NEW k, DOMAIN e = CustomerKey, Entered(e), Accepted("customer", e, k)
    PROVE  SavedAs("customer", e, k, StoredCustomer(k, CustomerForm(e, k).body))
<1>1. FormOf("customer", e, k) = CustomerForm(e, k)
  BY DEF FormOf
<1>2. PICK b : b = CustomerForm(e, k).body
  OBVIOUS
<1>3. /\ \A key \in CustomerKey \ {"documentType"} : b[key] = e[key]
      /\ b.documentType = IF e.customerType = "COMPANY" THEN "RUC" ELSE e.documentType
  BY <1>2 DEF CustomerForm, ++, CustomerKey
<1>4. e.customerType \in {"NATURAL", "COMPANY"}
  <2>1. "customerType" \in DOMAIN CustomerForm(e, k).inputs
        /\ CustomerForm(e, k).inputs.customerType = Enum.customerType
    BY DEF CustomerForm, Texts, ++
  <2>2. QED
    BY <1>1, <2>1 DEF Accepted, Enum
<1>5. PICK d : d = NormalizeCustomer(b)
  OBVIOUS
<1>6. /\ DOMAIN d = CustomerKey
      /\ \A key \in {"tradeName", "legalRepresentative", "phone", "email", "address",
                     "businessLine", "notes"} : d[key] = OrAbsent(e[key])
  BY <1>3, <1>5 DEF NormalizeCustomer, ++, CustomerKey
<1>7. /\ \A key \in {"firstName", "lastName"} :
           d[key] = IF e.customerType = "NATURAL" THEN Trim(e[key]) ELSE "absent"
      /\ d.businessName = IF e.customerType = "NATURAL" THEN "absent" ELSE Trim(e.businessName)
  BY <1>3, <1>5 DEF NormalizeCustomer, ++, CustomerKey
<1>8. /\ \A key \in {"customerType", "documentNumber", "isActive"} : d[key] = Trim(e[key])
      /\ d.documentType = IF e.customerType = "COMPANY" THEN "RUC" ELSE Trim(e.documentType)
  BY <1>3, <1>5 DEF NormalizeCustomer, ++, CustomerKey, Trim
<1>9. PICK I : I = DOMAIN FormOf("customer", e, k).inputs
  OBVIOUS
<1>10. /\ I \subseteq CustomerKey
       /\ "businessName" \in I => e.customerType = "COMPANY"
       /\ "firstName" \in I \/ "lastName" \in I => e.customerType # "COMPANY"
  <2>1. I = DOMAIN CustomerForm(e, k).inputs
    BY <1>1, <1>9
  <2>2. QED
    BY <2>1 DEF CustomerForm, Texts, ++, CustomerKey
<1>11. ASSUME NEW key \in CustomerKey
       PROVE  IF d[key] = "absent"
              THEN key # "documentType" /\ (Trim(e[key]) = "" \/ key \notin I)
              ELSE Trim(OrEmpty(d[key])) = SettledAs("customer", e, key, e[key])
  <2>1. e[key] \notin {"null", "absent"}
    BY DEF Entered
  <2>2. CASE key \in {"tradeName", "legalRepresentative", "phone", "email", "address",
                     "businessLine", "notes"}
    BY <1>6, <2>1, <2>2 DEF OrAbsent, OrEmpty, Trim, SettledAs
  <2>3. CASE key \in {"firstName", "lastName"}
    BY <1>4, <1>7, <1>10, <2>1, <2>3 DEF OrEmpty, Trim, SettledAs
  <2>4. CASE key = "businessName"
    BY <1>4, <1>7, <1>10, <2>1, <2>4 DEF OrEmpty, Trim, SettledAs
  <2>5. CASE key \in {"customerType", "documentNumber", "isActive"}
    BY <1>8, <2>1, <2>5 DEF OrEmpty, Trim, SettledAs
  <2>6. CASE key = "documentType"
    BY <1>8, <2>1, <2>6 DEF OrEmpty, Trim, SettledAs
  <2>7. QED
    BY <2>2, <2>3, <2>4, <2>5, <2>6 DEF CustomerKey
<1>12. \A key, v : ShownOf("customer", key, v) = OrEmpty(v)
  BY DEF ShownOf
<1>13. \A key \in CustomerKey : key # "documentType" =>
         SettledAs("customer", e, key, e[key]) = Trim(e[key])
  BY DEF SettledAs
<1>14. Trim(OrEmpty("null")) = ""
  BY DEF Trim, OrEmpty
<1>15. StoresEntry("customer", e, k, d)
  BY <1>6, <1>9, <1>11, <1>12, <1>13, <1>14, BlankCustomerIs DEF StoresEntry
<1>16. DOMAIN FormOf("customer", e, k).inputs \cap DOMAIN Over(k, d) \subseteq DOMAIN d
  BY <1>6, <1>9, <1>10
<1>17. SavedAs("customer", e, k, Over(k, d))
  BY <1>15, <1>16, SavedByKeys DEF SavingForm, RowForm
<1>18. QED
  BY <1>2, <1>5, <1>17 DEF StoredCustomer

SupplierKey == SupplierText \cup {"name", "ruc", "phone", "whatsapp", "email"}

LEMMA BlankSupplierIs == DOMAIN Blank["supplier"] = SupplierKey
<1>1. Blank["supplier"] = BlankSupplier
  BY DEF Blank, ++
<1>2. QED
  BY <1>1 DEF BlankSupplier, SupplierKey

LEMMA SupplierSaves ==
    ASSUME NEW e, NEW k, DOMAIN e = SupplierKey, Accepted("supplier", e, k)
    PROVE  SavedAs("supplier", e, k, Over(k, SupplierForm(e, k).body))
<1>1. FormOf("supplier", e, k) = SupplierForm(e, k)
  BY DEF FormOf
<1>2. PICK s : s = [e EXCEPT !.phone = NormalizePhone(e.phone),
                             !.whatsapp = NormalizePhone(e.whatsapp)]
  OBVIOUS
<1>3. PICK d : d = SupplierForm(e, k).body
  OBVIOUS
<1>4. d = CleanPayload(s)
  BY <1>2, <1>3 DEF SupplierForm
<1>5. /\ DOMAIN d = SupplierKey
      /\ \A key \in SupplierKey :
           d[key] = LET v == IF key \in {"phone", "whatsapp"} THEN NormalizePhone(e[key]) ELSE e[key]
                    IN  IF v = "" THEN "absent" ELSE v
  BY <1>2, <1>4 DEF CleanPayload, SupplierKey
<1>6. PICK i : i = SupplierForm(e, k).inputs
  OBVIOUS
<1>7. /\ DOMAIN i = SupplierKey
      /\ \A key \in SupplierText : i[key] = TextInput
      /\ i.name = {" ", "x", "HP"} /\ i.ruc = {"", "12345678", "10456789012"}
      /\ i.phone = PhoneInput /\ i.whatsapp = PhoneInput
      /\ i.email = {"", "ana@site", "a@b.c", "ana@site.pe"}
  BY <1>6 DEF SupplierForm, Texts, ++, SupplierText, SupplierKey
<1>8. ASSUME NEW key \in SupplierKey
      PROVE  e[key] \notin {"null", "absent"}
  <2>1. e[key] \in i[key]
    BY <1>1, <1>6, <1>7 DEF Accepted
  <2>2. CASE key \in SupplierText
    <3>1. e[key] \in TextInput
      BY <1>7, <2>1, <2>2
    <3>2. QED
      BY <3>1 DEF TextInput
  <2>3. CASE key \in {"phone", "whatsapp"}
    <3>1. e[key] \in PhoneInput
      BY <1>7, <2>1, <2>3
    <3>2. QED
      BY <3>1 DEF PhoneInput
  <2>4. CASE key \in {"name", "ruc", "email"}
    BY <1>7, <2>1, <2>4
  <2>5. QED
    BY <2>2, <2>3, <2>4 DEF SupplierKey
<1>9. StoresEntry("supplier", e, k, d)
  <2>1. ASSUME NEW key \in SupplierKey
        PROVE  IF d[key] = "absent"
               THEN Trim(e[key]) = "" /\ SettledAs("supplier", e, key, e[key]) = ""
               ELSE Trim(OrEmpty(d[key])) = SettledAs("supplier", e, key, e[key])
    BY <1>5, <1>8 DEF NormalizePhone, OrEmpty, Trim, SettledAs
  <2>2. \A key, v : ShownOf("supplier", key, v) = OrEmpty(v)
    BY DEF ShownOf
  <2>3. Trim(OrEmpty("null")) = ""
    BY DEF Trim, OrEmpty
  <2>4. QED
    BY <1>5, <2>1, <2>2, <2>3, BlankSupplierIs DEF StoresEntry
<1>10. DOMAIN FormOf("supplier", e, k).inputs \subseteq DOMAIN d
  BY <1>1, <1>5, <1>6, <1>7
<1>11. SavedAs("supplier", e, k, Over(k, d))
  BY <1>9, <1>10, SavedByKeys DEF SavingForm, RowForm
<1>12. QED
  BY <1>3, <1>11

LEMMA ServiceCategorySaves ==
    ASSUME NEW e, NEW k, Accepted("serviceCategory", e, k)
    PROVE  SavedAs("serviceCategory", e, k, Over(k, ServiceCategoryForm(e, k).body))
<1>1. FormOf("serviceCategory", e, k) = ServiceCategoryForm(e, k)
  BY DEF FormOf
<1>2. /\ DOMAIN ServiceCategoryForm(e, k).inputs = {"name"} /\ e.name \in TextInput
      /\ DOMAIN Blank["serviceCategory"] = {"name"}
  <2>1. DOMAIN Blank["serviceCategory"] = {"name"}
    BY DEF Blank, Blanks, ++
  <2>2. PICK i : i = ServiceCategoryForm(e, k).inputs
    OBVIOUS
  <2>3. DOMAIN i = {"name"} /\ i.name = TextInput
    BY <2>2 DEF ServiceCategoryForm
  <2>4. e.name \in i.name
    BY <1>1, <2>2, <2>3 DEF Accepted
  <2>5. QED
    BY <2>1, <2>2, <2>3, <2>4
<1>3. PICK d : d = ServiceCategoryForm(e, k).body
  OBVIOUS
<1>4. DOMAIN d = {"name"} /\ d.name = Trim(e.name)
  BY <1>3 DEF ServiceCategoryForm
<1>5. StoresEntry("serviceCategory", e, k, d)
  BY <1>2, <1>4 DEF StoresEntry, ShownOf, SettledAs, OrEmpty, Trim, TextInput
<1>6. SavedAs("serviceCategory", e, k, Over(k, d))
  BY <1>1, <1>2, <1>4, <1>5, SavedByKeys DEF SavingForm, RowForm
<1>7. QED
  BY <1>3, <1>6

UserKey == {"fullName", "email", "roleId", "password"}

LEMMA UserSaves ==
    ASSUME NEW e, NEW k, DOMAIN e = UserKey, Accepted("user", e, k)
    PROVE  SavedAs("user", e, k, StoredUser(k, UserForm(e, k).body))
<1>1. FormOf("user", e, k) = UserForm(e, k)
  BY DEF FormOf
<1>2. DOMAIN Blank["user"] = UserKey
  <2>1. Blank["user"] = BlankUser
    BY DEF Blank, ++
  <2>2. QED
    BY <2>1 DEF BlankUser, UserKey
<1>3. PICK d : d = Omit(UserForm(e, k).body, "password")
  OBVIOUS
<1>4. DOMAIN d = {"fullName", "email", "roleId"} /\ \A key \in DOMAIN d : d[key] = e[key]
  BY <1>3 DEF UserForm, Omit, Restrict, UserKey
<1>5. PICK i : i = UserForm(e, k).inputs
  OBVIOUS
<1>6. /\ {"fullName", "email", "roleId"} \subseteq DOMAIN i
      /\ DOMAIN i \subseteq UserKey
      /\ k # NoRow => DOMAIN i = {"fullName", "email", "roleId"}
      /\ i.fullName = RequiredInput \cup {"x"} /\ i.email = EmailInput \ {""}
      /\ i.roleId = {"uuid"}
  BY <1>5 DEF UserForm, ++, UserKey, NoRow
<1>7. \A key \in DOMAIN d : e[key] \notin {"null", "absent"}
  <2>1. \A key \in DOMAIN d : e[key] \in i[key]
    BY <1>1, <1>4, <1>5, <1>6 DEF Accepted
  <2>2. QED
    BY <1>4, <1>6, <2>1 DEF RequiredInput, TextInput, EmailInput
<1>8. StoresEntry("user", e, k, d)
  <2>1. \A key \in DOMAIN d : d[key] # "absent" /\ OrEmpty(d[key]) = e[key]
    BY <1>4, <1>7 DEF OrEmpty
  <2>2. \A key, v : ShownOf("user", key, v) = OrEmpty(v) /\ SettledAs("user", e, key, v) = Trim(v)
    BY DEF ShownOf, SettledAs
  <2>3. DOMAIN d \subseteq UserKey
    BY <1>4 DEF UserKey
  <2>4. QED
    BY <1>2, <2>1, <2>2, <2>3 DEF StoresEntry
<1>9. DOMAIN FormOf("user", e, k).inputs \cap DOMAIN Over(k, d) \subseteq DOMAIN d
  <2>1. CASE k = NoRow
    BY <2>1, OverIs
  <2>2. CASE k # NoRow
    BY <1>1, <1>4, <1>5, <1>6, <2>2
  <2>3. QED
    BY <2>1, <2>2
<1>10. SavedAs("user", e, k, Over(k, d))
  BY <1>8, <1>9, SavedByKeys DEF SavingForm, RowForm
<1>11. QED
  BY <1>3, <1>10 DEF StoredUser

LEMMA BlankTaxIs == DOMAIN Blank["tax"] = {"applyIgv", "taxPercentage"}
  BY ZenonT(60) DEF Blank, ++

LEMMA TaxSaves ==
    ASSUME NEW e, NEW k, DOMAIN e = {"applyIgv", "taxPercentage"}, Entered(e)
    PROVE  SavedAs("tax", e, k, Over(k, TaxForm(e, k).body))
<1>1. FormOf("tax", e, k) = TaxForm(e, k)
  BY DEF FormOf
<1>2. DOMAIN Blank["tax"] = DOMAIN e
  BY BlankTaxIs
<1>3. TaxForm(e, k).body = e /\ DOMAIN TaxForm(e, k).inputs = DOMAIN e
  BY DEF TaxForm
<1>4. StoresEntry("tax", e, k, e)
  <2>1. \A key \in DOMAIN e : e[key] # "absent" /\ OrEmpty(e[key]) = e[key]
    BY DEF Entered, OrEmpty
  <2>2. \A key, v : ShownOf("tax", key, v) = OrEmpty(v) /\ SettledAs("tax", e, key, v) = Trim(v)
    BY DEF ShownOf, SettledAs
  <2>3. QED
    BY <1>2, <2>1, <2>2 DEF StoresEntry
<1>5. SavedAs("tax", e, k, Over(k, e))
  BY <1>1, <1>3, <1>4, SavedByKeys DEF SavingForm, RowForm
<1>6. QED
  BY <1>3, <1>5

QuickServiceKey == {"name", "categoryId", "unit", "unitPrice", "costPrice", "description"}

LEMMA QuickServiceSaves ==
    ASSUME NEW e, NEW k, DOMAIN e = QuickServiceKey, Entered(e), Accepted("quickService", e, k)
    PROVE  SavedAs("quickService", e, k, Over(k, QuickServiceForm(e, k).body))
<1>1. FormOf("quickService", e, k) = QuickServiceForm(e, k)
  BY DEF FormOf
<1>2. DOMAIN Blank["quickService"] = QuickServiceKey
  <2>1. Blank["quickService"] = BlankQuickService
    BY DEF Blank, ++
  <2>2. QED
    BY <2>1 DEF BlankQuickService, QuickServiceKey
<1>3. PICK cost : cost = NumberOf(e.costPrice)
  OBVIOUS
<1>4. PICK d : d = QuickServiceForm(e, k).body
  OBVIOUS
<1>5. /\ DOMAIN d = QuickServiceKey
      /\ d.name = Trim(e.name) /\ d.unit = e.unit /\ d.unitPrice = e.unitPrice
      /\ d.categoryId = e.categoryId
      /\ d.costPrice = (IF k = NoRow /\ cost = "zero" THEN "absent" ELSE cost)
      /\ d.description = (IF k = NoRow THEN OrAbsent(e.description) ELSE e.description)
  BY <1>3, <1>4 DEF QuickServiceForm, QuickServiceKey
<1>6. PICK i : i = QuickServiceForm(e, k).inputs
  OBVIOUS
<1>7. /\ DOMAIN i = {"name", "unit", "unitPrice", "costPrice", "categoryId"}
      /\ i.unitPrice = AmountInput \ {""} /\ i.costPrice = AmountInput \ {""}
  BY <1>6 DEF QuickServiceForm, Texts, ++
<1>8. e.unitPrice \in {"zero", "half", "one"} /\ e.costPrice \in {"zero", "half", "one"}
  <2>1. e.unitPrice \in i.unitPrice /\ e.costPrice \in i.costPrice
    BY <1>1, <1>6, <1>7 DEF Accepted
  <2>2. QED
    BY <1>7, <2>1 DEF AmountInput
<1>9. {"zero", "half", "one"} \subseteq Number /\ "null" \notin Number
  BY DEF Number, Twice
<1>10. cost = e.costPrice
  BY <1>3, <1>8, <1>9 DEF NumberOf
<1>11. ASSUME NEW key \in QuickServiceKey
       PROVE  /\ d[key] # "absent" =>
                   Trim(ShownOf("quickService", key, d[key])) =
                     SettledAs("quickService", e, key, e[key])
              /\ d[key] = "absent" /\ key # "description" =>
                   /\ k = NoRow
                   /\ Trim(ShownOf("quickService", key, "null")) =
                        SettledAs("quickService", e, key, e[key])
  <2>1. e[key] \notin {"null", "absent"}
    BY DEF Entered
  <2>2. CASE key = "costPrice"
    BY <1>5, <1>8, <1>9, <1>10, <2>2 DEF ShownOf, SettledAs, NumberOf, Trim
  <2>3. CASE key = "unitPrice"
    BY <1>5, <1>8, <2>3 DEF ShownOf, SettledAs, OrEmpty, Trim
  <2>4. CASE key \in {"name", "unit", "categoryId"}
    BY <1>5, <2>1, <2>4 DEF ShownOf, SettledAs, OrEmpty, Trim
  <2>5. CASE key = "description"
    BY <1>5, <2>1, <2>5 DEF ShownOf, SettledAs, OrEmpty, OrAbsent, Trim
  <2>6. QED
    BY <2>2, <2>3, <2>4, <2>5 DEF QuickServiceKey
<1>12. StoresEntry("quickService", e, k, d)
  BY <1>1, <1>2, <1>5, <1>6, <1>7, <1>11 DEF StoresEntry
<1>13. DOMAIN FormOf("quickService", e, k).inputs \subseteq DOMAIN d
  BY <1>1, <1>5, <1>6, <1>7 DEF QuickServiceKey
<1>14. SavedAs("quickService", e, k, Over(k, d))
  BY <1>12, <1>13, SavedByKeys DEF SavingForm, RowForm
<1>15. QED
  BY <1>4, <1>14

DiagnosisKey == {"technicalDiagnosis", "solutionApplied", "laborCost", "discount", "notes"}

LEMMA DiagnosisSaves ==
    ASSUME NEW e, NEW k, Accepted("diagnosis", e, k)
    PROVE  SavedAs("diagnosis", e, k, Over(k, TechnicalDiagnosisForm(e, k).body))
<1>1. FormOf("diagnosis", e, k) = TechnicalDiagnosisForm(e, k)
  BY DEF FormOf
<1>2. PICK d : d = TechnicalDiagnosisForm(e, k).body
  OBVIOUS
<1>3. /\ DOMAIN d = DiagnosisKey
      /\ d.technicalDiagnosis = Trim(e.technicalDiagnosis)
      /\ d.solutionApplied = Trim(e.solutionApplied)
      /\ d.laborCost = NumberOf(e.laborCost) /\ d.discount = NumberOf(e.discount)
      /\ d.notes = OrAbsent(e.notes)
  BY <1>2 DEF TechnicalDiagnosisForm, DiagnosisKey
<1>4. PICK i : i = TechnicalDiagnosisForm(e, k).inputs
  OBVIOUS
<1>5. /\ DOMAIN i = DiagnosisKey
      /\ \A key \in {"technicalDiagnosis", "solutionApplied", "notes"} : i[key] = TextInput
      /\ \A key \in {"laborCost", "discount"} : i[key] = AmountInput
  BY <1>4 DEF TechnicalDiagnosisForm, Texts, ++, DiagnosisKey
<1>6. /\ \A key \in {"technicalDiagnosis", "solutionApplied", "notes"} :
           e[key] \in {"", " ", "Lenovo"}
      /\ \A key \in {"laborCost", "discount"} : e[key] \in {"", "zero", "half", "one"}
  <2>1. \A key \in DiagnosisKey : e[key] \in i[key]
    BY <1>1, <1>4, <1>5 DEF Accepted
  <2>2. QED
    BY <1>5, <2>1 DEF DiagnosisKey, TextInput, AmountInput
<1>7. {"zero", "half", "one"} \subseteq Number /\ "" \notin Number
  BY DEF Number, Twice
<1>8. ASSUME NEW key \in DiagnosisKey
      PROVE  IF d[key] = "absent"
             THEN /\ key = "notes" /\ Trim(e[key]) = ""
                  /\ Trim(ShownOf("diagnosis", key, "null")) = SettledAs("diagnosis", e, key, e[key])
             ELSE Trim(ShownOf("diagnosis", key, d[key])) = SettledAs("diagnosis", e, key, e[key])
  <2>1. CASE key \in {"technicalDiagnosis", "solutionApplied"}
    BY <1>3, <1>6, <2>1 DEF ShownOf, SettledAs, OrEmpty, Trim
  <2>2. CASE key \in {"laborCost", "discount"}
    <3>1. d[key] = NumberOf(e[key]) /\ e[key] \in {"", "zero", "half", "one"}
      BY <1>3, <1>6, <2>2
    <3>2. QED
      BY <1>7, <2>2, <3>1 DEF ShownOf, SettledAs, OrEmpty, Trim, NumberOf
  <2>3. CASE key = "notes"
    BY <1>3, <1>6, <2>3 DEF ShownOf, SettledAs, OrEmpty, OrAbsent, Trim
  <2>4. QED
    BY <2>1, <2>2, <2>3 DEF DiagnosisKey
<1>9. StoresEntry("diagnosis", e, k, d)
  BY <1>3, <1>8, BlankKeys DEF StoresEntry, DiagnosisKey
<1>10. DOMAIN FormOf("diagnosis", e, k).inputs \subseteq DOMAIN d
  BY <1>1, <1>3, <1>4, <1>5
<1>11. SavedAs("diagnosis", e, k, Over(k, d))
  BY <1>9, <1>10, SavedByKeys DEF SavingForm, RowForm
<1>12. QED
  BY <1>2, <1>11

ProductKey ==
    ProductText \cup {"name", "sku", "unit", "imageUrl", "technicalSpecs", "categoryId",
                      "purchasePrice", "salePrice", "stock", "minStock"}

LEMMA BlankProductIs == DOMAIN Blank["product"] = ProductKey
<1>1. Blank["product"] = BlankProduct
  BY DEF Blank, ++
<1>2. QED
  BY <1>1 DEF BlankProduct, ++, ProductText, ProductKey

LEMMA ProductSaves ==
    ASSUME NEW e, DOMAIN e = ProductKey, Accepted("product", e, NoRow)
    PROVE  SavedAs("product", e, NoRow, StoredProduct(NoRow, ProductForm(e, NoRow).body))
<1>1. FormOf("product", e, NoRow) = ProductForm(e, NoRow)
  BY DEF FormOf
<1>2. PICK b : b = ProductForm(e, NoRow).body
  OBVIOUS
<1>3. /\ DOMAIN b = ProductKey
      /\ \A key \in ProductText : b[key] = OrAbsent(e[key])
      /\ \A key \in {"name", "sku", "unit", "technicalSpecs", "categoryId"} : b[key] = e[key]
      /\ b.imageUrl = IF e.imageUrl = "null" THEN "/images/x.png" ELSE e.imageUrl
      /\ \A key \in {"stock", "minStock"} : b[key] = Floor(NumberOf(e[key]))
      /\ \A key \in {"purchasePrice", "salePrice"} : b[key] = NumberOf(e[key])
  BY <1>2 DEF ProductForm, ProductKey, ProductText
<1>4. PICK d : d = [key \in DOMAIN b |-> IF key \in ProductText \cup {"name", "sku", "unit"}
                                         THEN OrAbsent(b[key]) ELSE b[key]]
  OBVIOUS
<1>5. DOMAIN d = ProductKey /\ \A key \in ProductKey :
        d[key] = IF key \in ProductText \cup {"name", "sku", "unit"}
                 THEN OrAbsent(b[key]) ELSE b[key]
  BY <1>3, <1>4
<1>6. PICK i : i = ProductForm(e, NoRow).inputs
  OBVIOUS
<1>7. /\ DOMAIN i = ProductKey
      /\ \A key \in ProductText : i[key] = TextInput
      /\ \A key \in {"name", "sku", "unit"} : i[key] = RequiredInput
      /\ \A key \in {"purchasePrice", "salePrice"} : i[key] = AmountInput \ {""}
      /\ i.imageUrl = Picture \cup {"null"} /\ i.technicalSpecs = {"{}"} /\ i.categoryId = Key
      /\ i.minStock = {"zero", "one"} /\ i.stock = {"zero", "one"}
  BY <1>6 DEF ProductForm, Texts, ++, ProductText, ProductKey, NoRow
<1>8. \A key \in ProductKey : e[key] \in i[key]
  BY <1>1, <1>6, <1>7 DEF Accepted
<1>9. {"zero", "half", "one"} \subseteq Number
  BY DEF Number, Twice
<1>10. ASSUME NEW key \in ProductKey
       PROVE  IF d[key] = "absent"
              THEN Trim(ShownOf("product", key, "null")) = SettledAs("product", e, key, e[key])
              ELSE Trim(ShownOf("product", key, d[key])) = SettledAs("product", e, key, e[key])
  <2>1. CASE key \in ProductText
    <3>1. e[key] \in {"", " ", "Lenovo"}
      BY <1>7, <1>8, <2>1 DEF TextInput
    <3>2. d[key] = OrAbsent(OrAbsent(e[key]))
      BY <1>3, <1>5, <2>1
    <3>3. key # "imageUrl" /\ key \notin {"costPrice", "unitPrice"}
      BY <2>1 DEF ProductText
    <3>4. QED
      BY <3>1, <3>2, <3>3 DEF OrAbsent, OrEmpty, Trim, ShownOf, SettledAs
  <2>2. CASE key \in {"name", "sku", "unit"}
    <3>1. e[key] \in {" ", "Lenovo"}
      BY <1>7, <1>8, <2>2 DEF RequiredInput, TextInput
    <3>2. d[key] = OrAbsent(e[key])
      BY <1>3, <1>5, <2>2
    <3>3. QED
      BY <2>2, <3>1, <3>2 DEF OrAbsent, OrEmpty, Trim, ShownOf, SettledAs
  <2>3. CASE key \in {"purchasePrice", "salePrice", "stock", "minStock"}
    <3>1. e[key] \in {"zero", "half", "one"}
      BY <1>7, <1>8, <2>3 DEF AmountInput
    <3>2. key \in {"stock", "minStock"} => e[key] # "half"
      BY <1>7, <1>8
    <3>3. d[key] = e[key]
      BY <1>3, <1>5, <1>9, <2>3, <3>1, <3>2 DEF NumberOf, Floor, ProductText
    <3>4. QED
      BY <2>3, <3>1, <3>3 DEF OrEmpty, Trim, ShownOf, SettledAs
  <2>4. CASE key = "imageUrl"
    <3>1. e.imageUrl \in {"/images/x.png", "null"}
      BY <1>7, <1>8, <2>4 DEF Picture
    <3>2. d.imageUrl = "/images/x.png"
      BY <1>3, <1>5, <2>4, <3>1 DEF ProductText
    <3>3. QED
      BY <2>4, <3>1, <3>2 DEF Trim, ShownOf, SettledAs
  <2>5. CASE key \in {"technicalSpecs", "categoryId"}
    <3>1. e[key] \in {"{}", "id", "uuid"}
      BY <1>7, <1>8, <2>5 DEF Key
    <3>2. d[key] = e[key]
      BY <1>3, <1>5, <2>5 DEF ProductText
    <3>3. QED
      BY <2>5, <3>1, <3>2 DEF OrEmpty, Trim, ShownOf, SettledAs
  <2>6. QED
    BY <2>1, <2>2, <2>3, <2>4, <2>5 DEF ProductKey
<1>11. StoresEntry("product", e, NoRow, d)
  BY <1>5, <1>10, BlankProductIs DEF StoresEntry
<1>12. PICK o : o = Over(NoRow, d)
  OBVIOUS
<1>13. DOMAIN o = DOMAIN d
  BY <1>12, OverIs
<1>14. DOMAIN FormOf("product", e, NoRow).inputs \subseteq DOMAIN d
  BY <1>1, <1>5, <1>6, <1>7
<1>15. SavedAs("product", e, NoRow, o)
  BY <1>11, <1>12, <1>13, <1>14, SavedByKeys DEF SavingForm, RowForm
<1>16. QED
  BY <1>2, <1>4, <1>12, <1>15 DEF StoredProduct

OrderKey ==
    OrderText \cup {"customerId", "reportedIssue", "estimatedDeliveryDate", "notes", "photos"}

LEMMA BlankOrderIs ==
    /\ Blank["serviceOrder"] = BlankOrder /\ DOMAIN BlankOrder = OrderKey /\ Entered(BlankOrder)
<1>1. Blank["serviceOrder"] = BlankOrder
  BY DEF Blank, ++
<1>2. DOMAIN BlankOrder = OrderKey
  BY DEF BlankOrder, ++, OrderKey
<1>3. \A key \in OrderKey : BlankOrder[key] \in {"", "[]"}
  <2>1. BlankOrder.photos = "[]"
    BY DEF BlankOrder, ++, OrderText
  <2>2. \A key \in OrderKey \ {"photos"} : BlankOrder[key] = ""
    BY DEF BlankOrder, ++, OrderKey, OrderText
  <2>3. QED
    BY <2>1, <2>2
<1>4. QED
  BY <1>1, <1>2, <1>3 DEF Entered

LEMMA ServiceOrderSaves ==
    ASSUME NEW e, DOMAIN e = OrderKey, Entered(e), Accepted("serviceOrder", e, NoRow)
    PROVE  SavedAs("serviceOrder", e, NoRow, StoredOrder(NoRow, ServiceOrderForm(e, NoRow).body))
<1>1. FormOf("serviceOrder", e, NoRow) = ServiceOrderForm(e, NoRow)
  BY DEF FormOf
<1>2. PICK b : b = ServiceOrderForm(e, NoRow).body
  OBVIOUS
<1>3. DOMAIN b = OrderKey /\ \A key \in OrderKey : b[key] = IF e[key] = "" THEN "absent" ELSE e[key]
  <2>1. b = CleanPayload(e)
    BY <1>2 DEF ServiceOrderForm
  <2>2. QED
    BY <2>1 DEF CleanPayload
<1>4. PICK d : d = [key \in DOMAIN b |-> OrAbsent(b[key])]
  OBVIOUS
<1>5. DOMAIN d = OrderKey /\ \A key \in OrderKey : d[key] = OrAbsent(b[key])
  BY <1>3, <1>4
<1>6. DOMAIN ServiceOrderForm(e, NoRow).inputs \subseteq OrderKey
  <2>1. PICK i : i = ServiceOrderForm(e, NoRow).inputs
    OBVIOUS
  <2>2. DOMAIN i = OrderKey \ {"notes"}
    BY <2>1 DEF ServiceOrderForm, Texts, ++, OrderKey, OrderText
  <2>3. QED
    BY <2>1, <2>2
<1>7. ASSUME NEW key \in OrderKey
      PROVE  IF d[key] = "absent"
             THEN Trim(OrEmpty("null")) = Trim(e[key])
             ELSE Trim(OrEmpty(d[key])) = Trim(e[key])
  <2>1. e[key] \notin {"null", "absent"}
    BY DEF Entered
  <2>2. QED
    BY <1>3, <1>5, <2>1 DEF OrAbsent, OrEmpty, Trim
<1>8. \A key, v : /\ ShownOf("serviceOrder", key, v) = OrEmpty(v)
                  /\ SettledAs("serviceOrder", e, key, v) = Trim(v)
  BY DEF ShownOf, SettledAs
<1>9. StoresEntry("serviceOrder", e, NoRow, d)
  BY <1>5, <1>7, <1>8, BlankOrderIs DEF StoresEntry
<1>10. PICK o : o = Over(NoRow, d)
  OBVIOUS
<1>11. DOMAIN o = DOMAIN d
  BY <1>10, OverIs
<1>12. PICK w : w = StoredOrder(NoRow, b)
  OBVIOUS
<1>13. DOMAIN o \subseteq DOMAIN w /\ \A key \in DOMAIN o : w[key] = o[key]
  BY <1>4, <1>10, <1>12 DEF StoredOrder, ++
<1>14. DOMAIN FormOf("serviceOrder", e, NoRow).inputs \subseteq DOMAIN d
  BY <1>1, <1>5, <1>6
<1>15. SavedAs("serviceOrder", e, NoRow, w)
  BY <1>9, <1>10, <1>11, <1>13, <1>14, SavedByKeys DEF SavingForm, RowForm
<1>16. QED
  BY <1>2, <1>12, <1>15

-----------------------------------------------------------------------------
(* The forms: what a history keeps                                           *)

\* The forms with the keys of a blank one, those whose inputs are never null,
\* and rows that hold a value wherever they have a key.
FixedForm == {"customer", "supplier", "product", "serviceOrder", "quickService", "user", "tax"}
EnteringForm == {"customer", "serviceOrder", "quickService", "tax"}
NoneAbsent(k) == \A key \in DOMAIN k : k[key] # "absent"
HasId(k) == "id" \in DOMAIN k /\ k["id"] = "id"

LEMMA BlankFormsAre ==
    /\ RowForm \subseteq DOMAIN Blank /\ "adjustStock" \in DOMAIN Blank
    /\ DOMAIN Blank["user"] = UserKey /\ DOMAIN Blank["quickService"] = QuickServiceKey
    /\ DOMAIN Blank["tax"] = {"applyIgv", "taxPercentage"}
    /\ Entered(Blank["quickService"]) /\ Entered(Blank["tax"])
    /\ NoneAbsent(Blank["tax"]) /\ NoneAbsent(Blank["business"])
    /\ HasId(Blank["business"])
<1>1. RowForm \subseteq DOMAIN Blank /\ "adjustStock" \in DOMAIN Blank
  <2>1. "customer" \in DOMAIN Blank
    BY DEF Blank, ++
  <2>2. "supplier" \in DOMAIN Blank
    BY DEF Blank, ++
  <2>3. "product" \in DOMAIN Blank
    BY DEF Blank, ++
  <2>4. "serviceOrder" \in DOMAIN Blank
    BY DEF Blank, ++
  <2>5. "diagnosis" \in DOMAIN Blank
    BY DEF Blank, ++
  <2>6. "serviceCategory" \in DOMAIN Blank
    BY DEF Blank, ++
  <2>7. "quickService" \in DOMAIN Blank
    BY DEF Blank, ++
  <2>8. "user" \in DOMAIN Blank
    BY DEF Blank, ++
  <2>9. "tax" \in DOMAIN Blank
    BY DEF Blank, ++
  <2>10. "business" \in DOMAIN Blank
    BY DEF Blank, ++
  <2>11. "adjustStock" \in DOMAIN Blank
    BY DEF Blank, ++
  <2>12. QED
    BY <2>1, <2>2, <2>3, <2>4, <2>5, <2>6, <2>7, <2>8, <2>9, <2>10, <2>11 DEF RowForm
<1>2. DOMAIN Blank["user"] = UserKey
  <2>1. Blank["user"] = BlankUser
    BY DEF Blank, ++
  <2>2. QED
    BY <2>1 DEF BlankUser, UserKey
<1>3. DOMAIN Blank["quickService"] = QuickServiceKey /\ Entered(Blank["quickService"])
  <2>1. Blank["quickService"] = BlankQuickService
    BY DEF Blank, ++
  <2>2. DOMAIN BlankQuickService = QuickServiceKey
    BY DEF BlankQuickService, QuickServiceKey
  <2>3. /\ \A key \in {"name", "categoryId", "description"} : BlankQuickService[key] = ""
        /\ BlankQuickService.unit = "Lenovo" /\ BlankQuickService.unitPrice = "zero"
        /\ BlankQuickService.costPrice = "zero"
    BY DEF BlankQuickService
  <2>4. \A key \in QuickServiceKey : BlankQuickService[key] \in {"", "Lenovo", "zero"}
    BY <2>3 DEF QuickServiceKey
  <2>5. QED
    BY <2>1, <2>2, <2>4 DEF Entered
<1>4. DOMAIN Blank["tax"] = {"applyIgv", "taxPercentage"} /\ Entered(Blank["tax"])
  <2>1. DOMAIN Blank["tax"] = {"applyIgv", "taxPercentage"}
    BY BlankTaxIs
  <2>2. Blank["tax"]["applyIgv"] = "false"
    BY DEF Blank, ++
  <2>3. Blank["tax"]["taxPercentage"] = "ten"
    BY DEF Blank, ++
  <2>4. QED
    BY <2>1, <2>2, <2>3 DEF Entered
<1>5. NoneAbsent(Blank["tax"])
  BY <1>4 DEF Entered, NoneAbsent
<1>6. NoneAbsent(Blank["business"]) /\ HasId(Blank["business"])
  <2>1. Blank["business"] = BusinessRow
    BY DEF Blank, ++
  <2>2. "id" \in DOMAIN BusinessRow /\ BusinessRow["id"] = "id"
    BY DEF BusinessRow, ++
  <2>3. \A key \in DOMAIN BusinessRow : BusinessRow[key] # "absent"
    BY DEF BusinessRow, ++
  <2>4. QED
    BY <2>1, <2>2, <2>3 DEF NoneAbsent, HasId
<1>7. QED
  BY <1>1, <1>2, <1>3, <1>4, <1>5, <1>6

LEMMA BlankIsEntered == \A f \in EnteringForm : Entered(Blank[f])
  BY BlankFormsAre, BlankCustomerIs, BlankOrderIs DEF EnteringForm

\* A form never displays an input for a key that it does not have.
LEMMA InputsAreKeys ==
    ASSUME NEW f \in FixedForm, NEW e, NEW k
    PROVE  DOMAIN FormOf(f, e, k).inputs \subseteq DOMAIN Blank[f]
<1>1. CASE f = "customer"
  <2>1. PICK i : i = CustomerForm(e, k).inputs
    OBVIOUS
  <2>2. DOMAIN i \subseteq CustomerKey
    BY <2>1 DEF CustomerForm, Texts, ++, CustomerKey
  <2>3. QED
    BY <1>1, <2>1, <2>2, BlankCustomerIs DEF FormOf
<1>2. CASE f = "supplier"
  <2>1. PICK i : i = SupplierForm(e, k).inputs
    OBVIOUS
  <2>2. DOMAIN i \subseteq SupplierKey
    BY <2>1 DEF SupplierForm, Texts, ++, SupplierKey
  <2>3. QED
    BY <1>2, <2>1, <2>2, BlankSupplierIs DEF FormOf
<1>3. CASE f = "product"
  <2>1. PICK i : i = ProductForm(e, k).inputs
    OBVIOUS
  <2>2. DOMAIN i \subseteq ProductKey
    BY <2>1 DEF ProductForm, Texts, ++, ProductKey, NoRow
  <2>3. QED
    BY <1>3, <2>1, <2>2, BlankProductIs DEF FormOf
<1>4. CASE f = "serviceOrder"
  <2>1. PICK i : i = ServiceOrderForm(e, k).inputs
    OBVIOUS
  <2>2. DOMAIN i \subseteq OrderKey
    BY <2>1 DEF ServiceOrderForm, Texts, ++, OrderKey
  <2>3. QED
    BY <1>4, <2>1, <2>2, BlankOrderIs DEF FormOf
<1>5. CASE f = "quickService"
  <2>1. PICK i : i = QuickServiceForm(e, k).inputs
    OBVIOUS
  <2>2. DOMAIN i \subseteq QuickServiceKey
    BY <2>1 DEF QuickServiceForm, Texts, ++, QuickServiceKey
  <2>3. QED
    BY <1>5, <2>1, <2>2, BlankFormsAre DEF FormOf
<1>6. CASE f = "user"
  <2>1. PICK i : i = UserForm(e, k).inputs
    OBVIOUS
  <2>2. DOMAIN i \subseteq UserKey
    BY <2>1 DEF UserForm, ++, UserKey, NoRow
  <2>3. QED
    BY <1>6, <2>1, <2>2, BlankFormsAre DEF FormOf
<1>7. CASE f = "tax"
  <2>1. DOMAIN TaxForm(e, k).inputs = {"applyIgv", "taxPercentage"}
    BY DEF TaxForm
  <2>2. QED
    BY <1>7, <2>1, BlankFormsAre DEF FormOf
<1>8. QED
  BY <1>1, <1>2, <1>3, <1>4, <1>5, <1>6, <1>7 DEF FixedForm

\* Nor does an input accept null or absent where the form shows neither.
Accepts(i) == \A key \in DOMAIN i : "null" \notin i[key] /\ "absent" \notin i[key]

LEMMA SpreadAccepts ==
    ASSUME NEW i, NEW j, Accepts(i), Accepts(j)
    PROVE  Accepts(i ++ j)
  BY DEF Accepts, ++

LEMMA TextsAccept == \A keys : Accepts(Texts(keys))
  BY DEF Accepts, Texts, TextInput

LEMMA InputsAreEntered ==
    ASSUME NEW f \in EnteringForm, NEW e, NEW k, Entered(e), DOMAIN e = DOMAIN Blank[f]
    PROVE  Accepts(FormOf(f, e, k).inputs)
<1>1. CASE f = "customer"
  <2>1. "documentType" \in DOMAIN e
    BY <1>1, BlankCustomerIs DEF CustomerKey
  <2>2. e.documentType \notin {"null", "absent"}
    BY <2>1 DEF Entered
  <2>3. PICK a : a = [customerType |-> Enum.customerType, email |-> EmailInput,
                      isActive |-> Boolean]
    OBVIOUS
  <2>4. Accepts(a)
    <3>1. /\ DOMAIN a = {"customerType", "email", "isActive"}
          /\ a.customerType = Enum.customerType /\ a.email = EmailInput /\ a.isActive = Boolean
      BY <2>3
    <3>2. "null" \notin Enum.customerType /\ "absent" \notin Enum.customerType
      BY DEF Enum
    <3>3. "null" \notin EmailInput /\ "absent" \notin EmailInput
      BY DEF EmailInput
    <3>4. "null" \notin Boolean /\ "absent" \notin Boolean
      BY DEF Boolean
    <3>5. QED
      BY <3>1, <3>2, <3>3, <3>4 DEF Accepts
  <2>5. PICK b : b = [documentNumber |-> {"12345678", "10456789012"},
                      businessName |-> RequiredInput]
    OBVIOUS
  <2>6. Accepts(b)
    <3>1. /\ DOMAIN b = {"documentNumber", "businessName"}
          /\ b.documentNumber = {"12345678", "10456789012"} /\ b.businessName = RequiredInput
      BY <2>5
    <3>2. "null" \notin b.documentNumber /\ "absent" \notin b.documentNumber
      BY <3>1
    <3>3. "null" \notin b.businessName /\ "absent" \notin b.businessName
      BY <3>1 DEF RequiredInput, TextInput
    <3>4. QED
      BY <3>1, <3>2, <3>3 DEF Accepts
  <2>7. PICK t : t = (Enum.documentType \ {"RUC"}) \cup {e.documentType}
    OBVIOUS
  <2>8. "null" \notin t /\ "absent" \notin t
    BY <2>2, <2>7 DEF Enum
  <2>9. PICK n : n = IF e.documentType = "DNI" THEN {"12345678"} ELSE Digits \cup {" "}
    OBVIOUS
  <2>10. "null" \notin n /\ "absent" \notin n
    BY <2>9 DEF Digits
  <2>11. PICK c : c = [documentType |-> t, documentNumber |-> n, firstName |-> RequiredInput,
                       lastName |-> TextInput]
    OBVIOUS
  <2>12. Accepts(c)
    <3>1. /\ DOMAIN c = {"documentType", "documentNumber", "firstName", "lastName"}
          /\ c.documentType = t /\ c.documentNumber = n
          /\ c.firstName = RequiredInput /\ c.lastName = TextInput
      BY <2>11
    <3>2. "null" \notin c.firstName /\ "absent" \notin c.firstName
      BY <3>1 DEF RequiredInput, TextInput
    <3>3. "null" \notin c.lastName /\ "absent" \notin c.lastName
      BY <3>1 DEF TextInput
    <3>4. QED
      BY <2>8, <2>10, <3>1, <3>2, <3>3 DEF Accepts
  <2>13. PICK u : u = Texts({"phone", "address", "notes"})
    OBVIOUS
  <2>14. PICK v : v = Texts({"tradeName", "legalRepresentative", "businessLine"})
    OBVIOUS
  <2>15. Accepts(u) /\ Accepts(v)
    BY <2>13, <2>14, TextsAccept
  <2>16. CustomerForm(e, k).inputs =
           u ++ a ++ (IF e.customerType = "COMPANY" THEN v ++ b ELSE c)
    BY <2>3, <2>5, <2>7, <2>9, <2>11, <2>13, <2>14 DEF CustomerForm
  <2>17. Accepts(IF e.customerType = "COMPANY" THEN v ++ b ELSE c)
    BY <2>6, <2>12, <2>15, SpreadAccepts
  <2>18. QED
    BY <1>1, <2>4, <2>15, <2>16, <2>17, SpreadAccepts DEF FormOf
<1>2. CASE f = "serviceOrder"
  <2>1. PICK a : a = [customerId |-> {"", "id"}, reportedIssue |-> {"", "Lenovo", "password"},
                      estimatedDeliveryDate |-> {""} \cup Date, photos |-> List]
    OBVIOUS
  <2>2. Accepts(a)
    <3>1. /\ DOMAIN a = {"customerId", "reportedIssue", "estimatedDeliveryDate", "photos"}
          /\ a.customerId = {"", "id"} /\ a.reportedIssue = {"", "Lenovo", "password"}
          /\ a.estimatedDeliveryDate = {""} \cup Date /\ a.photos = List
      BY <2>1
    <3>2. "null" \notin a.customerId /\ "absent" \notin a.customerId
      BY <3>1
    <3>3. "null" \notin a.reportedIssue /\ "absent" \notin a.reportedIssue
      BY <3>1
    <3>4. "null" \notin a.estimatedDeliveryDate /\ "absent" \notin a.estimatedDeliveryDate
      BY <3>1 DEF Date
    <3>5. "null" \notin a.photos /\ "absent" \notin a.photos
      BY <3>1 DEF List
    <3>6. QED
      BY <3>1, <3>2, <3>3, <3>4, <3>5 DEF Accepts
  <2>3. ServiceOrderForm(e, k).inputs = Texts(OrderText) ++ a
    BY <2>1 DEF ServiceOrderForm
  <2>4. QED
    BY <1>2, <2>2, <2>3, SpreadAccepts, TextsAccept DEF FormOf
<1>3. CASE f = "quickService"
  <2>1. PICK a : a = [key \in {"unitPrice", "costPrice"} |-> AmountInput \ {""}]
    OBVIOUS
  <2>2. PICK b : b = [categoryId |-> IF k = NoRow THEN {"", "id"} ELSE {"id"}]
    OBVIOUS
  <2>3. Accepts(a) /\ Accepts(b)
    <3>1. Accepts(a)
      BY <2>1 DEF Accepts, AmountInput
    <3>2. DOMAIN b = {"categoryId"} /\ "null" \notin b.categoryId /\ "absent" \notin b.categoryId
      BY <2>2
    <3>3. Accepts(b)
      BY <3>2 DEF Accepts
    <3>4. QED
      BY <3>1, <3>3
  <2>4. QuickServiceForm(e, k).inputs = Texts({"name", "unit"}) ++ a ++ b
    BY <2>1, <2>2 DEF QuickServiceForm
  <2>5. QED
    BY <1>3, <2>3, <2>4, SpreadAccepts, TextsAccept DEF FormOf
<1>4. CASE f = "tax"
  <2>1. e.taxPercentage \notin {"null", "absent"}
    BY <1>4, BlankFormsAre DEF Entered
  <2>2. PICK t : t = IF e.applyIgv = "true" THEN {"zero", "ten", "hundred"} ELSE {e.taxPercentage}
    OBVIOUS
  <2>3. "null" \notin t /\ "absent" \notin t
    BY <2>1, <2>2
  <2>4. TaxForm(e, k).inputs = [applyIgv |-> Boolean, taxPercentage |-> t]
    BY <2>2 DEF TaxForm
  <2>5. Accepts(TaxForm(e, k).inputs)
    BY <2>3, <2>4 DEF Accepts, Boolean
  <2>6. QED
    BY <1>4, <2>5 DEF FormOf
<1>5. QED
  BY <1>1, <1>2, <1>3, <1>4 DEF EnteringForm

LEMMA IdIsNoInput ==
    ASSUME NEW e, NEW k
    PROVE  "id" \notin DOMAIN FormOf("business", e, k).inputs
<1>1. FormOf("business", e, k) = BusinessForm(e, k)
  BY DEF FormOf
<1>2. PICK i : i = BusinessForm(e, k).inputs
  OBVIOUS
<1>3. DOMAIN i = {"businessName", "ruc", "phone", "address", "email"}
  BY <1>2 DEF BusinessForm, Texts, ++
<1>4. QED
  BY <1>1, <1>2, <1>3

\* A form that shows a row shows a value for everything.
LEMMA ShownIsEntered ==
    ASSUME NEW f \in EnteringForm, NEW k, NoneAbsent(k)
    PROVE  Entered(Shown(f, k))
<1>1. \A key \in DOMAIN k : OrEmpty(k[key]) \notin {"null", "absent"}
  BY DEF NoneAbsent, OrEmpty
<1>2. \A key \in DOMAIN Blank[f] : Blank[f][key] \notin {"null", "absent"}
  BY BlankIsEntered DEF Entered
<1>3. CASE f # "quickService"
  <2>1. Shown(f, k) = [key \in DOMAIN Blank[f] |->
                         IF key \in DOMAIN k THEN OrEmpty(k[key]) ELSE Blank[f][key]]
    BY <1>3 DEF Shown, EnteringForm
  <2>2. QED
    BY <1>1, <1>2, <2>1 DEF Entered
<1>4. CASE f = "quickService"
  <2>1. PICK c : c = NumberOf(k.costPrice)
    OBVIOUS
  <2>2. c \notin {"null", "absent"}
    BY <2>1 DEF NumberOf, Number, Twice
  <2>3. Shown(f, k) = [costPrice |-> c] ++
                      [key \in DOMAIN Blank[f] |->
                         IF key \in DOMAIN k THEN OrEmpty(k[key]) ELSE Blank[f][key]]
    BY <1>4, <2>1 DEF Shown
  <2>4. QED
    BY <1>1, <1>2, <2>2, <2>3 DEF Entered, ++
<1>5. QED
  BY <1>3, <1>4

\* What is stored is never absent.
LEMMA OverLeavesNoneAbsent ==
    ASSUME NEW k, NEW d, NoneAbsent(k)
    PROVE  NoneAbsent(Over(k, d))
  BY OverIs DEF NoneAbsent

LEMMA StoredLeavesNoneAbsent ==
    ASSUME NEW f, NEW k, NEW b, NoneAbsent(k)
    PROVE  NoneAbsent(Stored(f, k, b))
<1>1. CASE f \in RowForm \ {"serviceOrder"}
  BY <1>1, OverLeavesNoneAbsent DEF Stored, StoredCustomer, StoredProduct, StoredUser
<1>2. CASE f = "serviceOrder"
  <2>1. PICK o : o = Over(k, [key \in DOMAIN b |-> OrAbsent(b[key])])
    OBVIOUS
  <2>2. NoneAbsent(o)
    BY <2>1, OverLeavesNoneAbsent
  <2>3. Stored(f, k, b) = o ++ [technicalDiagnosis |-> "null", solutionApplied |-> "null",
                                laborCost |-> "zero", discount |-> "zero"]
    BY <1>2, <2>1 DEF Stored, StoredOrder
  <2>4. QED
    BY <2>2, <2>3 DEF NoneAbsent, ++
<1>3. CASE f \notin RowForm
  BY <1>3 DEF Stored, RowForm
<1>4. QED
  BY <1>1, <1>2, <1>3

\* The inductive invariant: an open form edits the row it opened with; a
\* reception only creates; what the form of the business sends is refused; the
\* inputs are those of a blank form, and say something.
FormsInv ==
    /\ stage \in {"closed", "open", "refused", "saved"}
    /\ stage # "closed" => form \in DOMAIN Blank
    /\ stage \in {"open", "refused"} => edited = original
    /\ form = "serviceOrder" => original = NoRow
    /\ form = "business" => HasId(shown) /\ stage # "saved"
    /\ form \in FixedForm => DOMAIN shown = DOMAIN Blank[form]
    /\ form \in EnteringForm => Entered(shown)
    /\ NoneAbsent(edited)
    /\ lookup \in Digits \cup {""}
    /\ SavedAsEntered

\* What a step of an open form owes to the invariant.
LEMMA OpenFormKeeps ==
    ASSUME FormsInv, UNCHANGED <<form, edited, original>>, stage \in {"open", "refused"},
           stage' \in {"open", "refused"}, lookup' \in Digits \cup {""},
           form = "business" => HasId(shown'),
           form \in FixedForm => DOMAIN shown' = DOMAIN shown,
           form \in EnteringForm => Entered(shown')
    PROVE  FormsInv'
<1>1. SavedAsEntered'
  BY DEF SavedAsEntered
<1>2. QED
  BY <1>1 DEF FormsInv, NoneAbsent, HasId

LEMMA FollowingIs ==
    ASSUME NEW f \in DOMAIN Blank, NEW g \in Following[f]
    PROVE  \/ g = f /\ g # "serviceOrder"
           \/ g \in {"adjustStock", "diagnosis"}
<1>1. Following[f] = CASE f = "product" -> {"product", "adjustStock"}
                       [] f = "serviceOrder" -> {"diagnosis"}
                       [] f \in RowForm \ {"product", "serviceOrder"} -> {f}
                       [] OTHER -> {}
  BY DEF Following, ++, RowForm
<1>2. QED
  BY <1>1

LEMMA OpensKeeps ==
    ASSUME NEW f \in DOMAIN Blank, NEW k, NoneAbsent(k), f = "serviceOrder" => k = NoRow,
           f = "business" => HasId(k), Opens(f, k)
    PROVE  FormsInv'
<1>1. f \in FixedForm => DOMAIN shown' = DOMAIN Blank[f]
  BY ShownByKeys DEF Opens, FixedForm, SavingForm, RowForm
<1>2. f \in EnteringForm => Entered(shown')
  BY BlankIsEntered, ShownIsEntered DEF Opens
<1>3. f = "business" => HasId(shown')
  BY BlankFormsAre DEF Opens, Shown
<1>4. SavedAsEntered'
  BY DEF SavedAsEntered, Opens
<1>5. QED
  BY <1>1, <1>2, <1>3, <1>4 DEF FormsInv, Opens, NoneAbsent, HasId

LEMMA OpenKeeps ==
    ASSUME FormsInv, OpenForm \/ EditSaved
    PROVE  FormsInv'
<1>1. NoneAbsent(NoRow)
  BY NoRowIsEmpty DEF NoneAbsent
<1>2. CASE OpenForm
  <2>1. PICK f \in DOMAIN Blank \ {"diagnosis", "adjustStock"} :
          Opens(f, IF f \in {"tax", "business"} THEN Blank[f] ELSE NoRow)
    BY <1>2 DEF OpenForm
  <2>2. CASE f \in {"tax", "business"}
    BY <2>1, <2>2, BlankFormsAre, OpensKeeps
  <2>3. CASE f \notin {"tax", "business"}
    BY <1>1, <2>1, <2>3, OpensKeeps
  <2>4. QED
    BY <2>2, <2>3
<1>3. CASE EditSaved
  <2>1. PICK g \in Following[form] : Opens(g, edited)
    BY <1>3 DEF EditSaved
  <2>2. stage = "saved" /\ form \in DOMAIN Blank /\ form # "business" /\ NoneAbsent(edited)
    BY <1>3 DEF EditSaved, FormsInv
  <2>3. g \in DOMAIN Blank /\ g \notin {"serviceOrder", "business"}
    BY <2>1, <2>2, FollowingIs, BlankFormsAre DEF RowForm
  <2>4. QED
    BY <2>1, <2>2, <2>3, OpensKeeps
<1>4. QED
  BY <1>2, <1>3

\* The answer that a user gives first is one of those preferred.
LEMMA LessIsRelated == OpToRel(<, Nat) = {ss \in Nat \X Nat : ss[1] < ss[2]}
  BY DEF OpToRel

LEMMA MinIsMember ==
    ASSUME NEW S, S \subseteq Nat, S # {}
    PROVE  Min(S) \in S
<1>1. PICK x \in S : \A y \in S : ~ (<<y, x>> \in OpToRel(<, Nat))
  BY NatLessThanWellFounded, WFMin, Zenon
<1>2. \A y \in S : ~ (y < x)
  BY <1>1, LessIsRelated
<1>3. \A y \in S : x =< y
  BY <1>2
<1>4. QED
  BY <1>3 DEF Min

LEMMA FilledInIs ==
    ASSUME NEW accepts, NEW brief, NEW s, s = FilledIn(accepts, brief)
    PROVE  /\ DOMAIN shown \subseteq DOMAIN s /\ DOMAIN s \subseteq DOMAIN accepts \cup DOMAIN shown
           /\ \A key \in DOMAIN s :
                \/ key \in DOMAIN shown /\ s[key] = shown[key]
                \/ /\ key \in DOMAIN accepts /\ s[key] \in accepts[key]
                   /\ s[key] \in {Preference[i] : i \in DOMAIN Preference}
<1>1. PICK Likely : Likely = [key \in DOMAIN accepts |->
                                {i \in DOMAIN Preference : Preference[i] \in accepts[key]}]
  OBVIOUS
<1>2. DOMAIN Preference \subseteq Nat
  BY DEF Preference
<1>3. \A key \in DOMAIN accepts : Likely[key] # {} => Min(Likely[key]) \in Likely[key]
  BY <1>1, <1>2, MinIsMember
<1>4. PICK a : a = [key \in {key \in DOMAIN accepts : (brief => key \in Needed) /\ Likely[key] # {}} |->
                      Preference[Min(Likely[key])]]
  OBVIOUS
<1>5. s = a ++ shown
  BY <1>1, <1>4 DEF FilledIn
<1>6. DOMAIN a \subseteq DOMAIN accepts /\ \A key \in DOMAIN a :
        /\ a[key] \in accepts[key] /\ a[key] \in {Preference[i] : i \in DOMAIN Preference}
  BY <1>1, <1>3, <1>4
<1>7. QED
  BY <1>5, <1>6 DEF ++

LEMMA FillInKeeps ==
    ASSUME FormsInv, FillIn
    PROVE  FormsInv'
<1>1. PICK brief \in BOOLEAN : shown' = FilledIn(Displayed.inputs, brief)
  BY DEF FillIn
<1>2. PICK i : i = Displayed.inputs
  OBVIOUS
<1>3. PICK s : s = shown'
  OBVIOUS
<1>4. /\ DOMAIN shown \subseteq DOMAIN s /\ DOMAIN s \subseteq DOMAIN i \cup DOMAIN shown
      /\ \A key \in DOMAIN s :
           (key \in DOMAIN shown /\ s[key] = shown[key]) \/ (key \in DOMAIN i /\ s[key] \in i[key])
  BY <1>1, <1>2, <1>3, FilledInIs
<1>5. i = FormOf(form, shown, edited).inputs
  BY <1>2 DEF Displayed
<1>6. form \in FixedForm => DOMAIN s = DOMAIN shown
  BY <1>4, <1>5, InputsAreKeys DEF FormsInv
<1>7. form \in EnteringForm => Entered(s)
  <2>1. form \in EnteringForm => form \in FixedForm
    BY DEF EnteringForm, FixedForm
  <2>2. form \in EnteringForm => Accepts(i) /\ Entered(shown)
    BY <1>5, <2>1, InputsAreEntered DEF FormsInv
  <2>3. QED
    BY <1>4, <2>2 DEF Entered, Accepts
<1>8. form = "business" => HasId(s)
  BY <1>4, <1>5, IdIsNoInput DEF FormsInv, HasId
<1>9. QED
  BY <1>3, <1>6, <1>7, <1>8, OpenFormKeeps DEF FillIn, FormsInv

LEMMA TouchKeeps ==
    ASSUME FormsInv, Touch
    PROVE  FormsInv'
<1>1. PICK i : i = Displayed.inputs
  OBVIOUS
<1>2. PICK key \in DOMAIN i : \E v \in i[key] :
        shown' = CASE form = "customer" /\ key = "customerType" -> ChangeType(shown, v)
                   [] form = "orderItem" /\ key = "productId" -> SelectPart(shown, v)
                   [] OTHER -> [shown EXCEPT ![key] = v]
  BY <1>1 DEF Touch, OneChanged
<1>3. PICK v \in i[key] :
        shown' = CASE form = "customer" /\ key = "customerType" -> ChangeType(shown, v)
                   [] form = "orderItem" /\ key = "productId" -> SelectPart(shown, v)
                   [] OTHER -> [shown EXCEPT ![key] = v]
  BY <1>2
<1>4. PICK s : s = shown'
  OBVIOUS
<1>5. i = FormOf(form, shown, edited).inputs
  BY <1>1 DEF Displayed
<1>6. DOMAIN s = DOMAIN shown
  BY <1>3, <1>4 DEF ChangeType, SelectPart
<1>7. form \in EnteringForm => Entered(s)
  <2>1. form \in EnteringForm => form \in FixedForm /\ form # "orderItem"
    BY DEF EnteringForm, FixedForm
  <2>2. form \in EnteringForm => Accepts(i) /\ Entered(shown)
    BY <1>5, <2>1, InputsAreEntered DEF FormsInv
  <2>3. form \in EnteringForm => v \notin {"null", "absent"}
    BY <2>2 DEF Accepts
  <2>4. CASE form = "customer" /\ key = "customerType"
    <3>1. s = ChangeType(shown, v)
      BY <1>3, <1>4, <2>4
    <3>2. \A x \in DOMAIN s : s[x] \in {v, "", "RUC", "DNI", shown[x]}
      BY <3>1 DEF ChangeType
    <3>3. QED
      BY <1>6, <2>2, <2>3, <3>2 DEF Entered
  <2>5. CASE form \in EnteringForm /\ ~(form = "customer" /\ key = "customerType")
    <3>1. s = [shown EXCEPT ![key] = v]
      BY <1>3, <1>4, <2>1, <2>5
    <3>2. QED
      BY <1>6, <2>2, <2>3, <2>5, <3>1 DEF Entered
  <2>6. QED
    BY <2>4, <2>5
<1>8. form = "business" => HasId(s)
  BY <1>3, <1>4, <1>5, <1>6, IdIsNoInput DEF FormsInv, HasId
<1>9. QED
  BY <1>4, <1>6, <1>7, <1>8, OpenFormKeeps DEF Touch, FormsInv

LEMMA LookUpKeeps ==
    ASSUME FormsInv, LookUp
    PROVE  FormsInv'
<1>1. PICK n : n \in Digits /\ AskFor(n)
  BY DEF LookUp, CustomerAsks, SupplierAsks, DigitsOfLength
<1>2. stage' \in {"open", "refused"} /\ lookup' \in {n, ""}
  BY <1>1 DEF AskFor
<1>3. QED
  BY <1>1, <1>2, OpenFormKeeps DEF LookUp, FormsInv

LEMMA LookUpAnswerKeeps ==
    ASSUME FormsInv, LookUpAnswer
    PROVE  FormsInv'
<1>1. PICK s : s = shown'
  OBVIOUS
<1>2. lookup \in Digits
  BY DEF LookUpAnswer, FormsInv
<1>3. \/ s = CustomerFound(shown, lookup)
      \/ s = SupplierFound(shown, lookup)
      \/ s = shown
  BY <1>1 DEF LookUpAnswer
<1>4. DOMAIN s = DOMAIN shown
  BY <1>3 DEF CustomerFound, SupplierFound
<1>5. \A x \in DOMAIN s : s[x] \in {lookup, "RUC", "DNI", "Lenovo", "Ana", "true", shown[x]}
  <2>1. CASE s = CustomerFound(shown, lookup)
    BY <2>1 DEF CustomerFound
  <2>2. CASE s = SupplierFound(shown, lookup)
    BY <2>2 DEF SupplierFound
  <2>3. QED
    BY <1>3, <2>1, <2>2
<1>6. lookup \notin {"null", "absent"}
  BY <1>2 DEF Digits
<1>7. form \in EnteringForm => Entered(s)
  BY <1>4, <1>5, <1>6 DEF Entered, FormsInv
<1>8. form = "business" => HasId(s)
  BY <1>1, <1>4 DEF LookUpAnswer, SupplierFound, FormsInv, HasId
<1>9. QED
  BY <1>1, <1>4, <1>7, <1>8, OpenFormKeeps DEF LookUpAnswer, FormsInv

\* What the pipe never lets through: a product edited, whose stock no edit may
\* state, and the row of the business, whose identifier none may.
LEMMA StockIsRefused ==
    ASSUME NEW e, NEW k, DOMAIN e = ProductKey, k # NoRow
    PROVE  Complaints(FormOf("product", e, k).dto, FormOf("product", e, k).body) # {}
<1>1. FormOf("product", e, k) = ProductForm(e, k)
  BY DEF FormOf
<1>2. PICK b : b = ProductForm(e, k).body
  OBVIOUS
<1>3. "stock" \in DOMAIN b /\ b.stock = Floor(NumberOf(e.stock))
  BY <1>2 DEF ProductForm, ProductKey, ProductText
<1>4. b.stock # "absent"
  <2>1. NumberOf(e.stock) \in Number /\ "absent" \notin Number
    BY DEF NumberOf, Number, Twice
  <2>2. QED
    BY <1>3, <2>1 DEF Floor
<1>5. PICK t : t = ProductForm(e, k).dto
  OBVIOUS
<1>6. "stock" \notin DOMAIN t
  <2>1. t = UpdateProductDto
    BY <1>5 DEF ProductForm, InventoryService
  <2>2. QED
    BY <2>1 DEF UpdateProductDto, Partial, Omit, Restrict
<1>7. QED
  BY <1>1, <1>2, <1>3, <1>4, <1>5, <1>6 DEF Complaints

LEMMA BusinessIsRefused ==
    ASSUME NEW e, NEW k, HasId(e)
    PROVE  Complaints(FormOf("business", e, k).dto, FormOf("business", e, k).body) # {}
<1>1. FormOf("business", e, k).body = e
  BY DEF FormOf, BusinessForm
<1>2. PICK t : t = FormOf("business", e, k).dto
  OBVIOUS
<1>3. "id" \notin DOMAIN t
  <2>1. t = BusinessSettingsDto
    BY <1>2 DEF FormOf, BusinessForm, SettingsService
  <2>2. QED
    BY <2>1 DEF BusinessSettingsDto
<1>4. QED
  BY <1>1, <1>2, <1>3 DEF Complaints, HasId

\* A form submitted and accepted saves what it shows.
LEMMA AcceptedSaves ==
    ASSUME FormsInv, stage = "open", form \in RowForm, NEW d, d = Displayed,
           LetThrough(d), Complaints(d.dto, d.body) = {}
    PROVE  form # "business" /\ SavedAs(form, shown, original, Stored(form, edited, d.body))
<1>1. edited = original /\ d = FormOf(form, shown, original)
  BY DEF FormsInv, Displayed
<1>2. Accepted(form, shown, original)
  BY <1>1 DEF LetThrough, Accepted
<1>3. form \in FixedForm => DOMAIN shown = DOMAIN Blank[form]
  BY DEF FormsInv
<1>4. form \in EnteringForm => Entered(shown)
  BY DEF FormsInv
<1>5. CASE form = "customer"
  <2>1. DOMAIN shown = CustomerKey /\ Entered(shown)
    BY <1>3, <1>4, <1>5, BlankCustomerIs DEF FixedForm, EnteringForm
  <2>2. d = CustomerForm(shown, original)
    BY <1>1, <1>5 DEF FormOf
  <2>3. Stored(form, edited, d.body) = StoredCustomer(original, d.body)
    BY <1>1, <1>5 DEF Stored, RowForm
  <2>4. QED
    BY <1>2, <1>5, <2>1, <2>2, <2>3, CustomerSaves
<1>6. CASE form = "supplier"
  <2>1. DOMAIN shown = SupplierKey
    BY <1>3, <1>6, BlankSupplierIs DEF FixedForm
  <2>2. d = SupplierForm(shown, original)
    BY <1>1, <1>6 DEF FormOf
  <2>3. Stored(form, edited, d.body) = Over(original, d.body)
    BY <1>1, <1>6 DEF Stored, RowForm
  <2>4. QED
    BY <1>2, <1>6, <2>1, <2>2, <2>3, SupplierSaves
<1>7. CASE form = "product"
  <2>1. DOMAIN shown = ProductKey
    BY <1>3, <1>7, BlankProductIs DEF FixedForm
  <2>2. original = NoRow
    BY <1>1, <1>7, <2>1, StockIsRefused
  <2>3. d = ProductForm(shown, NoRow)
    BY <1>1, <1>7, <2>2 DEF FormOf
  <2>4. Stored(form, edited, d.body) = StoredProduct(NoRow, d.body)
    BY <1>1, <1>7, <2>2 DEF Stored, RowForm
  <2>5. QED
    BY <1>2, <1>7, <2>1, <2>2, <2>3, <2>4, ProductSaves
<1>8. CASE form = "serviceOrder"
  <2>1. DOMAIN shown = OrderKey /\ Entered(shown) /\ original = NoRow
    BY <1>3, <1>4, <1>8, BlankOrderIs DEF FixedForm, EnteringForm, FormsInv
  <2>2. d = ServiceOrderForm(shown, NoRow)
    BY <1>1, <1>8, <2>1 DEF FormOf
  <2>3. Stored(form, edited, d.body) = StoredOrder(NoRow, d.body)
    BY <1>1, <1>8, <2>1 DEF Stored, RowForm
  <2>4. QED
    BY <1>2, <1>8, <2>1, <2>2, <2>3, ServiceOrderSaves
<1>9. CASE form = "diagnosis"
  <2>1. d = TechnicalDiagnosisForm(shown, original)
    BY <1>1, <1>9 DEF FormOf
  <2>2. Stored(form, edited, d.body) = Over(original, d.body)
    BY <1>1, <1>9 DEF Stored, RowForm
  <2>3. QED
    BY <1>2, <1>9, <2>1, <2>2, DiagnosisSaves
<1>10. CASE form = "serviceCategory"
  <2>1. d = ServiceCategoryForm(shown, original)
    BY <1>1, <1>10 DEF FormOf
  <2>2. Stored(form, edited, d.body) = Over(original, d.body)
    BY <1>1, <1>10 DEF Stored, RowForm
  <2>3. QED
    BY <1>2, <1>10, <2>1, <2>2, ServiceCategorySaves
<1>11. CASE form = "quickService"
  <2>1. DOMAIN shown = QuickServiceKey /\ Entered(shown)
    BY <1>3, <1>4, <1>11, BlankFormsAre DEF FixedForm, EnteringForm
  <2>2. d = QuickServiceForm(shown, original)
    BY <1>1, <1>11 DEF FormOf
  <2>3. Stored(form, edited, d.body) = Over(original, d.body)
    BY <1>1, <1>11 DEF Stored, RowForm
  <2>4. QED
    BY <1>2, <1>11, <2>1, <2>2, <2>3, QuickServiceSaves
<1>12. CASE form = "user"
  <2>1. DOMAIN shown = UserKey
    BY <1>3, <1>12, BlankFormsAre DEF FixedForm
  <2>2. d = UserForm(shown, original)
    BY <1>1, <1>12 DEF FormOf
  <2>3. Stored(form, edited, d.body) = StoredUser(original, d.body)
    BY <1>1, <1>12 DEF Stored, RowForm
  <2>4. QED
    BY <1>2, <1>12, <2>1, <2>2, <2>3, UserSaves
<1>13. CASE form = "tax"
  <2>1. DOMAIN shown = {"applyIgv", "taxPercentage"} /\ Entered(shown)
    BY <1>3, <1>4, <1>13, BlankFormsAre DEF FixedForm, EnteringForm
  <2>2. d = TaxForm(shown, original)
    BY <1>1, <1>13 DEF FormOf
  <2>3. Stored(form, edited, d.body) = Over(original, d.body)
    BY <1>1, <1>13 DEF Stored, RowForm
  <2>4. QED
    BY <1>13, <2>1, <2>2, <2>3, TaxSaves
<1>14. CASE form = "business"
  BY <1>1, <1>14, BusinessIsRefused DEF FormsInv
<1>15. QED
  BY <1>5, <1>6, <1>7, <1>8, <1>9, <1>10, <1>11, <1>12, <1>13, <1>14 DEF RowForm

LEMMA SubmitKeeps ==
    ASSUME FormsInv, Submit
    PROVE  FormsInv'
<1>1. PICK d : d = Displayed
  OBVIOUS
<1>2. PICK isAdmin \in BOOLEAN :
        ServerAnswers(d.body, RefusedOf(d.body, Complaints(d.dto, d.body), isAdmin))
  BY <1>1 DEF Submit, Sent
<1>3. PICK all : all = RefusedOf(d.body, Complaints(d.dto, d.body), isAdmin)
  OBVIOUS
<1>4. ServerAnswers(d.body, all) /\ (all = {} => Complaints(d.dto, d.body) = {})
  BY <1>2, <1>3 DEF RefusedOf
<1>5. CASE all # {}
  BY <1>4, <1>5, OpenFormKeeps DEF Submit, ServerAnswers, FormsInv
<1>6. CASE all = {}
  <2>1. stage' = "saved" /\ edited' = Stored(form, edited, d.body)
    BY <1>4, <1>6 DEF ServerAnswers
  <2>2. form \in RowForm =>
          form # "business" /\ SavedAs(form, shown, original, edited')
    BY <1>1, <1>4, <1>6, <2>1, AcceptedSaves DEF Submit, Sent
  <2>3. NoneAbsent(edited')
    BY <2>1, StoredLeavesNoneAbsent DEF FormsInv
  <2>4. SavedAsEntered'
    <3>1. SavedAsEntered' <=>
            (stage' = "saved" /\ form' \in RowForm => SavedAs(form', shown', original', edited'))
      BY DEF SavedAsEntered, SavedAs, ReadsAs, KeptAs, SettledAs, Settled, Kept
    <3>2. QED
      BY <2>2, <3>1 DEF Submit
  <2>5. QED
    BY <2>1, <2>2, <2>3, <2>4 DEF FormsInv, Submit, RowForm
<1>7. QED
  BY <1>5, <1>6

\* Of a user who waits for the answer of a lookup, the document of a company
\* never meets a natural person: in the inputs, in the row, in the lookup.
CompanyRow(k) ==
    /\ {"customerType", "documentType"} \subseteq DOMAIN k
    /\ k["documentType"] = "RUC" => k["customerType"] = "COMPANY"

CompaniesInv ==
    form = "customer" =>
        /\ shown["documentType"] = "RUC" => shown["customerType"] = "COMPANY"
        /\ lookup \in DigitsOfLength(11) => shown["customerType"] = "COMPANY"
        /\ (stage # "saved" /\ edited = NoRow) \/ CompanyRow(edited)

LEMMA CustomerInputs ==
    ASSUME NEW e, NEW k
    PROVE  LET i == FormOf("customer", e, k).inputs
           IN  /\ "customerType" \in DOMAIN i => i["customerType"] = {"NATURAL", "COMPANY"}
               /\ "documentType" \in DOMAIN i =>
                    \A v \in i["documentType"] : v = "RUC" => v = e["documentType"]
<1>1. FormOf("customer", e, k) = CustomerForm(e, k)
  BY DEF FormOf
<1>2. PICK i : i = CustomerForm(e, k).inputs
  OBVIOUS
<1>3. i["customerType"] = Enum.customerType
  BY <1>2 DEF CustomerForm, Texts, ++
<1>4. "documentType" \in DOMAIN i =>
        i["documentType"] = (Enum.documentType \ {"RUC"}) \cup {e.documentType}
  BY <1>2 DEF CustomerForm, Texts, ++
<1>5. Enum.customerType = {"NATURAL", "COMPANY"}
  BY DEF Enum
<1>6. QED
  BY <1>1, <1>2, <1>3, <1>4, <1>5

LEMMA ElevenOrEight ==
    /\ "" \notin DigitsOfLength(11)
    /\ \A n : ~ (n \in DigitsOfLength(11) /\ n \in DigitsOfLength(8))
<1>1. "" \notin Digits
  BY DEF Digits
<1>2. ASSUME NEW n, n \in DigitsOfLength(11), n \in DigitsOfLength(8)
      PROVE  FALSE
  <2>1. Len(n) = 11 /\ Len(n) = 8
    BY <1>2, Zenon DEF DigitsOfLength
  <2>2. 11 = 8
    BY <2>1, Zenon
  <2>3. QED
    BY <2>2
<1>3. QED
  BY <1>1, <1>2 DEF DigitsOfLength

LEMMA CompaniesKeptByOpening ==
    ASSUME FormsInv, CompaniesInv, OpenForm \/ EditSaved
    PROVE  CompaniesInv'
<1>1. CASE OpenForm
  <2>1. PICK f \in DOMAIN Blank \ {"diagnosis", "adjustStock"} :
          Opens(f, IF f \in {"tax", "business"} THEN Blank[f] ELSE NoRow)
    BY <1>1 DEF OpenForm
  <2>2. f = "customer" => shown' = BlankCustomer /\ edited' = NoRow
    BY <2>1, BlankCustomerIs DEF Opens
  <2>3. QED
    BY <2>1, <2>2, BlankCustomerIs, ElevenOrEight DEF Opens, CompaniesInv
<1>2. CASE EditSaved
  <2>1. PICK g \in Following[form] : Opens(g, edited)
    BY <1>2 DEF EditSaved
  <2>2. g = "customer" => form = "customer"
    BY <1>2, <2>1, FollowingIs DEF EditSaved, FormsInv
  <2>3. CASE g = "customer"
    <3>1. CompanyRow(edited) /\ edited # NoRow
      BY <1>2, <2>2, <2>3, NoRowIsEmpty DEF CompaniesInv, EditSaved, CompanyRow
    <3>2. shown' = Shown("customer", edited) /\ edited' = edited
      BY <2>1, <2>3, <3>1 DEF Opens
    <3>3. /\ shown'["documentType"] = OrEmpty(edited["documentType"])
          /\ shown'["customerType"] = OrEmpty(edited["customerType"])
      <4>1. {"customerType", "documentType"} \subseteq DOMAIN Blank["customer"] \cap DOMAIN edited
        BY <3>1, BlankCustomerIs DEF CompanyRow, CustomerKey
      <4>2. "customer" \in SavingForm
        BY DEF SavingForm, RowForm
      <4>3. \A key \in DOMAIN Blank["customer"] \cap DOMAIN edited :
              Shown("customer", edited)[key] = ShownOf("customer", key, edited[key])
        BY <4>2, ShownByKeys
      <4>4. \A key, v : ShownOf("customer", key, v) = OrEmpty(v)
        BY DEF ShownOf
      <4>5. QED
        BY <3>2, <4>1, <4>3, <4>4
    <3>4. shown'["documentType"] = "RUC" => shown'["customerType"] = "COMPANY"
      BY <3>1, <3>3 DEF OrEmpty, CompanyRow
    <3>5. QED
      BY <2>1, <3>1, <3>2, <3>4, ElevenOrEight DEF Opens, CompaniesInv
  <2>4. QED
    BY <2>1, <2>3 DEF Opens, CompaniesInv
<1>3. QED
  BY <1>1, <1>2

LEMMA CompaniesKeptByFilling ==
    ASSUME FormsInv, CompaniesInv, FillIn
    PROVE  CompaniesInv'
<1>1. PICK brief \in BOOLEAN : shown' = FilledIn(Displayed.inputs, brief)
  BY DEF FillIn
<1>2. PICK i : i = Displayed.inputs
  OBVIOUS
<1>3. PICK s : s = shown'
  OBVIOUS
<1>4. /\ DOMAIN shown \subseteq DOMAIN s
      /\ \A key \in DOMAIN s :
           \/ key \in DOMAIN shown /\ s[key] = shown[key]
           \/ /\ key \in DOMAIN i /\ s[key] \in i[key]
              /\ s[key] \in {Preference[n] : n \in DOMAIN Preference}
  BY <1>1, <1>2, <1>3, FilledInIs
<1>5. ASSUME form = "customer"
      PROVE  s["customerType"] = shown["customerType"] /\
             (s["documentType"] = "RUC" => shown["documentType"] = "RUC")
  <2>1. {"customerType", "documentType"} \subseteq DOMAIN s
    BY <1>4, <1>5, BlankCustomerIs DEF FormsInv, FixedForm, CustomerKey
  <2>2. i = FormOf("customer", shown, edited).inputs
    BY <1>2, <1>5 DEF Displayed
  <2>3. \A n \in DOMAIN Preference : Preference[n] \notin {"NATURAL", "COMPANY", "RUC"}
    BY DEF Preference
  <2>4. QED
    BY <1>4, <2>1, <2>2, <2>3, CustomerInputs
<1>6. QED
  BY <1>3, <1>5 DEF FillIn, CompaniesInv

LEMMA CompaniesKeptByTouching ==
    ASSUME FormsInv, CompaniesInv, Touch, lookup = ""
    PROVE  CompaniesInv'
<1>1. SUFFICES ASSUME form = "customer"
               PROVE  shown'["documentType"] = "RUC" => shown'["customerType"] = "COMPANY"
  BY ElevenOrEight DEF Touch, CompaniesInv
<1>2. PICK i : i = FormOf("customer", shown, edited).inputs
  OBVIOUS
<1>3. PICK key \in DOMAIN i : \E v \in i[key] \ {shown[key]} :
        shown' = IF key = "customerType" THEN ChangeType(shown, v) ELSE [shown EXCEPT ![key] = v]
  BY <1>1, <1>2 DEF Touch, OneChanged, Displayed
<1>4. PICK v \in i[key] \ {shown[key]} :
        shown' = IF key = "customerType" THEN ChangeType(shown, v) ELSE [shown EXCEPT ![key] = v]
  BY <1>3
<1>5. {"customerType", "documentType"} \subseteq DOMAIN shown
  BY <1>1, BlankCustomerIs DEF FormsInv, FixedForm, CustomerKey
<1>6. CASE key = "customerType"
  BY <1>4, <1>5, <1>6 DEF ChangeType
<1>7. CASE key = "documentType"
  <2>1. v # "RUC"
    BY <1>2, <1>4, <1>7, CustomerInputs
  <2>2. QED
    BY <1>4, <1>5, <1>7, <2>1
<1>8. CASE key \notin {"customerType", "documentType"}
  <2>1. /\ shown'["customerType"] = shown["customerType"]
        /\ shown'["documentType"] = shown["documentType"]
    BY <1>4, <1>5, <1>8
  <2>2. QED
    BY <1>1, <2>1 DEF CompaniesInv
<1>9. QED
  BY <1>6, <1>7, <1>8

LEMMA CompaniesKeptByLookingUp ==
    ASSUME FormsInv, CompaniesInv, LookUp \/ LookUpAnswer
    PROVE  CompaniesInv'
<1>1. CASE LookUp
  <2>1. form = "customer" => CustomerAsks(shown) /\ AskFor(shown.documentNumber)
    BY <1>1 DEF LookUp
  <2>2. ASSUME form = "customer", lookup' \in DigitsOfLength(11)
        PROVE  shown["customerType"] = "COMPANY"
    <3>1. lookup' = shown.documentNumber
      BY <2>1, <2>2, ElevenOrEight DEF AskFor
    <3>2. QED
      BY <2>1, <2>2, <3>1, ElevenOrEight DEF CustomerAsks
  <2>3. QED
    BY <1>1, <2>2 DEF LookUp, AskFor, CompaniesInv
<1>2. CASE LookUpAnswer
  <2>1. ASSUME form = "customer"
        PROVE  shown'["documentType"] = "RUC" => shown'["customerType"] = "COMPANY"
    <3>1. {"customerType", "documentType"} \subseteq DOMAIN shown
      BY <2>1, BlankCustomerIs DEF FormsInv, FixedForm, CustomerKey
    <3>2. CASE shown' = CustomerFound(shown, lookup)
      BY <2>1, <3>1, <3>2 DEF CustomerFound, CompaniesInv
    <3>3. CASE UNCHANGED shown
      BY <2>1, <3>3 DEF CompaniesInv
    <3>4. QED
      BY <1>2, <2>1, <3>2, <3>3 DEF LookUpAnswer
  <2>2. QED
    BY <1>2, <2>1, ElevenOrEight DEF LookUpAnswer, CompaniesInv
<1>3. QED
  BY <1>1, <1>2

LEMMA CompaniesKeptBySubmitting ==
    ASSUME FormsInv, CompaniesInv, Submit
    PROVE  CompaniesInv'
<1>1. SUFFICES ASSUME form = "customer"
               PROVE  (stage' # "saved" /\ edited' = NoRow) \/ CompanyRow(edited')
  BY DEF Submit, CompaniesInv
<1>2. PICK b : b = CustomerForm(shown, edited).body
  OBVIOUS
<1>3. \/ stage' = "saved" /\ edited' = Stored("customer", edited, b)
      \/ stage' # "saved" /\ edited' = edited
  BY <1>1, <1>2 DEF Submit, Sent, ServerAnswers, Displayed, FormOf
<1>4. PICK d : d = NormalizeCustomer(b)
  OBVIOUS
<1>5. /\ {"customerType", "documentType"} \subseteq DOMAIN shown
      /\ shown["customerType"] # "absent" /\ shown["documentType"] # "absent"
  BY <1>1, BlankCustomerIs DEF FormsInv, FixedForm, EnteringForm, CustomerKey, Entered
<1>6. /\ b.customerType = shown["customerType"]
      /\ b.documentType = IF shown["customerType"] = "COMPANY" THEN "RUC" ELSE shown["documentType"]
  BY <1>2, <1>5 DEF CustomerForm, ++
<1>7. /\ {"customerType", "documentType"} \subseteq DOMAIN d
      /\ d["customerType"] = Trim(b.customerType) /\ d["documentType"] = Trim(b.documentType)
  BY <1>4 DEF NormalizeCustomer, ++
<1>8. /\ d["customerType"] # "absent" /\ d["documentType"] # "absent"
      /\ d["documentType"] = "RUC" => d["customerType"] = "COMPANY"
  BY <1>1, <1>5, <1>6, <1>7 DEF Trim, CompaniesInv
<1>9. CASE stage' = "saved" /\ edited' = Stored("customer", edited, b)
  <2>1. PICK o : o = Over(edited, d)
    OBVIOUS
  <2>2. edited' = o
    BY <1>4, <1>9, <2>1 DEF Stored, StoredCustomer
  <2>3. {"customerType", "documentType"} \subseteq DOMAIN o
    BY <1>1, <1>7, <2>1, OverIs DEF CompaniesInv, CompanyRow
  <2>4. o["customerType"] = d["customerType"] /\ o["documentType"] = d["documentType"]
    BY <1>7, <1>8, <2>1, <2>3, OverStores
  <2>5. QED
    BY <1>8, <2>2, <2>3, <2>4 DEF CompanyRow
<1>10. CASE stage' # "saved" /\ edited' = edited
  BY <1>1, <1>10 DEF CompaniesInv, Submit
<1>11. QED
  BY <1>3, <1>9, <1>10

LEMMA FormsInitially ==
    ASSUME OfficeInit
    PROVE  FormsInv /\ CompaniesInv
<1>1. form = "" /\ shown = NoRow /\ edited = NoRow /\ original = NoRow /\ lookup = "" /\ stage = "closed"
  BY DEF OfficeInit, FormsInit
<1>2. NoneAbsent(NoRow)
  BY NoRowIsEmpty DEF NoneAbsent
<1>3. QED
  BY <1>1, <1>2 DEF FormsInv, CompaniesInv, SavedAsEntered, FixedForm, EnteringForm

LEMMA FormsStepKeeps ==
    ASSUME FormsInv, patient => CompaniesInv, [OfficeNext]_officeVars
    PROVE  FormsInv' /\ (patient => CompaniesInv)'
<1>1. CASE UNCHANGED <<formVars, patient>>
  <2>1. UNCHANGED <<form, shown, edited, original, lookup, stage, patient>>
    BY <1>1 DEF formVars
  <2>2. SavedAsEntered'
    <3>1. SavedAsEntered' <=>
            (stage' = "saved" /\ form' \in RowForm => SavedAs(form', shown', original', edited'))
      BY DEF SavedAsEntered, SavedAs, ReadsAs, KeptAs, SettledAs, Settled, Kept
    <3>2. QED
      BY <2>1, <3>1, SavedAsEnteredIs DEF FormsInv
  <2>3. QED
    BY <2>1, <2>2 DEF FormsInv, CompaniesInv
<1>2. CASE FillForms
  <2>1. FormsStep(patient) /\ patient' = patient
    BY <1>2 DEF FillForms
  <2>2. FormsInv'
    BY <2>1, OpenKeeps, FillInKeeps, TouchKeeps, LookUpKeeps, LookUpAnswerKeeps, SubmitKeeps
       DEF FormsStep
  <2>3. patient => CompaniesInv'
    BY <2>1, CompaniesKeptByOpening, CompaniesKeptByFilling, CompaniesKeptByTouching,
       CompaniesKeptByLookingUp, CompaniesKeptBySubmitting DEF FormsStep
  <2>4. QED
    BY <2>1, <2>2, <2>3
<1>3. CASE ~FillForms
  <2>1. UNCHANGED <<formVars, patient>>
    BY <1>3 DEF OfficeNext, Environment, SignIn, Browse, SeedShop, Arrive, Handle, officeVars
  <2>2. QED
    BY <1>1, <2>1
<1>4. QED
  BY <1>2, <1>3

\* What an accepted form saves, its page shows again as it was entered, whatever
\* the user touches and in whatever order the answers about documents come; and
\* of a user who waits for them, a RUC is always that of a company.
THEOREM FormsSaveWhatTheyShow == OfficeSpec => []FormsAreFaithful
<1>1. OfficeInit => FormsInv /\ (patient => CompaniesInv)
  BY FormsInitially
<1>2. /\ FormsInv /\ (patient => CompaniesInv) /\ [OfficeNext]_officeVars
      => FormsInv' /\ (patient => CompaniesInv)'
  BY FormsStepKeeps
<1>3. FormsInv /\ (patient => CompaniesInv) => FormsAreFaithful
  BY DEF FormsInv, CompaniesInv, CompanyRow, FormsAreFaithful, RucMeansCompany
<1>4. QED
  BY <1>1, <1>2, <1>3, PTL DEF OfficeSpec
=============================================================================

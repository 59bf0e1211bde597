------------------------------- MODULE Settings --------------------------------
(***************************************************************************)
(* SettingsService.  business() returns the settings row and creates it    *)
(* when the database has none; nothing in the schema forbids a second row. *)
(* The tax rule is what sales and service orders read from it.             *)
(***************************************************************************)
EXTENDS Requests

CONSTANTS
    Row,        \* ids of BusinessSettings rows
    Tax,        \* values of (applyIgv, taxPercentage)
    DefaultTax  \* the tax rule of a row that business() creates

ASSUME SettingsAssumption == DefaultTax \in Tax /\ None \notin Tax \cup Row

VARIABLES
    settings,   \* committed BusinessSettings rows: the tax rule, or None
    saved,      \* the tax rule that the last completed update stored
    setting     \* the update of r: the row it found and what it will store

settingsVars == <<settings, saved, setting>>

Rows == {i \in Row : settings[i] # None}

\* Faulty variant: the row is looked up by the tax rule it is created with.
FaultyCurrent(i) == i \in Rows /\ settings[i] = DefaultTax

\* What findFirst may return: no order is stated.
Current(i) == i \in Rows

-----------------------------------------------------------------------------
(* business and tax, which end after the row is found; updateBusiness and *)
(* updateTax, which state a tax rule or, with None, other fields only      *)

FindSettings(r, tax) ==
    /\ \/ /\ \E i \in Row : Current(i) /\ setting' = [setting EXCEPT ![r] = [row |-> i, tax |-> tax]]
          /\ Step(r, "idle", "writeSettings")
       \/ /\ \A i \in Row : ~Current(i)
          /\ setting' = [setting EXCEPT ![r] = [row |-> None, tax |-> tax]]
          /\ Step(r, "idle", "createSettings")
    /\ UNCHANGED <<settings, saved>>

CreateSettings(r, i) ==
    /\ Step(r, "createSettings", "writeSettings")
    /\ i \in Row \ Rows
    /\ settings' = [settings EXCEPT ![i] = DefaultTax]
    /\ setting' = [setting EXCEPT ![r].row = i]
    /\ UNCHANGED saved

\* Only the fields stated are written.
WriteSettings(r) ==
    LET s == setting[r]
    IN  /\ Step(r, "writeSettings", "idle")
        /\ settings' = [settings EXCEPT ![s.row] = IF s.tax = None THEN @ ELSE s.tax]
        /\ saved' = IF s.tax = None THEN saved ELSE s.tax
        /\ setting' = [setting EXCEPT ![r] = None]

\* A reading ends without the UPDATE; so do a failed statement and a crash.
EndSettings(r) ==
    /\ pc[r] \in {"createSettings", "writeSettings"}
    /\ pc' = [pc EXCEPT ![r] = "idle"]
    /\ setting' = [setting EXCEPT ![r] = None]
    /\ UNCHANGED <<settings, saved>>

-----------------------------------------------------------------------------
SettingsStep(r) ==
    \/ \E i \in Row : CreateSettings(r, i)
    \/ WriteSettings(r) \/ EndSettings(r)

\* A database that was never seeded.
SettingsInit ==
    /\ settings = [i \in Row |-> None]
    /\ saved = DefaultTax
    /\ setting = [r \in Request |-> None]

-----------------------------------------------------------------------------
(* Properties *)

\* Whichever row the next sale's findFirst returns, it holds the tax rule saved
\* last: true while requests do not overlap; two first readings at once leave
\* two rows, of which updates and sales may each use another.
TaxIsTheSavedOne == \A i \in Row : Current(i) => settings[i] = saved
=============================================================================

--------------------------- MODULE InstitutionData ---------------------------
(***************************************************************************)
(* What reports about one institution are computed from: its balance sheet,*)
(* which imports replace, and its base yield curve, which saving a custom  *)
(* curve replaces.  Either is replaced by separate calls of the database,  *)
(* one that removes and one that adds, and nothing keeps two replacements  *)
(* apart.  An import is of one of three kinds:                             *)
(*   "full"  AlmEnterpriseService.importBalanceSheetItems, which updates   *)
(*           totalAssets in a third call;                                  *)
(*   "rows"  the ingestion of documents and of free-form CSV, which leaves *)
(*           totalAssets as it is;                                         *)
(*   "seed"  InstitutionSeedService, one transaction.                      *)
(* Every import is a call of its own and adds at least one row; the rows   *)
(* of an import stay together, so its name stands for them.                *)
(***************************************************************************)
EXTENDS Integers, FiniteSets

CONSTANTS Imports,        \* calls that import a balance sheet
          KindOf,         \* the kind of each
          Saves,          \* calls of saveCustomCurve
          NoCall,         \* stands for no import or save at all
          MaxDataFaults   \* bound: rejected calls and restarts

ASSUME ImportsAssumption ==
  /\ KindOf \in [Imports -> {"full", "rows", "seed"}]
  /\ NoCall \notin Imports \cup Saves
ASSUME DataFaultsAssumption == MaxDataFaults \in Nat

VARIABLES sheet,       \* the imports whose rows make up the balance sheet
          total,       \* the import that wrote totalAssets
          ipc,         \* where each import is
          last,        \* the import that emptied the sheet last
          overlapped,  \* history: imports that shared some time with another
          lost,        \* imports a fault has ended
          bases,       \* the saved curves with isBase set
          newest,      \* the curve saved last
          spc,         \* where each save is
          dataFaults

sheetVars == <<sheet, total, ipc, last, overlapped, lost>>
curveVars == <<bases, newest, spc>>
dataVars == <<sheetVars, curveVars, dataFaults>>

-----------------------------------------------------------------------------
DataTypeOK ==
  /\ sheet \subseteq Imports
  /\ total \in Imports \cup {NoCall} /\ last \in Imports \cup {NoCall}
  /\ ipc \in [Imports -> {"new", "create", "total", "done"}]
  /\ \A i \in Imports : ipc[i] = "total" => i \in sheet \/ i \in overlapped
  /\ overlapped \subseteq Imports /\ lost \subseteq Imports
  /\ bases \subseteq Saves /\ newest \in Saves \cup {NoCall}
  /\ spc \in [Saves -> {"new", "create", "done"}]
  /\ dataFaults \in 0 .. MaxDataFaults

DataInit ==
  /\ sheet = {} /\ total = NoCall /\ last = NoCall
  /\ ipc = [i \in Imports |-> "new"]
  /\ overlapped = {} /\ lost = {}
  /\ bases = {} /\ newest = NoCall /\ spc = [v \in Saves |-> "new"]
  /\ dataFaults = 0

DataFault == dataFaults < MaxDataFaults /\ dataFaults' = dataFaults + 1

-----------------------------------------------------------------------------
\* Imports.

Importing == {i \in Imports : ipc[i] \in {"create", "total"}}

\* What an import finds under way when it starts.
Meet(i) ==
  overlapped' = IF Importing = {} THEN overlapped
                ELSE overlapped \cup Importing \cup {i}

\* Mutant of Empty: the rows of a former import stay.
Append(i) ==
  /\ ipc[i] = "new" /\ KindOf[i] # "seed"
  /\ ipc' = [ipc EXCEPT ![i] = "create"]
  /\ last' = i /\ Meet(i)
  /\ UNCHANGED <<sheet, total, lost, curveVars, dataFaults>>

Empty(i) ==
  /\ ipc[i] = "new" /\ KindOf[i] # "seed"
  /\ ipc' = [ipc EXCEPT ![i] = "create"]
  /\ sheet' = {} /\ last' = i /\ Meet(i)
  /\ UNCHANGED <<total, lost, curveVars, dataFaults>>

Fill(i) ==
  /\ ipc[i] = "create"
  /\ ipc' = [ipc EXCEPT ![i] = IF KindOf[i] = "full" THEN "total" ELSE "done"]
  /\ sheet' = sheet \cup {i}
  /\ UNCHANGED <<total, last, overlapped, lost, curveVars, dataFaults>>

WriteTotal(i) ==
  /\ ipc[i] = "total" /\ ipc' = [ipc EXCEPT ![i] = "done"]
  /\ total' = i
  /\ UNCHANGED <<sheet, last, overlapped, lost, curveVars, dataFaults>>

Seed(i) ==
  /\ ipc[i] = "new" /\ KindOf[i] = "seed"
  /\ ipc' = [ipc EXCEPT ![i] = "done"]
  /\ sheet' = {i} /\ total' = i /\ last' = i /\ Meet(i)
  /\ UNCHANGED <<lost, curveVars, dataFaults>>

ImportThrows(i) ==
  /\ i \in Importing
  /\ ipc' = [ipc EXCEPT ![i] = "done"] /\ lost' = lost \cup {i}
  /\ DataFault
  /\ UNCHANGED <<sheet, total, last, overlapped, curveVars>>

-----------------------------------------------------------------------------
\* saveCustomCurve

Unset(v) ==
  /\ spc[v] = "new" /\ spc' = [spc EXCEPT ![v] = "create"]
  /\ bases' = {}
  /\ UNCHANGED <<sheetVars, newest, dataFaults>>

\* Mutant of SaveCurve: a curve is the base if there is none.
SaveIfNone(v) ==
  /\ spc[v] = "create" /\ spc' = [spc EXCEPT ![v] = "done"]
  /\ bases' = IF bases = {} THEN {v} ELSE bases
  /\ newest' = v
  /\ UNCHANGED <<sheetVars, dataFaults>>

SaveCurve(v) ==
  /\ spc[v] = "create" /\ spc' = [spc EXCEPT ![v] = "done"]
  /\ bases' = bases \cup {v} /\ newest' = v
  /\ UNCHANGED <<sheetVars, dataFaults>>

SaveThrows(v) ==
  /\ spc[v] = "create" /\ spc' = [spc EXCEPT ![v] = "done"]
  /\ DataFault
  /\ UNCHANGED <<sheetVars, bases, newest>>

-----------------------------------------------------------------------------
DataRestart ==
  /\ DataFault
  /\ ipc' = [i \in Imports |-> IF i \in Importing THEN "done" ELSE ipc[i]]
  /\ lost' = lost \cup Importing
  /\ spc' = [v \in Saves |-> IF spc[v] = "create" THEN "done" ELSE spc[v]]
  /\ UNCHANGED <<sheet, total, last, overlapped, bases, newest>>

DataNext ==
  \/ \E i \in Imports : Empty(i) \/ Fill(i) \/ WriteTotal(i) \/ Seed(i)
                        \/ ImportThrows(i)
  \/ \E v \in Saves : Unset(v) \/ SaveCurve(v) \/ SaveThrows(v)
  \/ DataRestart

DataSpec == DataInit /\ [][DataNext]_dataVars

-----------------------------------------------------------------------------
(* Properties *)

\* Whatever state overlapping or lost imports have left, the next import that
\* runs alone to its end makes the sheet its own, and totalAssets its total if
\* it writes one.
SheetIsLastImport ==
  (last # NoCall /\ last \notin overlapped \cup lost /\ ipc[last] = "done") =>
    /\ sheet = {last}
    /\ KindOf[last] # "rows" => total = last

\* However saves overlap, the curve saved last is a base, and so the base the
\* calculations take (the newest of them), except while a save that has unset
\* it is under way and after a fault.
BaseIsNewest ==
  (dataFaults = 0 /\ \A v \in Saves : spc[v] # "create") =>
    newest = NoCall \/ newest \in bases

\* The comment of importBalanceSheetItems: delete existing items and replace.
ImportReplaces ==
  (Importing = {} /\ lost = {}) => Cardinality(sheet) <= 1
=============================================================================

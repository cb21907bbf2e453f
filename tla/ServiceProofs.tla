--------------------------- MODULE ServiceProofs ---------------------------
(***************************************************************************)
(* Proofs about the small services, for any number of callers: first       *)
(* InstitutionData, Organizations, RateAlerts, EwsCapture and Sessions one *)
(* by one, then all of them side by side as MCServices runs them, with the *)
(* results of EmailSequenceProofs and RealtimeAlmProofs.                   *)
(***************************************************************************)
EXTENDS MCServices, EmailSequenceProofs, RealtimeAlmProofs, TLAPS,
        FiniteSetTheorems, WellFoundedInduction

USE ImportsAssumption, DataFaultsAssumption

-----------------------------------------------------------------------------
(* InstitutionData *)

\* Every variable keeps its type, and an import that has yet to write its total
\* has its rows in the sheet unless another has run at the same time.
THEOREM DataTypeCorrect == DataSpec => []DataTypeOK
<1>1. DataInit => DataTypeOK
  BY DEF DataInit, DataTypeOK
<1>2. DataTypeOK /\ [DataNext]_dataVars => DataTypeOK'
  <2> SUFFICES ASSUME DataTypeOK, [DataNext]_dataVars PROVE DataTypeOK'
    OBVIOUS
  <2> USE DEF sheetVars, curveVars, DataFault
  <2>1. ASSUME NEW i \in Imports, Empty(i) PROVE DataTypeOK'
    <3>1. overlapped' \subseteq Imports /\ overlapped \subseteq overlapped'
      BY <2>1 DEF DataTypeOK, Empty, Meet, Importing
    <3>2. \A j \in Imports : ipc'[j] = "total" => j \in overlapped'
      BY <2>1 DEF DataTypeOK, Empty, Meet, Importing
    <3> QED
      BY <2>1, <3>1, <3>2 DEF DataTypeOK, Empty
  <2>2. ASSUME NEW i \in Imports, Seed(i) PROVE DataTypeOK'
    <3>1. overlapped' \subseteq Imports /\ overlapped \subseteq overlapped'
      BY <2>2 DEF DataTypeOK, Seed, Meet, Importing
    <3>2. \A j \in Imports : ipc'[j] = "total" => j \in overlapped'
      BY <2>2 DEF DataTypeOK, Seed, Meet, Importing
    <3> QED
      BY <2>2, <3>1, <3>2 DEF DataTypeOK, Seed
  <2>3. ASSUME NEW i \in Imports, Fill(i) \/ WriteTotal(i) \/ ImportThrows(i)
        PROVE  DataTypeOK'
    BY <2>3 DEF DataTypeOK, Fill, WriteTotal, ImportThrows
  <2>4. ASSUME NEW v \in Saves, Unset(v) \/ SaveCurve(v) \/ SaveThrows(v)
        PROVE  DataTypeOK'
    BY <2>4 DEF DataTypeOK, Unset, SaveCurve, SaveThrows
  <2>5. CASE DataRestart
    BY <2>5 DEF DataTypeOK, DataRestart, Importing
  <2>6. CASE UNCHANGED dataVars
    BY <2>6 DEF DataTypeOK, dataVars
  <2> QED
    BY <2>1, <2>2, <2>3, <2>4, <2>5, <2>6 DEF DataNext
<1> QED
  BY <1>1, <1>2, PTL DEF DataSpec

-----------------------------------------------------------------------------
(* An import that shares no time with another and that no fault has ended   *)
(* is, until the next begins, the only one under way, and has the sheet to  *)
(* itself.                                                                  *)

RunsAlone(i) == i \notin overlapped \cup lost

OwnSheet(i) ==
  /\ Importing \subseteq {i} /\ ipc[i] # "new"
  /\ ipc[i] = "create" => sheet = {} /\ KindOf[i] # "seed"
  /\ ipc[i] \in {"total", "done"} => sheet = {i}
  /\ ipc[i] = "total" => KindOf[i] = "full"
  /\ ipc[i] = "done" /\ KindOf[i] # "rows" => total = i

SheetInv == \A i \in Imports : i = last /\ RunsAlone(i) => OwnSheet(i)

\* The next import that runs alone repairs what overlapping or lost ones have
\* left (importBalanceSheetItems and its siblings), for any number of them.
THEOREM LastImportWins == DataSpec => []SheetIsLastImport
<1>1. DataInit => SheetInv
  BY DEF DataInit, SheetInv
<1>2. DataTypeOK /\ SheetInv /\ [DataNext]_dataVars => SheetInv'
  <2> SUFFICES ASSUME DataTypeOK, SheetInv, [DataNext]_dataVars,
                      NEW i \in Imports, i = last', RunsAlone(i)'
               PROVE  OwnSheet(i)'
    BY DEF SheetInv
  <2> USE DEF sheetVars, curveVars, OwnSheet
  <2>1. ASSUME NEW j \in Imports, Empty(j)
        PROVE  i = j /\ Importing = {} /\ ipc' = [ipc EXCEPT ![i] = "create"]
               /\ sheet' = {} /\ KindOf[i] # "seed"
    BY <2>1 DEF Empty, Meet, RunsAlone
  <2>2. ASSUME NEW j \in Imports, Seed(j)
        PROVE  i = j /\ Importing = {} /\ ipc' = [ipc EXCEPT ![i] = "done"]
               /\ sheet' = {i} /\ total' = i
    BY <2>2 DEF Seed, Meet, RunsAlone
  <2>3. CASE \E j \in Imports : Empty(j)
    BY <2>1, <2>3 DEF DataTypeOK, Importing
  <2>4. CASE \E j \in Imports : Seed(j)
    BY <2>2, <2>4 DEF DataTypeOK, Importing
  <2>5. ASSUME i = last, RunsAlone(i)
        PROVE  OwnSheet(i)
    BY <2>5 DEF SheetInv
  <2>6. ASSUME NEW j \in Imports, Fill(j) PROVE OwnSheet(i)'
    <3>1. i = last /\ RunsAlone(i) /\ j \in Importing
      BY <2>6 DEF Fill, RunsAlone, Importing
    <3>2. j = i
      BY <2>5, <3>1
    <3>3. KindOf[i] \in {"full", "rows", "seed"} /\ sheet = {} /\ sheet' = {i}
      BY <2>5, <2>6, <3>1, <3>2 DEF Fill
    <3>4. KindOf[i] # "seed"
      BY <2>5, <2>6, <3>1, <3>2 DEF Fill
    <3> QED
      BY <2>5, <2>6, <3>1, <3>2, <3>3, <3>4 DEF Fill, DataTypeOK, Importing
  <2>7. ASSUME NEW j \in Imports, WriteTotal(j) PROVE OwnSheet(i)'
    <3>1. i = last /\ RunsAlone(i) /\ j \in Importing
      BY <2>7 DEF WriteTotal, RunsAlone, Importing
    <3>2. j = i
      BY <2>5, <3>1
    <3> QED
      BY <2>5, <2>7, <3>1, <3>2 DEF WriteTotal, DataTypeOK, Importing
  <2>8. ASSUME NEW j \in Imports, ImportThrows(j) PROVE OwnSheet(i)'
    <3>1. i = last /\ RunsAlone(i) /\ i # j /\ j \in Importing
      BY <2>8 DEF ImportThrows, RunsAlone
    <3> QED
      BY <2>5, <3>1
  <2>9. CASE DataRestart
    <3>1. i = last /\ RunsAlone(i) /\ i \notin Importing
      BY <2>9 DEF DataRestart, RunsAlone
    <3>2. Importing = {}
      BY <2>5, <3>1
    <3>3. ipc' = ipc
      BY <2>9, <3>2 DEF DataRestart, DataTypeOK
    <3> QED
      BY <2>5, <2>9, <3>1, <3>2, <3>3 DEF DataRestart, Importing
  <2>10. CASE UNCHANGED sheetVars
    BY <2>5, <2>10 DEF Importing, RunsAlone
  <2> QED
    BY <2>3, <2>4, <2>6, <2>7, <2>8, <2>9, <2>10
    DEF DataNext, dataVars, Unset, SaveCurve, SaveThrows
<1>3. DataTypeOK /\ SheetInv => SheetIsLastImport
  BY DEF DataTypeOK, SheetInv, SheetIsLastImport, RunsAlone, OwnSheet
<1> QED
  BY <1>1, <1>2, <1>3, DataTypeCorrect, PTL DEF DataSpec

-----------------------------------------------------------------------------
\* A save in flight has unset the base, or the newest curve is one.
BaseInv ==
  dataFaults = 0 =>
    newest = NoCall \/ newest \in bases \/ \E v \in Saves : spc[v] = "create"

\* The curve saved last is a base (saveCustomCurve), for any number of saves.
THEOREM NewestIsBase == DataSpec => []BaseIsNewest
<1>1. DataInit => BaseInv
  BY DEF DataInit, BaseInv
<1>2. DataTypeOK /\ BaseInv /\ [DataNext]_dataVars => BaseInv'
  <2> SUFFICES ASSUME DataTypeOK, BaseInv, [DataNext]_dataVars PROVE BaseInv'
    OBVIOUS
  <2>1. ASSUME NEW v \in Saves, Unset(v) PROVE BaseInv'
    BY <2>1 DEF DataTypeOK, Unset, BaseInv
  <2>2. ASSUME NEW v \in Saves, SaveCurve(v) PROVE BaseInv'
    BY <2>2 DEF SaveCurve, BaseInv
  <2>3. CASE DataFault
    BY <2>3 DEF DataTypeOK, DataFault, BaseInv
  <2>4. CASE UNCHANGED <<curveVars, dataFaults>>
    BY <2>4 DEF curveVars, BaseInv
  <2> QED
    BY <2>1, <2>2, <2>3, <2>4
    DEF DataNext, dataVars, Empty, Seed, Fill, WriteTotal, ImportThrows,
        SaveThrows, DataRestart
<1>3. BaseInv => BaseIsNewest
  BY DEF BaseInv, BaseIsNewest
<1> QED
  BY <1>1, <1>2, <1>3, DataTypeCorrect, PTL DEF DataSpec

-----------------------------------------------------------------------------
(* Organizations *)

\* A removal that was admitted and has not seen one lose the role since has its caller
\* as an admin and, if it removes him and was cleared, another one.
Backed(r) ==
  Waits(r, "remove") /\ r \notin weakened =>
    /\ request[r].by \in Admins
    /\ r \in cleared => \E u \in Admins : u # request[r].by

OrgInv == OrgTypeOK /\ \A r \in Requests : Backed(r)

LEMMA OrgTypeStep == OrgTypeOK /\ [OrgNext]_orgVars => OrgTypeOK'
<1> SUFFICES ASSUME OrgTypeOK, [OrgNext]_orgVars PROVE OrgTypeOK'
  OBVIOUS
<1>1. ASSUME NEW r \in Requests, NEW by \in Users, NEW target \in Users,
             NEW to \in Roles, NEW op \in {"add", "remove", "update"},
             Admit(r, op, by, target, to)
      PROVE  OrgTypeOK'
  BY <1>1 DEF Admit, OrgTypeOK
<1>2. ASSUME NEW r \in Requests, LookForMember(r) \/ CountAdmins(r) \/ Refused(r)
      PROVE  OrgTypeOK'
  BY <1>2 DEF LookForMember, CountAdmins, Refused, EndRequest, Waits, OrgTypeOK
<1>3. ASSUME NEW r \in Requests, request[r] # NoRequest, SetRole(r)
      PROVE  OrgTypeOK'
  BY <1>3 DEF SetRole, EndRequest, Others, OrgTypeOK
<1>4. CASE UNCHANGED orgVars
  BY <1>4 DEF orgVars, OrgTypeOK
<1> QED
  BY <1>1, <1>2, <1>3, <1>4
  DEF OrgNext, AddMember, RemoveMember, UpdateMemberRole, Waits

\* Of the calls under way, those that see no admin lose the role keep all.
LEMMA AdminsStay ==
  ASSUME OrgTypeOK, NEW r \in Requests, request[r] # NoRequest, SetRole(r),
         NEW q \in Requests, request'[q] # NoRequest, q \notin weakened'
  PROVE  /\ Admins \subseteq Admins' /\ request[q] # NoRequest
         /\ q \notin weakened /\ request'[q] = request[q]
         /\ q \in cleared' => q \in cleared
<1>1. q # r /\ request[q] # NoRequest /\ request'[q] = request[q]
      /\ (q \in cleared' => q \in cleared)
  BY DEF SetRole, EndRequest, OrgTypeOK
<1>2. ~(role[request[r].target] = "ADMIN" /\ request[r].to # "ADMIN")
  BY <1>1 DEF SetRole, Others
<1>3. q \notin weakened
  BY <1>1, <1>2 DEF SetRole
<1>4. Admins \subseteq Admins'
  BY <1>2 DEF SetRole, Admins, OrgTypeOK
<1> QED
  BY <1>1, <1>3, <1>4

LEMMA OrgStep == OrgInv /\ [OrgNext]_orgVars => OrgInv'
<1> SUFFICES ASSUME OrgInv, [OrgNext]_orgVars, NEW q \in Requests,
                    Waits(q, "remove")', q \notin weakened'
             PROVE  Backed(q)'
  BY OrgTypeStep DEF OrgInv, Backed
<1> USE DEF OrgInv
<1>1. ASSUME NEW r \in Requests, NEW by \in Users, NEW target \in Users,
             NEW to \in Roles, NEW op \in {"add", "remove", "update"},
             Admit(r, op, by, target, to)
      PROVE  Backed(q)'
  BY <1>1 DEF Admit, Backed, Waits, Admins, OrgTypeOK
<1>2. ASSUME NEW r \in Requests, LookForMember(r) \/ Refused(r)
      PROVE  Backed(q)'
  BY <1>2 DEF LookForMember, Refused, EndRequest, Backed, Waits, Admins, OrgTypeOK
<1>3. ASSUME NEW r \in Requests, CountAdmins(r)
      PROVE  Backed(q)'
  <2>1. CASE q = r
    <3>1. request[r].by \in Admins /\ request' = request
      BY <1>3, <2>1 DEF CountAdmins, Backed, Waits, OrgTypeOK
    <3>2. Admins # {request[r].by}
      BY <1>3, FS_Singleton DEF CountAdmins
    <3>3. Admins' = Admins
      BY <1>3 DEF CountAdmins, Admins
    <3> QED
      BY <2>1, <3>1, <3>2, <3>3 DEF Backed
  <2>2. CASE q # r
    BY <1>3, <2>2 DEF CountAdmins, Backed, Waits, Admins, OrgTypeOK
  <2> QED
    BY <2>1, <2>2
<1>4. ASSUME NEW r \in Requests, request[r] # NoRequest, SetRole(r)
      PROVE  Backed(q)'
  BY <1>4, AdminsStay DEF Backed, Waits
<1>5. CASE UNCHANGED orgVars
  BY <1>5 DEF orgVars, Backed, Waits, Admins
<1> QED
  BY <1>1, <1>2, <1>3, <1>4, <1>5
  DEF OrgNext, AddMember, RemoveMember, UpdateMemberRole, Waits

LEMMA OrgInvariant == OrgSpec => []OrgInv
<1>1. OrgInit => OrgInv
  BY DEF OrgInit, OrgInv, OrgTypeOK, Roles, Backed, Waits
<1> QED
  BY <1>1, OrgStep, PTL DEF OrgSpec

\* The last admin goes only through a change of roles or during overlapping
\* losses (removeMember), for any number of members and calls.
THEOREM LastAdminIsKept == OrgSpec => LastAdminStays
<1> DEFINE Excused ==
      \E r \in Requests :
        /\ request[r] # NoRequest /\ request'[r] = NoRequest
        /\ request[r].op = "update" \/ r \in weakened
<1>1. OrgInv /\ [OrgNext]_orgVars => [Admins # {} /\ Admins' = {} => Excused]_orgVars
  <2> SUFFICES ASSUME OrgInv, OrgNext, Admins # {}, Admins' = {}
               PROVE  Excused
    OBVIOUS
  <2>1. PICK r \in Requests :
          AddMember(r) \/ RemoveMember(r) \/ UpdateMemberRole(r)
    BY DEF OrgNext, Admit, LookForMember, CountAdmins, Refused, Admins
  <2>2. request[r] # NoRequest /\ SetRole(r) /\ request'[r] = NoRequest
    BY <2>1 DEF AddMember, RemoveMember, UpdateMemberRole, Waits, SetRole,
                EndRequest, OrgInv, OrgTypeOK
  <2>3. ASSUME NEW u \in Admins PROVE u = request[r].target
    BY <2>2, <2>3 DEF SetRole, Admins, OrgInv, OrgTypeOK
  <2>4. CASE AddMember(r)
    BY <2>3, <2>4 DEF AddMember, Admins
  <2>5. CASE RemoveMember(r)
    BY <2>2, <2>3, <2>5 DEF RemoveMember, OrgInv, Backed
  <2>6. CASE UpdateMemberRole(r)
    BY <2>2, <2>6 DEF UpdateMemberRole, Waits
  <2> QED
    BY <2>1, <2>4, <2>5, <2>6
<1> QED
  BY <1>1, OrgInvariant, PTL DEF OrgSpec, LastAdminStays

-----------------------------------------------------------------------------
(* RateAlerts *)

\* No removal from the table is under way.
NoRemoval == \A w \in Writers : writing[w] # "delete"

\* Nothing a check has found or an alert stands for is about to go.
AlertInv ==
  /\ AlertTypeOK
  /\ \A c \in Checks : found[c] # "idle" /\ ~removing[c] =>
       NoRemoval /\ (found[c] = "this" => row)
  /\ alerts # {} /\ ~stray => NoRemoval /\ (mem \/ row)

LEMMA AlertInvariant == AlertSpec => []AlertInv
<1>1. AlertInit => AlertInv
  BY DEF AlertInit, AlertInv, AlertTypeOK
<1>2. AlertInv /\ [AlertNext]_alertVars => AlertInv'
  <2> SUFFICES ASSUME AlertInv, [AlertNext]_alertVars PROVE AlertInv'
    OBVIOUS
  <2> USE DEF AlertInv, AlertTypeOK, NoRemoval
  <2>1. ASSUME NEW w \in Writers, SetThreshold(w) PROVE AlertInv'
    BY <2>1 DEF SetThreshold
  <2>2. ASSUME NEW w \in Writers, RemoveThreshold(w) PROVE AlertInv'
    BY <2>2 DEF RemoveThreshold
  <2>3. ASSUME NEW w \in Writers, Persist(w) PROVE AlertInv'
    BY <2>3 DEF Persist
  <2>4. ASSUME NEW w \in Writers, PersistRejected(w) PROVE AlertInv'
    BY <2>4 DEF PersistRejected
  <2>5. ASSUME NEW c \in Checks, ReadThresholds(c) PROVE AlertInv'
    BY <2>5 DEF ReadThresholds
  <2>6. ASSUME NEW c \in Checks, Evaluate(c) PROVE AlertInv'
    <3>1. alerts' \subseteq Levels
      BY <2>6 DEF Evaluate
    <3>2. stray' \in BOOLEAN /\ (stray' => alerts' # {})
      <4>1. CASE UNCHANGED <<alerts, stray>>
        BY <4>1
      <4>2. CASE stray' = (alerts' # {} /\ (stray \/ removing[c]))
        <5> DEFINE b == alerts' # {} /\ (stray \/ removing[c])
        <5>1. b \in BOOLEAN /\ (b => alerts' # {})
          OBVIOUS
        <5> QED
          BY <4>2, <5>1, Zenon
      <4> QED
        BY <2>6, <4>1, <4>2, Zenon DEF Evaluate
    <3>3. alerts' # {} /\ ~stray' => NoRemoval /\ (mem \/ row)
      BY <2>6 DEF Evaluate, Applies
    <3>4. \A b \in Checks : found'[b] # "idle" /\ ~removing'[b] =>
            found'[b] = found[b] /\ ~removing[b]
      BY <2>6 DEF Evaluate
    <3>5. found' \in [Checks -> {"idle", "this", "others", "nothing"}]
          /\ removing' \in [Checks -> BOOLEAN]
      BY <2>6 DEF Evaluate
    <3> QED
      BY <2>6, <3>1, <3>2, <3>3, <3>4, <3>5 DEF Evaluate
  <2>7. CASE AlertRestart
    BY <2>7 DEF AlertRestart
  <2>8. CASE UNCHANGED alertVars
    BY <2>8 DEF alertVars
  <2> QED
    BY <2>1, <2>2, <2>3, <2>4, <2>5, <2>6, <2>7, <2>8 DEF AlertNext
<1> QED
  BY <1>1, <1>2, PTL DEF AlertSpec

\* An active alert has a threshold (checkThresholds), for any number of
\* overlapping checks, changes and removals.
THEOREM AlertsAreFounded == AlertSpec => []AlertsHaveThreshold
<1>1. AlertInv => AlertsHaveThreshold
  BY DEF AlertInv, AlertsHaveThreshold
<1> QED
  BY <1>1, AlertInvariant, PTL

-----------------------------------------------------------------------------
(* EwsCapture *)

USE EwsAssumption

LEMMA EwsTypeStep == EwsTypeOK /\ [EwsNext]_ewsVars => EwsTypeOK'
<1> SUFFICES ASSUME EwsTypeOK, [EwsNext]_ewsVars PROVE EwsTypeOK'
  OBVIOUS
<1> USE DEF EwsTypeOK, Days, rowVars, captureVars, Moves, NoPrior, Ends
<1>1. ASSUME NEW c \in Captures, Compute(c) PROVE EwsTypeOK'
  BY <1>1 DEF Compute
<1>2. ASSUME NEW c \in Captures, Date(c) PROVE EwsTypeOK'
  BY <1>2 DEF Date
<1>3. ASSUME NEW c \in Captures, FindPrior(c) PROVE EwsTypeOK'
  <2>1. PICK n \in 0 .. MaxDay :
          before' = [before EXCEPT ![c] = [day |-> n, band |-> BandOf(n)]]
    BY <1>3 DEF FindPrior
  <2>2. BandOf(n) \in Results \cup {NoBand}
    BY DEF BandOf
  <2>3. before' \in [Captures -> [day : 0 .. MaxDay, band : Results \cup {NoBand}]]
    BY <2>1, <2>2
  <2>4. \A b \in Captures : epc'[b] \in {"prior", "store"} => epc[b] \in {"prior", "store"}
    BY <1>3 DEF FindPrior
  <2> QED
    BY <1>3, <2>3, <2>4 DEF FindPrior
<1>4. ASSUME NEW c \in Captures, Ends(c), epc' = [epc EXCEPT ![c] = "idle"],
             overtaken' \in [Captures -> BOOLEAN]
      PROVE  /\ epc' \in [Captures -> {"idle", "date", "prior", "store"}]
             /\ result' \in [Captures -> Results \cup {NoBand}]
             /\ day' \in [Captures -> 0 .. MaxDay]
             /\ before' \in [Captures -> [day : 0 .. MaxDay, band : Results \cup {NoBand}]]
             /\ \A b \in Captures : epc'[b] \in {"prior", "store"} => day'[b] \in 1 .. today
  BY <1>4
<1>5. ASSUME NEW c \in Captures, Failed(c) PROVE EwsTypeOK'
  BY <1>4, <1>5 DEF Failed
<1>6. ASSUME NEW c \in Captures, StoreSnapshot(c) PROVE EwsTypeOK'
  <2>1. day[c] \in Days /\ result[c] \in Results \cup {NoBand}
        /\ before[c].day \in 0 .. MaxDay /\ before[c].band \in Results \cup {NoBand}
    BY <1>6 DEF StoreSnapshot
  <2>2. /\ band' \in [Days -> Results \cup {NoBand}]
        /\ prior' \in [Days -> 0 .. MaxDay]
        /\ fromBand' \in [Days -> Results \cup {NoBand}]
    BY <1>6, <2>1 DEF StoreSnapshot
  <2>3. passed' \in [Days -> BOOLEAN] /\ overtaken' \in [Captures -> BOOLEAN]
    BY <1>6, <2>1, Zenon DEF StoreSnapshot
  <2> QED
    BY <1>4, <1>6, <2>2, <2>3 DEF StoreSnapshot
<1>7. CASE Drift \/ Midnight
  BY <1>7 DEF Drift, Midnight
<1>8. CASE UNCHANGED ewsVars
  BY <1>8 DEF ewsVars
<1> QED
  BY <1>1, <1>2, <1>3, <1>5, <1>6, <1>7, <1>8 DEF EwsNext

\* What a snapshot, or a capture about to write one, holds of the days before
\* day d.
Against(n, b, d) == IsNewest(n, 1 .. d - 1) /\ b = BandOf(n)

TrendInv ==
  /\ EwsTypeOK
  /\ \A c \in Captures : epc[c] = "store" /\ ~overtaken[c] =>
       Against(before[c].day, before[c].band, day[c])
  /\ \A c \in Captures : overtaken[c] => epc[c] = "store"
  /\ TrendIsAgainstPrior

LEMMA AgainstStays ==
  ASSUME EwsTypeOK, NEW n, NEW b, NEW d \in Days, Against(n, b, d),
         \A e \in 1 .. d - 1 : band'[e] = band[e]
  PROVE  Against(n, b, d)'
BY DEF Against, IsNewest, BandOf, Days

LEMMA TrendStep == TrendInv /\ [EwsNext]_ewsVars => TrendInv'
<1> SUFFICES ASSUME TrendInv, [EwsNext]_ewsVars PROVE TrendInv'
  OBVIOUS
<1>1. EwsTypeOK /\ EwsTypeOK'
  BY EwsTypeStep DEF TrendInv
<1>2. ASSUME NEW c \in Captures, Compute(c) \/ Date(c) \/ Failed(c) PROVE TrendInv'
  <2>1. UNCHANGED rowVars
    BY <1>2 DEF Compute, Date, Failed
  <2>2. ASSUME NEW b \in Captures, epc'[b] = "store" \/ overtaken'[b]
        PROVE  epc[b] = "store" /\ epc'[b] = "store" /\ before'[b] = before[b]
               /\ day'[b] = day[b] /\ overtaken'[b] = overtaken[b]
    BY <1>1, <1>2, <2>2
    DEF TrendInv, EwsTypeOK, Compute, Date, Failed, Moves, Ends
  <2> QED
    BY <1>1, <2>1, <2>2
    DEF TrendInv, TrendIsAgainstPrior, Against, IsNewest, BandOf, rowVars
<1>3. ASSUME NEW c \in Captures, FindPrior(c) PROVE TrendInv'
  <2>1. UNCHANGED <<rowVars, day, overtaken>>
    BY <1>3 DEF FindPrior
  <2>2. PICK n \in 0 .. MaxDay :
          /\ IsNewest(n, 1 .. day[c] - 1)
          /\ before' = [before EXCEPT ![c] = [day |-> n, band |-> BandOf(n)]]
    BY <1>3 DEF FindPrior
  <2>3. Against(before'[c].day, before'[c].band, day[c])
    BY <1>1, <2>2 DEF EwsTypeOK, Against
  <2>4. ASSUME NEW b \in Captures, b # c
        PROVE  epc'[b] = epc[b] /\ before'[b] = before[b]
    BY <1>1, <1>3, <2>2, <2>4 DEF EwsTypeOK, FindPrior, Moves
  <2>5. epc'[c] = "store"
    BY <1>1, <1>3 DEF EwsTypeOK, FindPrior, Moves
  <2> QED
    BY <1>1, <2>1, <2>3, <2>4, <2>5
    DEF TrendInv, TrendIsAgainstPrior, Against, IsNewest, BandOf, rowVars
<1>4. ASSUME NEW c \in Captures, StoreSnapshot(c) PROVE TrendInv'
  <2> DEFINE d == day[c]
  <2>1. d \in Days /\ epc[c] = "store" /\ today \in Nat
    BY <1>1, <1>4 DEF StoreSnapshot, Moves, EwsTypeOK, Days
  <2>2. \A e \in Days : e # d =>
          band'[e] = band[e] /\ prior'[e] = prior[e] /\ fromBand'[e] = fromBand[e]
    BY <1>1, <1>4 DEF StoreSnapshot, EwsTypeOK
  <2>3. prior'[d] = before[c].day /\ fromBand'[d] = before[c].band
        /\ passed'[d] = overtaken[c]
    BY <1>1, <1>4, <2>1 DEF StoreSnapshot, EwsTypeOK
  <2>4. \A e \in Days : e <= d => \A f \in 1 .. e - 1 : band'[f] = band[f]
    BY <2>1, <2>2 DEF Days
  <2>5. ASSUME NEW b \in Captures, epc'[b] = "store", ~overtaken'[b]
        PROVE  Against(before[b].day, before[b].band, day[b])'
    <3>1. b # c /\ epc[b] = "store" /\ before'[b] = before[b] /\ day'[b] = day[b]
      BY <1>1, <1>4, <2>5 DEF StoreSnapshot, EwsTypeOK, Moves, Ends
    <3>2. ~overtaken[b] /\ ~(d < day[b])
      BY <1>4, <2>5, <3>1 DEF StoreSnapshot
    <3>3. day[b] \in Days /\ day[b] <= d
      BY <1>1, <2>1, <3>1, <3>2 DEF EwsTypeOK, Days
    <3>4. Against(before[b].day, before[b].band, day[b])
      BY <3>1, <3>2 DEF TrendInv
    <3>5. \A e \in 1 .. day[b] - 1 : band'[e] = band[e]
      BY <2>4, <3>3
    <3> DEFINE n == before[b].day
               w == before[b].band
               e == day[b]
    <3>6. Against(n, w, e) /\ e \in Days /\ \A f \in 1 .. e - 1 : band'[f] = band[f]
      BY <3>3, <3>4, <3>5
    <3>7. IsNewest(n, 1 .. e - 1)' /\ w = BandOf(n)'
      BY <1>1, <3>6, <3>1 DEF Against, IsNewest, BandOf, Days
    <3> QED
      BY <3>1, <3>7 DEF Against
  <2>6. ASSUME NEW b \in Captures, overtaken'[b] PROVE epc'[b] = "store"
    BY <1>1, <1>4, <2>6 DEF StoreSnapshot, EwsTypeOK, Moves, TrendInv
  <2>7. ASSUME NEW e \in Days, band'[e] # NoBand, ~passed'[e]
        PROVE  Against(prior[e], fromBand[e], e)'
    <3>1. CASE e = d
      <4>1. Against(before[c].day, before[c].band, d)
        BY <2>1, <2>3, <2>7, <3>1 DEF TrendInv
      <4> QED
        BY <2>3, <2>4, <3>1, <4>1, <2>1 DEF Against, IsNewest, BandOf, Days
    <3>2. CASE e # d
      <4>1. passed[e] \/ (d < e /\ band[e] # NoBand) => passed'[e]
        BY <1>4, <3>2, Zenon DEF StoreSnapshot
      <4>2. band[e] # NoBand /\ ~passed[e] /\ e <= d
        BY <2>1, <2>2, <2>7, <3>2, <4>1 DEF Days
      <4>3. Against(prior[e], fromBand[e], e)
        BY <4>2 DEF TrendInv, TrendIsAgainstPrior, Against
      <4>4. prior'[e] = prior[e] /\ fromBand'[e] = fromBand[e]
            /\ \A f \in 1 .. e - 1 : band'[f] = band[f]
        BY <2>2, <2>4, <3>2, <4>2
      <4> QED
        BY <4>3, <4>4 DEF Against, IsNewest, BandOf, Days
    <3> QED
      BY <3>1, <3>2
  <2> QED
    BY <1>1, <2>5, <2>6, <2>7 DEF TrendInv, TrendIsAgainstPrior, Against
<1>5. CASE Drift \/ Midnight \/ UNCHANGED ewsVars
  <2>1. UNCHANGED <<rowVars, captureVars>>
    BY <1>5 DEF Drift, Midnight, ewsVars
  <2> QED
    BY <1>1, <2>1
    DEF TrendInv, TrendIsAgainstPrior, Against, IsNewest, BandOf, rowVars, captureVars
<1> QED
  BY <1>2, <1>3, <1>4, <1>5 DEF EwsNext

LEMMA TrendInvariant == EwsSpec => []TrendInv
<1>1. EwsInit => TrendInv
  BY DEF EwsInit, TrendInv, EwsTypeOK, TrendIsAgainstPrior, Days, NoPrior
<1> QED
  BY <1>1, TrendStep, PTL DEF EwsSpec

\* A stored trend is the one against the snapshot shown before it
\* (captureSnapshot), for any number of overlapping captures and days.
THEOREM TrendsAreAgainstPriors == EwsSpec => []TrendIsAgainstPrior
<1>1. TrendInv => TrendIsAgainstPrior
  BY DEF TrendInv
<1> QED
  BY <1>1, TrendInvariant, PTL

-----------------------------------------------------------------------------
(* Sessions *)

USE SessionsAssumption

-----------------------------------------------------------------------------
(* Finite sets of numbers.                                                 *)

\* A nonempty set of numbers has a least one.
LEMMA LeastOf ==
  ASSUME NEW N \in SUBSET Nat, N # {}
  PROVE  \E m \in N : \A n \in N : m <= n
<1> DEFINE Below == {ss \in Nat \X Nat : ss[1] < ss[2]}
<1>1. IsWellFoundedOn(Below, Nat)
  BY NatLessThanWellFounded DEF OpToRel
<1> HIDE DEF Below
<1>2. PICK m \in N : \A n \in N : <<n, m>> \notin Below
  BY <1>1, WFMin
<1>3. \A n \in N : ~(n < m)
  BY <1>2 DEF Below
<1> QED
  BY <1>2, <1>3

\* What is left of a list after its oldest are gone fits the cap.
LEMMA NewestAreFew ==
  ASSUME NEW v \in SUBSET Nat, IsFiniteSet(v)
  PROVE  Cardinality(v \ Oldest(v)) <= Cap
<1> DEFINE N == v \ Oldest(v)
<1>1. IsFiniteSet(N) /\ Cardinality(N) \in Nat
  BY FS_Subset, FS_CardinalityType
<1>2. CASE N = {}
  BY <1>2, FS_EmptySet
<1>3. CASE N # {}
  <2>1. PICK m \in N : \A n \in N : m <= n
    BY <1>3, LeastOf
  <2>2. IsFiniteSet(Newer(v, m)) /\ Cardinality(Newer(v, m)) \in Nat
    BY FS_Subset, FS_CardinalityType DEF Newer
  <2>3. Cardinality(Newer(v, m)) < Cap
    <3>1. ~(Cardinality(Newer(v, m)) >= Cap)
      BY <2>1, Zenon DEF Oldest
    <3> QED
      BY <2>2, <3>1
  <2>4. N \ {m} \in SUBSET Newer(v, m)
    <3>1. ASSUME NEW t \in N \ {m} PROVE t \in v /\ t > m
      BY <2>1, <3>1
    <3> QED
      BY <3>1, Zenon DEF Newer
  <2>5. Cardinality(N \ {m}) <= Cardinality(Newer(v, m))
    BY <2>2, <2>4, FS_Subset
  <2>6. Cardinality(N \ {m}) = Cardinality(N) - 1
    BY <1>1, <2>1, FS_RemoveElement
  <2> QED
    BY <1>1, <2>2, <2>3, <2>5, <2>6
<1> QED
  BY <1>2, <1>3

\* An evicted session has Cap newer ones behind it.
LEMMA OldestAreOld ==
  ASSUME NEW n \in Nat, NEW v \in SUBSET (1 .. n), NEW s \in Oldest(v)
  PROVE  s + Cap <= n
<1>1. s \in 1 .. n /\ Cardinality(Newer(v, s)) >= Cap
  <2>1. s \in v /\ Cardinality(Newer(v, s)) >= Cap
    BY Zenon DEF Oldest
  <2> QED
    BY <2>1
<1>2. Newer(v, s) \in SUBSET (s + 1 .. n)
  <2>1. \A t \in v : t > s => t \in s + 1 .. n
    BY <1>1
  <2> QED
    BY <2>1, Zenon DEF Newer
<1>3. /\ IsFiniteSet(s + 1 .. n)
      /\ Cardinality(s + 1 .. n) = IF s + 1 > n THEN 0 ELSE n - (s + 1) + 1
  BY <1>1, FS_Interval
<1>4. IsFiniteSet(Newer(v, s)) /\ Cardinality(Newer(v, s)) <= Cardinality(s + 1 .. n)
  BY <1>2, <1>3, FS_Subset
<1>5. Cardinality(Newer(v, s)) \in Nat
  BY <1>4, FS_CardinalityType
<1> QED
  BY <1>1, <1>3, <1>4, <1>5

\* Sessions are finitely many, whatever is chosen of them.
LEMMA SomeSessions ==
  ASSUME NEW n \in Nat, NEW v \in SUBSET (1 .. n)
  PROVE  /\ v \in SUBSET Nat /\ IsFiniteSet(v) /\ Cardinality(v) \in Nat
         /\ \A w \in SUBSET v : /\ Cardinality(w) \in Nat
                                /\ Cardinality(w) <= Cardinality(v)
<1>1. IsFiniteSet(1 .. n)
  BY FS_Interval
<1>2. IsFiniteSet(v)
  BY <1>1, FS_Subset
<1>3. \A w \in SUBSET v : /\ IsFiniteSet(w) /\ Cardinality(w) \in Nat
                          /\ Cardinality(w) <= Cardinality(v)
  BY <1>2, FS_Subset, FS_CardinalityType
<1>4. v \in SUBSET Nat
  OBVIOUS
<1> QED
  BY <1>2, <1>3, <1>4

-----------------------------------------------------------------------------
(* Types.                                                                  *)

\* Every variable keeps its type: a refresh names a session that was stored,
\* an eviction has a list longer than the cap.
THEOREM SessionTypeCorrect == SessionSpec => []SessionTypeOK
<1>1. SessionInit => SessionTypeOK
  <2> SUFFICES ASSUME SessionInit PROVE SessionTypeOK
    OBVIOUS
  <2> USE DEF SessionInit, Sessions
  <2>1. created \in 0 .. MaxSessions /\ active \subseteq 1 .. created
    OBVIOUS
  <2>2. underOf \in [1 .. created -> 0 .. MaxPasswords]
    OBVIOUS
  <2>3. /\ cpc \in [Calls -> {"idle", "revoke", "store", "count", "evict"}]
        /\ from \in [Calls -> 0 .. created] /\ under \in [Calls -> 0 .. MaxPasswords]
        /\ view \in [Calls -> SUBSET (1 .. created)]
    OBVIOUS
  <2>4. /\ password \in 0 .. MaxPasswords /\ ending \in 0 .. password
        /\ authFaults \in 0 .. MaxAuthFaults
    OBVIOUS
  <2> QED
    BY <2>1, <2>2, <2>3, <2>4 DEF SessionTypeOK
<1>2. SessionTypeOK /\ [SessionNext]_sessionVars => SessionTypeOK'
  <2> SUFFICES ASSUME SessionTypeOK, [SessionNext]_sessionVars
               PROVE  SessionTypeOK'
    OBVIOUS
  <2> USE DEF callVars, masterVars, Goes, AuthFault, Sessions, Replace
  <2>1. ASSUME NEW c \in Calls, Login(c) PROVE SessionTypeOK'
    BY <2>1 DEF SessionTypeOK, Login
  <2>2. ASSUME NEW c \in Calls, FindSession(c) PROVE SessionTypeOK'
    BY <2>2 DEF SessionTypeOK, FindSession
  <2>3. ASSUME NEW c \in Calls, RevokeOld(c) PROVE SessionTypeOK'
    <3>1. from[c] \in 1 .. created
      BY <2>3 DEF SessionTypeOK, RevokeOld
    <3>2. under' \in [Calls -> 0 .. MaxPasswords]
      BY <2>3, <3>1 DEF SessionTypeOK, RevokeOld
    <3>3. from' \in [Calls -> 0 .. created]
      BY <2>3 DEF SessionTypeOK, RevokeOld
    <3> QED
      BY <2>3, <3>1, <3>2, <3>3 DEF SessionTypeOK, RevokeOld
  <2>4. ASSUME NEW c \in Calls, Store(c) PROVE SessionTypeOK'
    <3>1. created' \in 0 .. MaxSessions /\ 1 .. created \subseteq 1 .. created'
      BY <2>4 DEF SessionTypeOK, Store
    <3>2. underOf' \in [1 .. created' -> 0 .. MaxPasswords]
      BY <2>4, <3>1 DEF SessionTypeOK, Store
    <3>3. active' \subseteq 1 .. created' /\ late' \subseteq 1 .. created'
      BY <2>4, <3>1 DEF SessionTypeOK, Store
    <3>4. /\ from' \in [Calls -> 0 .. created']
          /\ view' \in [Calls -> SUBSET (1 .. created')]
      BY <2>4, <3>1 DEF SessionTypeOK, Store
    <3>5. \A d \in Calls : /\ cpc'[d] = "revoke" => from'[d] \in 1 .. created'
                           /\ cpc'[d] = "evict" => Cardinality(view'[d]) > Cap
      BY <2>4, <3>1 DEF SessionTypeOK, Store
    <3> QED
      BY <2>4, <3>1, <3>2, <3>3, <3>4, <3>5 DEF SessionTypeOK, Store
  <2>5. ASSUME NEW c \in Calls, Count(c) PROVE SessionTypeOK'
    BY <2>5 DEF SessionTypeOK, Count
  <2>6. ASSUME NEW c \in Calls, Evict(c) PROVE SessionTypeOK'
    BY <2>6 DEF SessionTypeOK, Evict
  <2>7. ASSUME NEW c \in Calls, CallThrows(c) PROVE SessionTypeOK'
    BY <2>7 DEF SessionTypeOK, CallThrows
  <2>8. ASSUME NEW s \in active, EndSession(s) PROVE SessionTypeOK'
    BY <2>8 DEF SessionTypeOK, EndSession
  <2>9. CASE ChangePassword
    BY <2>9 DEF SessionTypeOK, ChangePassword
  <2>10. CASE RevokeAll
    <3>1. active' \subseteq 1 .. created' /\ ending' \in 0 .. password'
      BY <2>10 DEF SessionTypeOK, RevokeAll
    <3>2. \A c \in Calls : /\ cpc'[c] = "revoke" => from'[c] \in 1 .. created'
                           /\ cpc'[c] = "evict" => Cardinality(view'[c]) > Cap
      BY <2>10 DEF SessionTypeOK, RevokeAll
    <3>3. unended' \in BOOLEAN /\ behind' \in BOOLEAN
      BY <2>10 DEF SessionTypeOK, RevokeAll
    <3> QED
      BY <2>10, <3>1, <3>2, <3>3 DEF SessionTypeOK, RevokeAll
  <2>11. CASE ResetPassword
    <3>1. /\ active' \subseteq 1 .. created'
          /\ password' \in 0 .. MaxPasswords /\ ending' \in 0 .. password'
      BY <2>11 DEF SessionTypeOK, ResetPassword
    <3>2. \A c \in Calls : /\ cpc'[c] = "revoke" => from'[c] \in 1 .. created'
                           /\ cpc'[c] = "evict" => Cardinality(view'[c]) > Cap
      BY <2>11 DEF SessionTypeOK, ResetPassword
    <3>3. unended' \in BOOLEAN /\ behind' \in BOOLEAN
      BY <2>11 DEF SessionTypeOK, ResetPassword
    <3> QED
      BY <2>11, <3>1, <3>2, <3>3 DEF SessionTypeOK, ResetPassword
  <2>12. CASE RevokeAllThrows
    BY <2>12 DEF SessionTypeOK, RevokeAllThrows
  <2>13. CASE AuthRestart
    BY <2>13 DEF SessionTypeOK, AuthRestart
  <2>14. CASE UNCHANGED sessionVars
    BY <2>14 DEF SessionTypeOK, sessionVars
  <2>15. CASE FindDrift
    BY <2>15 DEF SessionTypeOK, FindDrift
  <2>16. CASE ProvisionMaster
    <3>1. /\ password' \in 0 .. MaxPasswords /\ ending' \in 0 .. password'
          /\ provisioning' \in 0 .. MaxPasswords
      BY <2>16 DEF SessionTypeOK, ProvisionMaster
    <3> QED
      BY <2>16, <3>1 DEF SessionTypeOK, ProvisionMaster
  <2>17. CASE ProvisionThrows
    BY <2>17 DEF SessionTypeOK, ProvisionThrows
  <2> QED
    BY <2>1, <2>2, <2>3, <2>4, <2>5, <2>6, <2>7, <2>8, <2>9, <2>10, <2>11,
       <2>12, <2>13, <2>14, <2>15, <2>16, <2>17 DEF SessionNext
<1> QED
  BY <1>1, <1>2, PTL DEF SessionSpec

-----------------------------------------------------------------------------
(* The cap.                                                                *)

\* Once everyone has counted, someone holds a list of all that is active and
\* will cut it to the cap, or nothing needs cutting, or a fault came between.
SomeoneCuts ==
  (\A c \in Calls : cpc[c] # "count") =>
    \/ \E c \in Calls : cpc[c] = "evict" /\ active \subseteq view[c]
    \/ Cardinality(active) <= Cap
    \/ behind

\* Whatever becomes active or is revoked in between, the last one to count
\* leaves at most Cap sessions.
THEOREM SessionsAreCapped == SessionSpec => []SessionCap
<1>1. SessionInit => SomeoneCuts
  BY FS_EmptySet DEF SessionInit, SomeoneCuts
<1>2. SessionTypeOK /\ SomeoneCuts /\ [SessionNext]_sessionVars => SomeoneCuts'
  <2> SUFFICES ASSUME SessionTypeOK, SomeoneCuts, [SessionNext]_sessionVars,
                      \A c \in Calls : cpc'[c] # "count", ~behind'
               PROVE  \/ \E c \in Calls : /\ cpc'[c] = "evict"
                                          /\ active' \subseteq view'[c]
                      \/ Cardinality(active') <= Cap
    BY DEF SomeoneCuts
  <2>a. /\ created \in Nat /\ active \in SUBSET (1 .. created)
        /\ cpc \in [Calls -> {"idle", "revoke", "store", "count", "evict"}]
        /\ view \in [Calls -> SUBSET (1 .. created)]
    BY DEF SessionTypeOK, Sessions
  <2>b. ASSUME NEW w \in SUBSET active, Cardinality(active) <= Cap
        PROVE  Cardinality(w) <= Cap
    <3>1. /\ Cardinality(active) \in Nat /\ Cardinality(w) \in Nat
          /\ Cardinality(w) <= Cardinality(active)
      BY <2>a, SomeSessions
    <3> QED
      BY <2>b, <3>1
  \* A step that does no more than revoke sessions and moves nobody that has
  \* stored.
  <2>c. ASSUME active' \in SUBSET active, behind' = behind, view' = view,
               \A c \in Calls : Stored(c) => cpc'[c] = cpc[c]
        PROVE  \/ \E c \in Calls : /\ cpc'[c] = "evict"
                                   /\ active' \subseteq view'[c]
               \/ Cardinality(active') <= Cap
    <3>1. \A c \in Calls : cpc[c] # "count"
      BY <2>c DEF Stored
    <3>2. CASE \E c \in Calls : cpc[c] = "evict" /\ active \subseteq view[c]
      BY <2>c, <3>2 DEF Stored
    <3>3. CASE Cardinality(active) <= Cap
      BY <2>b, <2>c, <3>3
    <3> QED
      BY <2>c, <3>1, <3>2, <3>3 DEF SomeoneCuts
  <2>1. ASSUME NEW c \in Calls, Login(c) \/ FindSession(c) \/ RevokeOld(c)
        PROVE  \/ \E d \in Calls : /\ cpc'[d] = "evict"
                                   /\ active' \subseteq view'[d]
               \/ Cardinality(active') <= Cap
    <3>1. /\ active' \in SUBSET active /\ behind' = behind /\ view' = view
          /\ \A d \in Calls : Stored(d) => cpc'[d] = cpc[d]
      BY <2>1, <2>a DEF Login, FindSession, RevokeOld, Goes, Stored
    <3> QED
      BY <2>c, <3>1
  <2>2. ASSUME NEW c \in Calls, Store(c) PROVE FALSE
    BY <2>2, <2>a DEF Store, Goes
  <2>3. ASSUME NEW c \in Calls, Count(c)
        PROVE  \/ \E d \in Calls : /\ cpc'[d] = "evict"
                                   /\ active' \subseteq view'[d]
               \/ Cardinality(active') <= Cap
    <3>1. active' = active
      BY <2>3 DEF Count
    <3>2. CASE Cardinality(active) > Cap
      <4>1. cpc'[c] = "evict" /\ view'[c] = active
        <5>1. ~(Cardinality(active) <= Cap)
          <6>1. Cardinality(active) \in Nat
            BY <2>a, SomeSessions
          <6> QED
            BY <3>2, <6>1
        <5>2. /\ cpc' = [cpc EXCEPT ![c] = "evict"]
              /\ view' = [view EXCEPT ![c] = active]
          BY <2>3, <5>1 DEF Count, Goes
        <5> QED
          BY <2>a, <5>2
      <4> QED
        BY <3>1, <4>1
    <3>3. CASE Cardinality(active) <= Cap
      BY <3>1, <3>3
    <3> QED
      BY <2>3, <3>2, <3>3 DEF Count
  <2>4. ASSUME NEW c \in Calls, Evict(c)
        PROVE  \/ \E d \in Calls : /\ cpc'[d] = "evict"
                                   /\ active' \subseteq view'[d]
               \/ Cardinality(active') <= Cap
    <3>1. /\ active' = active \ Oldest(view[c]) /\ behind' = behind
          /\ \A d \in Calls \ {c} : cpc'[d] = cpc[d] /\ view'[d] = view[d]
          /\ cpc[c] = "evict"
      BY <2>4, <2>a DEF Evict, Goes
    <3>2. \A d \in Calls : cpc[d] # "count"
      BY <3>1
    <3>3. CASE Cardinality(active) <= Cap
      BY <2>b, <3>1, <3>3
    <3>4. ASSUME NEW d \in Calls, cpc[d] = "evict", active \subseteq view[d]
          PROVE  \/ cpc'[d] = "evict" /\ active' \subseteq view'[d]
                 \/ Cardinality(active') <= Cap
      <4>1. CASE d # c
        BY <3>1, <3>4, <4>1
      <4>2. CASE d = c
        <5>1. active' \in SUBSET (view[c] \ Oldest(view[c]))
          BY <3>1, <3>4, <4>2
        <5>2. view[c] \in SUBSET Nat /\ IsFiniteSet(view[c])
          BY <2>a, SomeSessions
        <5>3. Cardinality(view[c] \ Oldest(view[c])) <= Cap
          BY <5>2, NewestAreFew
        <5>4. view[c] \ Oldest(view[c]) \in SUBSET (1 .. created)
          BY <2>a
        <5>5. /\ Cardinality(active') \in Nat
              /\ Cardinality(view[c] \ Oldest(view[c])) \in Nat
              /\ Cardinality(active') <= Cardinality(view[c] \ Oldest(view[c]))
          BY <2>a, <5>1, <5>4, SomeSessions
        <5> QED
          BY <5>3, <5>5
      <4> QED
        BY <4>1, <4>2
    <3> QED
      BY <3>1, <3>2, <3>3, <3>4 DEF SomeoneCuts
  <2>5. ASSUME NEW c \in Calls, CallThrows(c)
        PROVE  \/ \E d \in Calls : /\ cpc'[d] = "evict"
                                   /\ active' \subseteq view'[d]
               \/ Cardinality(active') <= Cap
    <3>1. /\ ~Stored(c) /\ ~behind /\ active' = active
          /\ \A d \in Calls \ {c} : cpc'[d] = cpc[d] /\ view'[d] = view[d]
      BY <2>5, <2>a DEF CallThrows
    <3>2. \A d \in Calls : cpc[d] # "count"
      BY <3>1 DEF Stored
    <3>3. \A d \in Calls : cpc[d] = "evict" => d # c
      BY <3>1 DEF Stored
    <3> QED
      BY <3>1, <3>2, <3>3 DEF SomeoneCuts
  <2>6. ASSUME NEW s \in active, EndSession(s)
        PROVE  \/ \E d \in Calls : /\ cpc'[d] = "evict"
                                   /\ active' \subseteq view'[d]
               \/ Cardinality(active') <= Cap
    BY <2>6, <2>c DEF EndSession, callVars
  <2>7. CASE ChangePassword \/ RevokeAll \/ ResetPassword \/ RevokeAllThrows
             \/ FindDrift \/ ProvisionMaster \/ ProvisionThrows
             \/ UNCHANGED sessionVars
    <3>1. /\ active' \in SUBSET active /\ behind' = behind
          /\ view' = view /\ cpc' = cpc
      BY <2>7 DEF ChangePassword, RevokeAll, ResetPassword, RevokeAllThrows,
                  FindDrift, ProvisionMaster, ProvisionThrows, sessionVars, callVars
    <3> QED
      BY <2>c, <3>1
  <2>8. CASE AuthRestart
    <3>1. ~behind /\ active' = active /\ \A d \in Calls : ~Stored(d)
      BY <2>8 DEF AuthRestart
    <3> QED
      BY <3>1 DEF SomeoneCuts, Stored
  <2> QED
    BY <2>1, <2>2, <2>3, <2>4, <2>5, <2>6, <2>7, <2>8 DEF SessionNext
<1>3. SomeoneCuts => SessionCap
  BY DEF SomeoneCuts, SessionCap, Stored
<1> QED
  BY <1>1, <1>2, <1>3, SessionTypeCorrect, PTL DEF SessionSpec

\* An eviction uses a list made before, and still ends only sessions that Cap
\* later ones have followed.
THEOREM NewestAreKept == SessionSpec => NewestStay
<1> DEFINE EvictsOld(c) ==
      (cpc[c] = "evict" /\ cpc'[c] = "idle" /\ authFaults' = authFaults) =>
        \A s \in active \ active' : s + Cap <= created
<1>1. SessionTypeOK /\ [SessionNext]_sessionVars =>
        [\A c \in Calls : EvictsOld(c)]_sessionVars
  <2> SUFFICES ASSUME SessionTypeOK, SessionNext,
                      NEW c \in Calls, cpc[c] = "evict", cpc'[c] = "idle",
                      authFaults' = authFaults,
                      NEW s \in active \ active'
               PROVE  s + Cap <= created
    OBVIOUS
  <2>1. /\ created \in Nat /\ view[c] \in SUBSET (1 .. created)
        /\ cpc \in [Calls -> {"idle", "revoke", "store", "count", "evict"}]
        /\ authFaults \in Nat
    BY DEF SessionTypeOK, Sessions
  <2>2. Evict(c)
    BY <2>1 DEF SessionNext, Login, FindSession, RevokeOld, Store, Count, Evict,
       CallThrows, EndSession, ChangePassword, RevokeAll, ResetPassword, FindDrift,
       ProvisionMaster, RevokeAllThrows, ProvisionThrows, AuthRestart, AuthFault, Goes, callVars
  <2>3. s \in Oldest(view[c])
    BY <2>2 DEF Evict
  <2> QED
    BY <2>1, <2>3, OldestAreOld
<1> QED
  BY <1>1, SessionTypeCorrect, PTL DEF SessionSpec, NewestStay

-----------------------------------------------------------------------------
(* Passwords.                                                              *)

\* A session outlives its password only by a call that read the user before, a
\* revocation still to come, or one that a fault prevented or that the
\* provisioning of the master account never makes.
THEOREM PasswordsEndSessions == SessionSpec => []PasswordEndsSessions
<1>1. SessionInit => PasswordEndsSessions
  BY DEF SessionInit, PasswordEndsSessions
<1>2. SessionTypeOK /\ PasswordEndsSessions /\ [SessionNext]_sessionVars
        => PasswordEndsSessions'
  <2> SUFFICES ASSUME SessionTypeOK, PasswordEndsSessions,
                      [SessionNext]_sessionVars, NEW s \in active'
               PROVE  underOf'[s] = password' \/ s \in late'
                      \/ ending' > 0 \/ unended'
    BY DEF PasswordEndsSessions
  <2>a. /\ created \in Nat /\ active \in SUBSET (1 .. created)
        /\ ending \in Nat /\ password \in Nat
    BY DEF SessionTypeOK, Sessions
  <2>1. ASSUME NEW c \in Calls,
               Login(c) \/ FindSession(c) \/ RevokeOld(c) \/ Count(c)
               \/ Evict(c) \/ CallThrows(c)
        PROVE  underOf'[s] = password' \/ s \in late' \/ ending' > 0 \/ unended'
    BY <2>1 DEF PasswordEndsSessions, Login, FindSession, RevokeOld, Count, Evict,
                CallThrows
  <2>2. ASSUME NEW c \in Calls, Store(c)
        PROVE  underOf'[s] = password' \/ s \in late' \/ ending' > 0 \/ unended'
    <3>1. CASE s = created'
      BY <2>2, <2>a, <3>1 DEF Store
    <3>2. CASE s # created'
      <4>1. s \in active /\ underOf'[s] = underOf[s]
        BY <2>2, <2>a, <3>2 DEF Store
      <4> QED
        BY <2>2, <4>1 DEF Store, PasswordEndsSessions
    <3> QED
      BY <3>1, <3>2
  <2>3. ASSUME NEW r \in active, EndSession(r)
        PROVE  underOf'[s] = password' \/ s \in late' \/ ending' > 0 \/ unended'
    BY <2>3 DEF PasswordEndsSessions, EndSession
  <2>4. CASE ChangePassword
    BY <2>4, <2>a DEF ChangePassword
  <2>5. CASE RevokeAll \/ ResetPassword
    BY <2>5 DEF RevokeAll, ResetPassword
  <2>6. CASE RevokeAllThrows \/ ProvisionMaster
    BY <2>6 DEF RevokeAllThrows, ProvisionMaster
  <2>9. CASE FindDrift \/ ProvisionThrows
    BY <2>9 DEF FindDrift, ProvisionThrows, PasswordEndsSessions
  <2>7. CASE AuthRestart
    BY <2>7 DEF AuthRestart, PasswordEndsSessions
  <2>8. CASE UNCHANGED sessionVars
    BY <2>8 DEF PasswordEndsSessions, sessionVars
  <2> QED
    BY <2>1, <2>2, <2>3, <2>4, <2>5, <2>6, <2>7, <2>8, <2>9 DEF SessionNext
<1> QED
  BY <1>1, <1>2, SessionTypeCorrect, PTL DEF SessionSpec

-----------------------------------------------------------------------------
(* The services side by side.                                              *)

\* Each step of the services is one of the service chosen, and leaves the
\* others alone.
LEMMA ServiceStep ==
  ASSUME [Next]_allVars
  PROVE  /\ [EmailNext]_emailVars /\ [DataNext]_dataVars
         /\ [SessionNext]_sessionVars /\ [RealtimeNext]_realtimeVars
         /\ [OrgNext]_orgVars /\ [AlertNext]_alertVars /\ [EwsNext]_ewsVars
<1> USE DEF mailAndData, otherVars
<1>1. CASE UNCHANGED allVars
  BY <1>1 DEF allVars
<1>2. CASE /\ RowsNext \/ NoticesNext \/ EmailRestart
           /\ UNCHANGED <<dataVars, sessionVars, realtimeVars, otherVars>>
  BY <1>2 DEF EmailNext
<1>3. CASE /\ DataNext
           /\ UNCHANGED <<emailVars, sessionVars, realtimeVars, otherVars>>
  BY <1>3
<1>4. CASE SessionNext /\ UNCHANGED <<mailAndData, realtimeVars, otherVars>>
  BY <1>4
<1>5. CASE RealtimeNext /\ UNCHANGED <<mailAndData, sessionVars, otherVars>>
  BY <1>5
<1>6. CASE /\ OrgNext
           /\ UNCHANGED <<mailAndData, sessionVars, realtimeVars, alertVars, ewsVars>>
  BY <1>6
<1>7. CASE /\ AlertNext
           /\ UNCHANGED <<mailAndData, sessionVars, realtimeVars, orgVars, ewsVars>>
  BY <1>7
<1>8. CASE /\ EwsNext
           /\ UNCHANGED <<mailAndData, sessionVars, realtimeVars, orgVars, alertVars>>
  BY <1>8
<1> QED
  BY <1>1, <1>2, <1>3, <1>4, <1>5, <1>6, <1>7, <1>8, Zenon DEF Next

\* What a service does beside the others is what it does by itself: whatever
\* is proved of one holds of it here.
THEOREM ServicesKeepToThemselves ==
  Spec => /\ EmailSpec /\ DataSpec /\ SessionSpec /\ RealtimeSpec
          /\ OrgSpec /\ AlertSpec /\ EwsSpec
<1>1. Init => /\ EmailInit /\ DataInit /\ SessionInit /\ RealtimeInit
              /\ OrgInit /\ AlertInit /\ EwsInit
  BY DEF Init
<1> QED
  BY <1>1, ServiceStep, PTL
  DEF Spec, EmailSpec, DataSpec, SessionSpec, RealtimeSpec, OrgSpec, AlertSpec,
      EwsSpec

\* Every service keeps the types of its variables beside the others, and with
\* them what their type invariants say of calls under way.
THEOREM ServicesAreTyped == Spec => []ServicesTypeOK
<1>1. OrgInv => OrgTypeOK
  BY DEF OrgInv
<1>2. AlertInv => AlertTypeOK
  BY DEF AlertInv
<1>3. TrendInv => EwsTypeOK
  BY DEF TrendInv
<1> QED
  BY <1>1, <1>2, <1>3, ServicesKeepToThemselves, EmailTypeCorrect,
     DataTypeCorrect, SessionTypeCorrect, RealtimeTypeCorrect, OrgInvariant,
     AlertInvariant, TrendInvariant, PTL DEF ServicesTypeOK
=============================================================================

---------------------------- MODULE EwsCapture ----------------------------
(***************************************************************************)
(* The early-warning snapshots of one institution (alm/ews/): one row per   *)
(* day, written by the daily cron and by manual captures, with the trend    *)
(* against the row before it.  The result of the calculation is abstracted  *)
(* to its band.                                                             *)
(***************************************************************************)
EXTENDS Integers

CONSTANTS Captures,     \* captures that may be under way at once
          Bands,        \* GREEN, YELLOW, RED
          Ungraded,     \* DATA_UNAVAILABLE
          NoBand,       \* no snapshot
          MaxDay        \* bound: days, from 1

ASSUME EwsAssumption ==
  MaxDay \in Nat \ {0} /\ Ungraded \notin Bands /\ NoBand \notin Bands \cup {Ungraded}

VARIABLES today,
          condition,    \* what the calculation would find
          band,         \* of the snapshot of each day
          prior,        \* the day it is compared with, 0 for none
          fromBand,     \* the band it had, which the trend is from
          passed,       \* history: an earlier day was written after the
                        \* snapshot's prior was read
          epc, result, day, before, overtaken
                        \* each capture: where it is, its result, the day it
                        \* is for, the prior it found, and passed to be; all
                        \* are cleared where it is done with them

rowVars == <<band, prior, fromBand, passed>>
captureVars == <<epc, result, day, before, overtaken>>
ewsVars == <<today, condition, rowVars, captureVars>>

Days == 1 .. MaxDay
Results == Bands \cup {Ungraded}
NoPrior == [day |-> 0, band |-> NoBand]

-----------------------------------------------------------------------------
EwsTypeOK ==
  /\ today \in Days /\ condition \in Results
  /\ band \in [Days -> Results \cup {NoBand}]
  /\ prior \in [Days -> 0 .. MaxDay] /\ fromBand \in [Days -> Results \cup {NoBand}]
  /\ passed \in [Days -> BOOLEAN]
  /\ epc \in [Captures -> {"idle", "date", "prior", "store"}]
  /\ result \in [Captures -> Results \cup {NoBand}]
  /\ day \in [Captures -> 0 .. MaxDay]
  /\ before \in [Captures -> [day : 0 .. MaxDay, band : Results \cup {NoBand}]]
  /\ overtaken \in [Captures -> BOOLEAN]
  /\ \A c \in Captures : epc[c] \in {"prior", "store"} => day[c] \in 1 .. today

EwsInit ==
  /\ today = 1 /\ condition \in Results
  /\ band = [d \in Days |-> NoBand] /\ prior = [d \in Days |-> 0]
  /\ fromBand = [d \in Days |-> NoBand] /\ passed = [d \in Days |-> FALSE]
  /\ epc = [c \in Captures |-> "idle"] /\ result = [c \in Captures |-> NoBand]
  /\ day = [c \in Captures |-> 0] /\ before = [c \in Captures |-> NoPrior]
  /\ overtaken = [c \in Captures |-> FALSE]

-----------------------------------------------------------------------------
Moves(c, at, to) == epc[c] = at /\ epc' = [epc EXCEPT ![c] = to]

\* captureSnapshot computes, and only then looks at the date.
Compute(c) ==
  /\ Moves(c, "idle", "date")
  /\ result' = [result EXCEPT ![c] = condition]
  /\ UNCHANGED <<today, condition, rowVars, day, before, overtaken>>

Date(c) ==
  /\ Moves(c, "date", "prior")
  /\ day' = [day EXCEPT ![c] = today]
  /\ UNCHANGED <<today, condition, rowVars, result, before, overtaken>>

\* The newest snapshot of those days is that of day n, or there is none.
IsNewest(n, these) ==
  LET with == {d \in these : band[d] # NoBand}
  IN  \/ n = 0 /\ with = {}
      \/ n \in with /\ \A d \in with : d <= n

BandOf(n) == IF n = 0 THEN NoBand ELSE band[n]

\* Mutant of FindPrior: the snapshot of the day itself counts.
FindLatest(c) ==
  /\ Moves(c, "prior", "store")
  /\ \E n \in 0 .. MaxDay :
       /\ IsNewest(n, 1 .. day[c])
       /\ before' = [before EXCEPT ![c] = [day |-> n, band |-> BandOf(n)]]
  /\ UNCHANGED <<today, condition, rowVars, result, day, overtaken>>

FindPrior(c) ==
  /\ Moves(c, "prior", "store")
  /\ \E n \in 0 .. MaxDay :
       /\ IsNewest(n, 1 .. day[c] - 1)
       /\ before' = [before EXCEPT ![c] = [day |-> n, band |-> BandOf(n)]]
  /\ UNCHANGED <<today, condition, rowVars, result, day, overtaken>>

Ends(c) ==
  /\ result' = [result EXCEPT ![c] = NoBand] /\ day' = [day EXCEPT ![c] = 0]
  /\ before' = [before EXCEPT ![c] = NoPrior]

\* The upsert: the row of the day is overwritten, whatever wrote it before.
StoreSnapshot(c) ==
  LET d == day[c]
  IN  /\ Moves(c, "store", "idle") /\ Ends(c)
      /\ band' = [band EXCEPT ![d] = result[c]]
      /\ prior' = [prior EXCEPT ![d] = before[c].day]
      /\ fromBand' = [fromBand EXCEPT ![d] = before[c].band]
      /\ passed' = [e \in Days |-> IF e = d THEN overtaken[c]
                                   ELSE passed[e] \/ (d < e /\ band[e] # NoBand)]
      /\ overtaken' = [b \in Captures |->
                         b # c /\ (overtaken[b] \/ (epc[b] = "store" /\ d < day[b]))]
  /\ UNCHANGED <<today, condition>>

\* A failed capture is counted and the next institution's turn; a restart ends
\* a capture the same way.
Failed(c) ==
  /\ epc[c] # "idle" /\ epc' = [epc EXCEPT ![c] = "idle"] /\ Ends(c)
  /\ overtaken' = [overtaken EXCEPT ![c] = FALSE]
  /\ UNCHANGED <<today, condition, rowVars>>

-----------------------------------------------------------------------------
Drift ==
  /\ condition' \in Results \ {condition}
  /\ UNCHANGED <<today, rowVars, captureVars>>

Midnight ==
  /\ today < MaxDay /\ today' = today + 1
  /\ UNCHANGED <<condition, rowVars, captureVars>>

EwsNext ==
  \/ \E c \in Captures : Compute(c) \/ Date(c) \/ FindPrior(c) \/ StoreSnapshot(c)
                         \/ Failed(c)
  \/ Drift \/ Midnight

EwsSpec == EwsInit /\ [][EwsNext]_ewsVars

-----------------------------------------------------------------------------
(* Properties *)

\* However captures of one day overlap and overwrite each other, the trend of a
\* snapshot, and with it the alerts it raised, is the one against the snapshot
\* shown before it, unless that day was written only afterwards: by a capture
\* that midnight has overtaken.
TrendIsAgainstPrior ==
  \A d \in Days : (band[d] # NoBand /\ ~passed[d]) =>
    IsNewest(prior[d], 1 .. d - 1) /\ fromBand[d] = BandOf(prior[d])
=============================================================================

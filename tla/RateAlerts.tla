---------------------------- MODULE RateAlerts ----------------------------
(***************************************************************************)
(* The threshold an institution sets for one metric and the alerts it      *)
(* raises (realtime-alm/rate-alert.service.ts).  A threshold is kept twice, *)
(* in a map of the process and, as far as the database accepts it, in a    *)
(* table; alerts are only in memory.  The levels of a threshold are left   *)
(* to what a check finds the metric to be.                                 *)
(***************************************************************************)
CONSTANTS Writers,      \* calls of setThreshold and removeThreshold
          Checks        \* calls of checkThresholds

VARIABLES mem,          \* the threshold is in the map
          row,          \* and in the table
          others,       \* the institution has rows for other metrics
          alerts,       \* levels of the active alerts
          writing,      \* the write to the table each writer waits for
          found,        \* what each check has read
          removing,     \* history: a removal was under way during the check
          stray         \* history: such a check raised the alerts

alertVars == <<mem, row, others, alerts, writing, found, removing, stray>>

Levels == {"WARN", "BREACH"}

-----------------------------------------------------------------------------
AlertTypeOK ==
  /\ mem \in BOOLEAN /\ row \in BOOLEAN /\ others \in BOOLEAN /\ stray \in BOOLEAN
  /\ alerts \subseteq Levels
  /\ writing \in [Writers -> {"idle", "upsert", "delete"}]
  /\ found \in [Checks -> {"idle", "this", "others", "nothing"}]
  /\ removing \in [Checks -> BOOLEAN]
  /\ stray => alerts # {}

AlertInit ==
  /\ mem = FALSE /\ row \in BOOLEAN /\ others \in BOOLEAN /\ alerts = {}
  /\ writing = [w \in Writers |-> "idle"]
  /\ found = [c \in Checks |-> "idle"]
  /\ removing = [c \in Checks |-> FALSE] /\ stray = FALSE

-----------------------------------------------------------------------------
\* setThreshold: the map at once, the table as soon as it can.
SetThreshold(w) ==
  /\ writing[w] = "idle" /\ writing' = [writing EXCEPT ![w] = "upsert"]
  /\ mem' = TRUE
  /\ UNCHANGED <<row, others, alerts, found, removing, stray>>

\* Mutant of RemoveThreshold: the alerts stay.
RemoveOnly(w) ==
  /\ writing[w] = "idle" /\ writing' = [writing EXCEPT ![w] = "delete"]
  /\ mem' = FALSE
  /\ removing' = [c \in Checks |-> found[c] # "idle"]
  /\ UNCHANGED <<row, others, alerts, found, stray>>

RemoveThreshold(w) ==
  /\ writing[w] = "idle" /\ writing' = [writing EXCEPT ![w] = "delete"]
  /\ mem' = FALSE /\ alerts' = {} /\ stray' = FALSE
  /\ removing' = [c \in Checks |-> found[c] # "idle"]
  /\ UNCHANGED <<row, others, found>>

Persist(w) ==
  /\ writing[w] # "idle" /\ writing' = [writing EXCEPT ![w] = "idle"]
  /\ row' = (writing[w] = "upsert")
  /\ UNCHANGED <<mem, others, alerts, found, removing, stray>>

\* A write the table rejects is not reported and not repeated.
PersistRejected(w) ==
  /\ writing[w] # "idle" /\ writing' = [writing EXCEPT ![w] = "idle"]
  /\ UNCHANGED <<mem, row, others, alerts, found, removing, stray>>

-----------------------------------------------------------------------------
\* getThresholds up to the reply of the table; a read that is rejected finds
\* nothing.
ReadThresholds(c) ==
  /\ found[c] = "idle"
  /\ \/ found' = [found EXCEPT ![c] = IF row THEN "this"
                                      ELSE IF others THEN "others" ELSE "nothing"]
     \/ found' = [found EXCEPT ![c] = "nothing"]
  /\ removing' = [removing EXCEPT ![c] = \E w \in Writers : writing[w] = "delete"]
  /\ UNCHANGED <<mem, row, others, alerts, writing, stray>>

\* The map counts only when the table has nothing at all of the institution.
Applies(c) == found[c] = "this" \/ (found[c] = "nothing" /\ mem)

\* The rest of checkThresholds.  An alert of the other level is not cleared.
Evaluate(c) ==
  /\ found[c] # "idle" /\ found' = [found EXCEPT ![c] = "idle"]
  /\ removing' = [removing EXCEPT ![c] = FALSE]
  /\ \/ /\ Applies(c)
        /\ \/ \E l \in Levels : alerts' = alerts \cup {l}
           \/ alerts' = {}
        /\ stray' = (alerts' # {} /\ (stray \/ removing[c]))
     \/ ~Applies(c) /\ UNCHANGED <<alerts, stray>>
  /\ UNCHANGED <<mem, row, others, writing>>

AlertRestart ==
  /\ mem' = FALSE /\ alerts' = {} /\ stray' = FALSE
  /\ writing' = [w \in Writers |-> "idle"]
  /\ found' = [c \in Checks |-> "idle"] /\ removing' = [c \in Checks |-> FALSE]
  /\ UNCHANGED <<row, others>>

AlertNext ==
  \/ \E w \in Writers : SetThreshold(w) \/ RemoveThreshold(w)
                         \/ Persist(w) \/ PersistRejected(w)
  \/ \E c \in Checks : ReadThresholds(c) \/ Evaluate(c)
  \/ AlertRestart

AlertSpec == AlertInit /\ [][AlertNext]_alertVars

-----------------------------------------------------------------------------
(* Properties *)

\* However the map and the table have drifted apart by rejected writes, an
\* active alert has a threshold in one of them, unless a removal was under way
\* while the check that raised it was.
AlertsHaveThreshold == alerts # {} => mem \/ row \/ stray
=============================================================================

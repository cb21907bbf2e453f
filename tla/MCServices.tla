----------------------------- MODULE MCServices -----------------------------
(* Services that share no state, side by side for TLC: the initial state picks *)
(* one and only that one moves, so the run explores the sum of their states    *)
(* and not the product.                                                        *)
EXTENDS EmailSequence, InstitutionData, Sessions, RealtimeAlm, Organizations,
        RateAlerts, EwsCapture, TLC

CONSTANTS i1, i2, i3,
          AloneScheduler, AloneTick  \* of "ticks", of "scheduling"

VARIABLE service

Names == {"scheduling", "ticks", "notice", "data", "sessions", "realtime",
          "organization", "alerts", "ews"}
KindsOfImports == (i1 :> "full") @@ (i2 :> "rows") @@ (i3 :> "seed")

mailAndData == <<emailVars, dataVars>>
otherVars == <<orgVars, alertVars, ewsVars>>

\* The sequences have two instances, and one call of the other kind in each: the
\* calls of scheduleEmail that overlap, and the ticks that do.
MovingSchedulers ==
  IF service = "ticks" THEN {AloneScheduler} ELSE Schedulers
MovingTicks == CASE service = "scheduling" -> {AloneTick}
                 [] service = "ticks" -> Ticks
                 [] OTHER -> {}

\* The services whose initial state is not unique start in one only when chosen.
Init ==
  /\ service \in Names
  /\ EmailInit /\ DataInit /\ SessionInit /\ RealtimeInit
  /\ OrgInit /\ AlertInit /\ EwsInit
  /\ service # "realtime" => rate = 0
  /\ service # "sessions" => ~drifted
  /\ service # "organization" => role[CHOOSE u \in Users : TRUE] = "ADMIN"
  /\ service # "alerts" => ~row /\ ~others
  /\ service # "ews" => condition = Ungraded
Next ==
  /\ UNCHANGED service
  /\ \/ /\ service \in {"scheduling", "ticks"} /\ (RowsNext \/ EmailRestart)
        /\ \A s \in Schedulers \ MovingSchedulers : wants'[s] = "none"
        /\ \A t \in Ticks \ MovingTicks : holds'[t] = {}
        /\ UNCHANGED <<dataVars, sessionVars, realtimeVars, otherVars>>
     \/ /\ service = "notice" /\ (NoticesNext \/ EmailRestart)
        /\ UNCHANGED <<dataVars, sessionVars, realtimeVars, otherVars>>
     \/ /\ service = "data" /\ DataNext
        /\ UNCHANGED <<emailVars, sessionVars, realtimeVars, otherVars>>
     \/ /\ service = "sessions" /\ SessionNext
        /\ UNCHANGED <<mailAndData, realtimeVars, otherVars>>
     \/ /\ service = "realtime" /\ RealtimeNext
        /\ UNCHANGED <<mailAndData, sessionVars, otherVars>>
     \/ /\ service = "organization" /\ OrgNext
        /\ UNCHANGED <<mailAndData, sessionVars, realtimeVars, alertVars, ewsVars>>
     \/ /\ service = "alerts" /\ AlertNext
        /\ UNCHANGED <<mailAndData, sessionVars, realtimeVars, orgVars, ewsVars>>
     \/ /\ service = "ews" /\ EwsNext
        /\ UNCHANGED <<mailAndData, sessionVars, realtimeVars, orgVars, alertVars>>

allVars == <<service, emailVars, dataVars, sessionVars, realtimeVars, otherVars>>

Spec == Init /\ [][Next]_allVars
FairSpec ==
  /\ Spec
  /\ \A t \in Ticks : WF_emailVars(t \in MovingTicks /\ TickStep(t))

\* The services are well-typed.
ServicesTypeOK ==
  /\ EmailTypeOK /\ DataTypeOK /\ SessionTypeOK /\ RealtimeTypeOK
  /\ OrgTypeOK /\ AlertTypeOK /\ EwsTypeOK
=============================================================================

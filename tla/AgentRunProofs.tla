--------------------------- MODULE AgentRunProofs ---------------------------
(***************************************************************************)
(* Proofs about AgentRun, for any number of calls and keys, any limit on   *)
(* turns and any number of faults.                                         *)
(***************************************************************************)
EXTENDS AgentRun, TLAPS, FiniteSetTheorems

USE KeysAssumption, BoundsAssumption

-----------------------------------------------------------------------------
(* The inductive invariant.                                                *)

\* c has inserted its row and not returned.
Active(c) == pc[c] \in Timed \cup {"mark"}

\* c is the call that executes, or executed, its key.
Owns(c) == Active(c) \/ step[c] > 0

\* The owner of a key is the one that inserted the row.
Ownership ==
  /\ \A c \in Calls : Owns(c) => row[KeyOf[c]] # "ABSENT"
  /\ \A c, d \in Calls : KeyOf[c] = KeyOf[d] /\ Owns(c) /\ Owns(d) => c = d

\* Nobody works on a finished run.
Retired == \A c \in Calls : Active(c) => ~Ended(KeyOf[c])

\* What an active call knows of its trail.
TrailKnown ==
  \A c \in Calls :
    /\ pc[c] \in Timed \ {"started"} =>
         /\ log[KeyOf[c]] # <<>>
         /\ lastHash[c] = LastEntry(KeyOf[c]).step
    /\ pc[c] = "complete" => LastEntry(KeyOf[c]).kind = "RUN_COMPLETED"
    /\ pc[c] \in {"fail", "timeOut"} => LastEntry(KeyOf[c]).kind = "RUN_FAILED"

\* The anchor is written with the outcome.
NoAnchorYet == \A k \in Keys : ~Ended(k) => root[k] = NoHash

AnchorInv ==
  Ownership /\ Retired /\ TrailKnown /\ NoAnchorYet /\ OutcomeAnchored

-----------------------------------------------------------------------------
(* What the building blocks do.                                            *)

\* An appended entry is the last one.
LEMMA AppendLast ==
  ASSUME NEW S, NEW s \in Seq(S), NEW e \in S
  PROVE  /\ Append(s, e) \in Seq(S)
         /\ Append(s, e) # <<>>
         /\ Append(s, e)[Len(Append(s, e))] = e
OBVIOUS

\* Log appends one entry of this kind to c's own trail and links c to it.
LEMMA LogAppends ==
  ASSUME TypeOK, NEW c \in Calls, NEW kind \in Kinds, Log(c, kind)
  PROVE  /\ log' \in [Keys -> Seq(Entries)]
         /\ step' \in [Calls -> Nat]
         /\ lastHash' \in [Calls -> Nat \cup {NoHash}]
         /\ step'[c] > 0
         /\ \A d \in Calls : d # c => step'[d] = step[d] /\ lastHash'[d] = lastHash[d]
         /\ \A k \in Keys : k # KeyOf[c] => log'[k] = log[k]
         /\ log'[KeyOf[c]] # <<>>
         /\ LastEntry(KeyOf[c])'.kind = kind
         /\ LastEntry(KeyOf[c])'.step = lastHash'[c]
         /\ UNCHANGED <<row, root, billed, aborted, faultsLeft>>
<1> DEFINE e == [step |-> step[c], kind |-> kind, prev |-> lastHash[c]]
           k == KeyOf[c]
<1>1. e \in Entries /\ k \in Keys /\ log[k] \in Seq(Entries)
  BY DEF TypeOK, Entries
<1>2. log' = [log EXCEPT ![k] = Append(@, e)]
  BY DEF Log
<1>3. log'[k] = Append(log[k], e)
  BY <1>1, <1>2 DEF TypeOK
<1>4. /\ Append(log[k], e) \in Seq(Entries)
      /\ Append(log[k], e) # <<>>
      /\ Append(log[k], e)[Len(Append(log[k], e))] = e
  BY <1>1, AppendLast
<1>5. log' \in [Keys -> Seq(Entries)]
  BY <1>1, <1>2, <1>4 DEF TypeOK
<1>6. LastEntry(k)' = e
  BY <1>3, <1>4 DEF LastEntry
<1>7. /\ step' = [step EXCEPT ![c] = @ + 1]
      /\ lastHash' = [lastHash EXCEPT ![c] = step[c]]
      /\ UNCHANGED <<row, root, billed, aborted, faultsLeft>>
  BY DEF Log, LogFrame, rowVars
<1>8. /\ step' \in [Calls -> Nat]
      /\ lastHash' \in [Calls -> Nat \cup {NoHash}]
      /\ step'[c] > 0
      /\ lastHash'[c] = step[c]
      /\ \A d \in Calls : d # c => step'[d] = step[d] /\ lastHash'[d] = lastHash[d]
  BY <1>7 DEF TypeOK
<1>9. \A l \in Keys : l # k => log'[l] = log[l]
  BY <1>2 DEF TypeOK
<1> QED
  BY <1>3, <1>4, <1>5, <1>6, <1>7, <1>8, <1>9

\* A rejected entry costs an index and a fault.
LEMMA RejectedSkips ==
  ASSUME TypeOK, NEW c \in Calls, LogRejected(c)
  PROVE  /\ step' \in [Calls -> Nat]
         /\ step'[c] > 0
         /\ \A d \in Calls : d # c => step'[d] = step[d]
         /\ faultsLeft' \in 0..MaxFaults
         /\ UNCHANGED <<row, root, billed, log, lastHash, aborted>>
BY DEF TypeOK, LogRejected, Fault, LogFrame, rowVars

-----------------------------------------------------------------------------
(* Types.                                                                  *)

\* Every variable keeps its type, the loop stays within def.maxTurns, and a call
\* in the tool loop has a tool call to do.
THEOREM TypeCorrect == Spec => []TypeOK
<1>1. Init => TypeOK
  BY DEF Init, TypeOK, Statuses, Places, Timed, InTry
<1>2. TypeOK /\ [Next]_vars => TypeOK'
  <2> SUFFICES ASSUME TypeOK, [Next]_vars PROVE TypeOK'
    OBVIOUS
  <2>1. ASSUME NEW c \in Calls, Step(c) PROVE TypeOK'
    <3> USE DEF Goto, Return, Places, Timed, InTry
    <3>1. CASE Find(c)
      BY <3>1 DEF TypeOK, Find, StartFrame, loopVars
    <3>2. CASE Create(c)
      <4>1. row' \in [Keys -> Statuses]
        <5>1. "QUEUED" \in Statuses /\ row \in [Keys -> Statuses]
          BY DEF Statuses, TypeOK
        <5>2. row' = [row EXCEPT ![KeyOf[c]] = "QUEUED"] \/ row' = row
          BY <3>2 DEF Create
        <5> QED
          BY <5>1, <5>2
      <4>2. pc' \in [Calls -> Places] /\ \A d \in Calls : d # c => pc'[d] = pc[d]
        BY <3>2 DEF TypeOK, Create
      <4>3. pc[c] = "create" /\ pc'[c] \in {"mark", "replay"}
        BY <3>2 DEF TypeOK, Create
      <4> QED
        BY <3>2, <4>1, <4>2, <4>3 DEF TypeOK, Create, StartFrame, loopVars
    <3>3. CASE Replay(c)
      BY <3>3 DEF TypeOK, Replay, StartFrame, loopVars
    <3>4. CASE MarkRunning(c)
      BY <3>4 DEF TypeOK, MarkRunning, StartFrame, loopVars, Statuses
    <3>5. CASE StartThrows(c)
      BY <3>5 DEF TypeOK, StartThrows, StartFrame, loopVars, Fault
    <3>6. CASE Turn(c)
      BY <3>6 DEF TypeOK, Turn, TurnFrame, rowVars
    <3>7. CASE TurnFails(c)
      BY <3>7 DEF TypeOK, TurnFails, TurnFrame, rowVars, loopVars
    <3>8. ASSUME NEW kind \in Kinds, Log(c, kind),
                 answer' \in [Calls -> Statuses \cup {"none", "threw", "lost"}],
                 NEW l \in Places, Goto(c, l),
                 l \notin {"find", "create", "mark", "started"},
                 l = "turn" => turns[c] < MaxTurns,
                 turns' = turns, final' = final,
                 calls' \in [Calls -> 0..MaxToolCalls],
                 \A d \in Calls : d # c => calls'[d] = calls[d],
                 l \in {"tools", "tool"} => calls'[c] > 0
          PROVE  TypeOK'
      <4>1. /\ log' \in [Keys -> Seq(Entries)]
            /\ step' \in [Calls -> Nat]
            /\ lastHash' \in [Calls -> Nat \cup {NoHash}]
            /\ UNCHANGED <<row, root, billed, aborted, faultsLeft>>
        BY <3>8, LogAppends
      <4>2. /\ pc' \in [Calls -> Places]
            /\ pc'[c] = l
            /\ \A d \in Calls : d # c => pc'[d] = pc[d]
        BY <3>8 DEF TypeOK
      <4> QED
        BY <3>8, <4>1, <4>2 DEF TypeOK
    <3>9. CASE LogStarted(c)
      <4>1. MaxTurns > 0 /\ turns[c] = 0
        BY <3>9 DEF LogStarted, TypeOK
      <4>2. Log(c, "RUN_STARTED") /\ Goto(c, "turn") /\ UNCHANGED <<answer, loopVars>>
        BY <3>9 DEF LogStarted
      <4> QED
        BY <3>8, <4>1, <4>2 DEF loopVars, TypeOK, Kinds
    <3>28. CASE PromptThrows(c)
      <4>1. /\ Log(c, "RUN_STARTED") /\ Goto(c, "done") /\ UNCHANGED loopVars
            /\ answer' = [answer EXCEPT ![c] = "threw"]
        BY <3>28 DEF PromptThrows
      <4> QED
        BY <3>8, <4>1 DEF loopVars, TypeOK, Kinds
    <3>10. CASE LogStartedThrows(c)
      BY <3>10, RejectedSkips DEF LogStartedThrows, TypeOK, loopVars
    <3>11. CASE LogTurn(c)
      <4>1. CASE calls[c] > 0
        BY <3>8, <3>11, <4>1 DEF LogTurn, loopVars, TypeOK, Kinds
      <4>2. CASE ~(calls[c] > 0)
        BY <3>8, <3>11, <4>2 DEF LogTurn, loopVars, TypeOK, Kinds
      <4> QED
        BY <4>1, <4>2
    <3>12. ASSUME Log(c, "TOOL_RESULT"), NextCall(c), pc[c] \in {"tools", "tool"}
           PROVE  TypeOK'
      <4>1. calls[c] \in 1..MaxToolCalls /\ turns[c] \in 0..MaxTurns
        BY <3>12 DEF TypeOK
      <4>2. /\ calls' \in [Calls -> 0..MaxToolCalls]
            /\ calls'[c] = calls[c] - 1
            /\ \A d \in Calls : d # c => calls'[d] = calls[d]
            /\ UNCHANGED <<turns, final>>
            /\ answer' \in [Calls -> Statuses \cup {"none", "threw", "lost"}]
        BY <3>12, <4>1 DEF NextCall, TypeOK
      <4>3. CASE calls[c] > 1
        BY <3>8, <3>12, <4>1, <4>2, <4>3 DEF NextCall, Kinds
      <4>4. CASE ~(calls[c] > 1) /\ turns[c] < MaxTurns
        BY <3>8, <3>12, <4>1, <4>2, <4>4 DEF NextCall, Kinds
      <4>5. CASE ~(calls[c] > 1) /\ ~(turns[c] < MaxTurns)
        BY <3>8, <3>12, <4>1, <4>2, <4>5 DEF NextCall, Kinds
      <4> QED
        BY <4>3, <4>4, <4>5
    <3>13. CASE Forbid(c) \/ LogResult(c)
      BY <3>12, <3>13 DEF Forbid, LogResult
    <3>14. CASE LogCall(c)
      BY <3>8, <3>14 DEF LogCall, loopVars, TypeOK, Kinds
    <3>15. CASE LogLoopLimit(c)
      BY <3>8, <3>15 DEF LogLoopLimit, loopVars, TypeOK, Kinds
    <3>16. CASE LogValidation(c)
      <4>1. CASE Goto(c, "invalid")
        BY <3>8, <3>16, <4>1 DEF LogValidation, loopVars, TypeOK, Kinds
      <4>2. CASE Goto(c, "valid")
        BY <3>8, <3>16, <4>2 DEF LogValidation, loopVars, TypeOK, Kinds
      <4> QED
        BY <3>16, <4>1, <4>2 DEF LogValidation
    <3>17. CASE LogInvalid(c)
      BY <3>8, <3>17 DEF LogInvalid, loopVars, TypeOK, Kinds
    <3>18. CASE LogCompleted(c)
      BY <3>8, <3>18 DEF LogCompleted, loopVars, TypeOK, Kinds
    <3>19. CASE LogFails(c)
      BY <3>19, RejectedSkips DEF LogFails, TypeOK, loopVars
    <3>20. CASE LogCaught(c)
      <4>1. CASE aborted[c]
        BY <3>8, <3>20, <4>1 DEF LogCaught, loopVars, TypeOK, Kinds
      <4>2. CASE ~aborted[c]
        BY <3>8, <3>20, <4>2 DEF LogCaught, loopVars, TypeOK, Kinds
      <4> QED
        BY <4>1, <4>2
    <3>21. CASE LogCaughtThrows(c)
      BY <3>21, RejectedSkips DEF LogCaughtThrows, TypeOK, loopVars
    <3>22. CASE Complete(c)
      BY <3>22 DEF Complete, EndFrame, loopVars, TypeOK, Statuses, Outcomes
    <3>23. CASE CompleteFails(c)
      BY <3>23 DEF CompleteFails, Fault, EndFrame, rowVars, loopVars, TypeOK
    <3>24. CASE Fail(c)
      BY <3>24 DEF Fail, EndFrame, loopVars, TypeOK, Statuses, Outcomes
    <3>25. CASE FailSwallowed(c)
      BY <3>25 DEF FailSwallowed, Fault, EndFrame, rowVars, loopVars, TypeOK,
                   Statuses, Outcomes
    <3>26. CASE TimeOut(c)
      BY <3>26 DEF TimeOut, EndFrame, loopVars, TypeOK, Statuses, Outcomes
    <3>27. CASE TimeOutThrows(c)
      BY <3>27 DEF TimeOutThrows, Fault, EndFrame, rowVars, loopVars, TypeOK
    <3> QED
      BY <2>1, <3>1, <3>2, <3>3, <3>4, <3>5, <3>6, <3>7, <3>9, <3>10, <3>11,
         <3>13, <3>14, <3>15, <3>16, <3>17, <3>18, <3>19, <3>20, <3>21, <3>22,
         <3>23, <3>24, <3>25, <3>26, <3>27, <3>28 DEF Step
  <2>2. ASSUME NEW c \in Calls, Deadline(c) PROVE TypeOK'
    BY <2>2 DEF Deadline, rowVars, loopVars, TypeOK
  <2>3. CASE Crash
    BY <2>3 DEF Crash, Fault, rowVars, loopVars, TypeOK, Places
  <2>4. CASE UNCHANGED vars
    BY <2>4 DEF vars, rowVars, loopVars, TypeOK
  <2> QED
    BY <2>1, <2>2, <2>3, <2>4 DEF Next
<1> QED
  BY <1>1, <1>2, PTL DEF Spec

-----------------------------------------------------------------------------
(* Outcomes and anchors.                                                   *)

\* Steps that leave the tables alone: calls that do not move, return, or go
\* from one place of the run to another that promises no entry.
LEMMA QuietSteps ==
  ASSUME AnchorInv, UNCHANGED <<row, root, log, step, lastHash>>,
         \A c \in Calls :
           \/ pc'[c] = pc[c]
           \/ pc'[c] \notin Timed \cup {"mark"}
           \/ /\ pc[c] \in Timed \ {"started"}
              /\ pc'[c] \in Timed \ {"started", "complete", "fail", "timeOut"}
  PROVE  AnchorInv'
<1> USE DEF AnchorInv, Active, Owns
<1>1. \A c \in Calls : Active(c)' => Active(c)
  OBVIOUS
<1>2. \A c \in Calls : Owns(c)' => Owns(c)
  BY <1>1
<1>3. Ownership'
  BY <1>2 DEF Ownership
<1>4. Retired' /\ NoAnchorYet' /\ OutcomeAnchored'
  BY <1>1 DEF Retired, NoAnchorYet, OutcomeAnchored, Ended, LastEntry
<1>5. TrailKnown'
  BY DEF TrailKnown, LastEntry, Timed, InTry
<1> QED
  BY <1>3, <1>4, <1>5

\* A logging step of an active call that returns, or goes to a place that promises
\* at most the entry just appended.
LEMMA LogSteps ==
  ASSUME TypeOK, AnchorInv, NEW c \in Calls, pc[c] \in Timed,
         NEW kind \in Kinds, Log(c, kind),
         NEW l \in (Timed \ {"started"}) \cup {"done"}, Goto(c, l),
         l = "complete" => kind = "RUN_COMPLETED",
         l \in {"fail", "timeOut"} => kind = "RUN_FAILED"
  PROVE  AnchorInv'
<1> USE DEF AnchorInv
<1> DEFINE k == KeyOf[c]
<1>1. /\ pc'[c] = l
      /\ \A d \in Calls : d # c => pc'[d] = pc[d]
      /\ k \in Keys
  BY DEF TypeOK, Goto
<1>2. /\ \A d \in Calls : d # c => step'[d] = step[d] /\ lastHash'[d] = lastHash[d]
      /\ \A x \in Keys : x # k => log'[x] = log[x]
      /\ log'[k] # <<>>
      /\ LastEntry(k)'.kind = kind
      /\ LastEntry(k)'.step = lastHash'[c]
      /\ UNCHANGED <<row, root>>
  BY LogAppends
<1>3. /\ \A d \in Calls : Active(d)' => Active(d)
      /\ \A d \in Calls : Owns(d)' => Owns(d)
      /\ Active(c) /\ Owns(c)
  BY <1>1, <1>2 DEF Active, Owns
<1>4. Ownership' /\ Retired' /\ NoAnchorYet'
  BY <1>2, <1>3 DEF Ownership, Retired, NoAnchorYet, Ended
<1>5. TrailKnown'
  <2> SUFFICES ASSUME NEW d \in Calls, d # c
               PROVE  /\ pc'[d] \in Timed \ {"started"} =>
                           /\ log'[KeyOf[d]] # <<>>
                           /\ lastHash'[d] = LastEntry(KeyOf[d])'.step
                      /\ pc'[d] = "complete" =>
                           LastEntry(KeyOf[d])'.kind = "RUN_COMPLETED"
                      /\ pc'[d] \in {"fail", "timeOut"} =>
                           LastEntry(KeyOf[d])'.kind = "RUN_FAILED"
    BY <1>1, <1>2 DEF TrailKnown
  <2>1. CASE pc[d] \notin Timed
    BY <1>1, <2>1 DEF Timed, InTry
  <2>2. CASE pc[d] \in Timed
    <3>1. Owns(d)
      BY <2>2 DEF Owns, Active
    <3>2. KeyOf[d] \in Keys /\ KeyOf[d] # k
      BY <3>1, <1>3 DEF Ownership
    <3>3. log'[KeyOf[d]] = log[KeyOf[d]]
      BY <3>2, <1>2
    <3> QED
      BY <3>3, <1>1, <1>2 DEF TrailKnown, LastEntry
  <2> QED
    BY <2>1, <2>2
<1>6. OutcomeAnchored'
  <2>1. ~Ended(k)
    BY <1>3 DEF Retired
  <2>2. \A x \in Keys : Ended(x)' => x # k /\ log'[x] = log[x]
    BY <2>1, <1>2 DEF Ended
  <2> QED
    BY <2>2, <1>2 DEF OutcomeAnchored, Ended, LastEntry
<1> QED
  BY <1>4, <1>5, <1>6

\* A rejected entry: the call goes to the catch block or returns.
LEMMA RejectedSteps ==
  ASSUME TypeOK, AnchorInv, NEW c \in Calls, pc[c] \in Timed, LogRejected(c),
         \/ pc[c] # "started" /\ Goto(c, "failing")
         \/ Goto(c, "done")
  PROVE  AnchorInv'
<1> USE DEF AnchorInv
<1>1. /\ \A d \in Calls : d # c => pc'[d] = pc[d] /\ step'[d] = step[d]
      /\ pc'[c] = "done" \/ (pc'[c] = "failing" /\ pc[c] # "started")
      /\ UNCHANGED <<row, root, log, lastHash>>
  BY RejectedSkips DEF TypeOK, Goto
<1>2. /\ \A d \in Calls : Active(d)' => Active(d)
      /\ \A d \in Calls : Owns(d)' => Owns(d)
  BY <1>1 DEF Active, Owns, Timed, InTry
<1>3. Ownership' /\ Retired' /\ NoAnchorYet' /\ OutcomeAnchored'
  BY <1>1, <1>2 DEF Ownership, Retired, NoAnchorYet, OutcomeAnchored, Ended,
                    LastEntry
<1>4. TrailKnown'
  BY <1>1 DEF TrailKnown, LastEntry, Timed, InTry
<1> QED
  BY <1>3, <1>4

\* The last write of a run: its owner returns, and the row agrees with the
\* trail's last entry.
LEMMA LastWrites ==
  ASSUME TypeOK, AnchorInv, NEW c \in Calls, pc[c] \in Timed \ {"started"},
         pc' = [pc EXCEPT ![c] = "done"], UNCHANGED <<log, step, lastHash>>,
         NEW outcome \in Outcomes, NEW anchor,
         row' = [row EXCEPT ![KeyOf[c]] = outcome],
         root' = [root EXCEPT ![KeyOf[c]] = anchor],
         anchor = IF outcome = "TIMED_OUT" THEN NoHash ELSE lastHash[c],
         LastEntry(KeyOf[c]).kind =
           IF outcome = "SUCCEEDED" THEN "RUN_COMPLETED" ELSE "RUN_FAILED"
  PROVE  AnchorInv'
<1> USE DEF AnchorInv
<1> DEFINE k == KeyOf[c]
<1>1. /\ pc'[c] = "done"
      /\ \A d \in Calls : d # c => pc'[d] = pc[d]
      /\ k \in Keys
      /\ row'[k] = outcome /\ root'[k] = anchor
      /\ \A x \in Keys : x # k => row'[x] = row[x] /\ root'[x] = root[x]
  BY DEF TypeOK
<1>2. Active(c) /\ Owns(c) /\ ~Active(c)'
  BY <1>1 DEF Active, Owns, Timed, InTry
<1>3. \A d \in Calls : d # c => Active(d)' = Active(d) /\ Owns(d)' = Owns(d)
  BY <1>1 DEF Active, Owns
<1>4. \A d \in Calls : Active(d)' => KeyOf[d] \in Keys /\ KeyOf[d] # k
  BY <1>2, <1>3 DEF Ownership, Owns
<1>5. outcome # "ABSENT"
  BY DEF Outcomes
<1>6. Ownership'
  BY <1>1, <1>2, <1>3, <1>5 DEF Ownership
<1>7. Retired'
  BY <1>1, <1>2, <1>3, <1>4 DEF Retired, Ended
<1>8. TrailKnown'
  BY <1>1 DEF TrailKnown, LastEntry, Timed, InTry
<1>9. NoAnchorYet' /\ OutcomeAnchored'
  <2>1. log[k] # <<>> /\ lastHash[c] = LastEntry(k).step
    BY DEF TrailKnown
  <2>2. Ended(k)'
    BY <1>1 DEF Ended
  <2>3. \A x \in Keys : x # k => Ended(x)' = Ended(x)
    BY <1>1 DEF Ended
  <2> QED
    BY <1>1, <2>1, <2>2, <2>3 DEF NoAnchorYet, OutcomeAnchored, LastEntry
<1> QED
  BY <1>6, <1>7, <1>8, <1>9

\* The invariant holds at the start and is kept by every step.
LEMMA AnchorInductive ==
  /\ Init => AnchorInv
  /\ TypeOK /\ AnchorInv /\ [Next]_vars => AnchorInv'
<1>1. Init => AnchorInv
  BY DEF Init, AnchorInv, Ownership, Retired, TrailKnown, NoAnchorYet,
         OutcomeAnchored, Active, Owns, Ended, Outcomes, Timed, InTry
<1>2. ASSUME TypeOK, AnchorInv, [Next]_vars PROVE AnchorInv'
  <2> USE <1>2
  <2>1. ASSUME NEW c \in Calls, Step(c) PROVE AnchorInv'
    <3>1. CASE Find(c) \/ Replay(c) \/ StartThrows(c)
      BY <3>1, QuietSteps DEF Find, Replay, StartThrows, StartFrame, Goto, Return,
                              TypeOK, Timed, InTry
    <3>2. CASE Create(c)
      <4>1. CASE row[KeyOf[c]] = "ABSENT"
        <5> DEFINE k == KeyOf[c]
        <5>1. /\ k \in Keys /\ pc[c] = "create"
              /\ row'[k] = "QUEUED" /\ pc'[c] = "mark"
              /\ \A x \in Keys : x # k => row'[x] = row[x]
              /\ \A d \in Calls : d # c => pc'[d] = pc[d]
              /\ UNCHANGED <<root, log, step, lastHash>>
          BY <3>2, <4>1 DEF Create, StartFrame, Goto, TypeOK
        <5>2. \A d \in Calls : Owns(d) => KeyOf[d] # k
          BY <4>1 DEF AnchorInv, Ownership
        <5>3. \A d \in Calls : d # c => Active(d)' = Active(d) /\ Owns(d)' = Owns(d)
          BY <5>1 DEF Active, Owns
        <5>4. Ownership'
          BY <5>1, <5>2, <5>3 DEF AnchorInv, Ownership
        <5>5. ~Ended(k) /\ ~Ended(k)' /\ \A x \in Keys : x # k => Ended(x)' = Ended(x)
          BY <4>1, <5>1 DEF Ended, Outcomes
        <5>6. Retired' /\ NoAnchorYet' /\ OutcomeAnchored'
          BY <5>1, <5>2, <5>3, <5>5
             DEF AnchorInv, Retired, NoAnchorYet, OutcomeAnchored, Owns, Ended,
                 LastEntry
        <5>7. TrailKnown'
          BY <5>1 DEF AnchorInv, TrailKnown, LastEntry, Timed, InTry
        <5> QED
          BY <5>4, <5>6, <5>7 DEF AnchorInv
      <4>2. CASE row[KeyOf[c]] # "ABSENT"
        BY <3>2, <4>2, QuietSteps DEF Create, StartFrame, Goto, TypeOK, Timed, InTry
      <4> QED
        BY <4>1, <4>2
    <3>3. CASE MarkRunning(c)
      <4> DEFINE k == KeyOf[c]
      <4>1. /\ k \in Keys /\ pc[c] = "mark"
            /\ row'[k] = "RUNNING" /\ pc'[c] = "started"
            /\ \A x \in Keys : x # k => row'[x] = row[x]
            /\ \A d \in Calls : d # c => pc'[d] = pc[d]
            /\ UNCHANGED <<root, log, step, lastHash>>
        BY <3>3 DEF MarkRunning, StartFrame, Goto, TypeOK
      <4>2. \A d \in Calls : Active(d)' = Active(d) /\ Owns(d)' = Owns(d)
        BY <4>1 DEF Active, Owns, Timed
      <4>3. ~Ended(k) /\ ~Ended(k)' /\ \A x \in Keys : x # k => Ended(x)' = Ended(x)
        BY <4>1 DEF AnchorInv, Retired, Active, Ended, Outcomes
      <4>4. Ownership'
        BY <4>1, <4>2 DEF AnchorInv, Ownership
      <4>5. Retired' /\ NoAnchorYet' /\ OutcomeAnchored'
        BY <4>1, <4>2, <4>3
           DEF AnchorInv, Retired, NoAnchorYet, OutcomeAnchored, Ended, LastEntry
      <4>6. TrailKnown'
        BY <4>1 DEF AnchorInv, TrailKnown, LastEntry, Timed, InTry
      <4> QED
        BY <4>4, <4>5, <4>6 DEF AnchorInv
    <3>4. CASE Turn(c) \/ TurnFails(c)
      BY <3>4, QuietSteps DEF Turn, TurnFails, TurnFrame, rowVars, Goto, TypeOK,
                              Timed, InTry
    <3>5. CASE LogStarted(c) \/ LogTurn(c) \/ Forbid(c) \/ LogCall(c) \/ LogResult(c)
      <4>1. PICK kind \in Kinds : Log(c, kind)
        BY <3>5 DEF LogStarted, LogTurn, Forbid, LogCall, LogResult, Kinds
      <4>2. pc[c] \in Timed
        BY <3>5 DEF LogStarted, LogTurn, Forbid, LogCall, LogResult, Timed, InTry
      <4>3. PICK l \in {"turn", "tools", "tool", "ended"} : Goto(c, l)
        BY <3>5 DEF LogStarted, LogTurn, Forbid, LogCall, LogResult, NextCall
      <4> QED
        BY <4>1, <4>2, <4>3, LogSteps DEF Timed, InTry
    <3>6. CASE LogValidation(c)
      BY <3>6, LogSteps DEF LogValidation, Kinds, Timed, InTry
    <3>7. CASE LogLoopLimit(c) \/ LogInvalid(c)
      BY <3>7, LogSteps DEF LogLoopLimit, LogInvalid, Kinds, Timed, InTry
    <3>8. CASE LogCompleted(c)
      BY <3>8, LogSteps DEF LogCompleted, Kinds, Timed, InTry
    <3>9. CASE LogCaught(c)
      <4>1. PICK l \in {"fail", "timeOut"} : Goto(c, l)
        BY <3>9 DEF LogCaught
      <4> QED
        BY <3>9, <4>1, LogSteps DEF LogCaught, Kinds, Timed, InTry
    <3>10. CASE LogStartedThrows(c) \/ LogFails(c) \/ LogCaughtThrows(c)
      BY <3>10, RejectedSteps DEF LogStartedThrows, LogFails, LogCaughtThrows,
                                  Return, Timed, InTry
    <3>11. CASE CompleteFails(c) \/ FailSwallowed(c) \/ TimeOutThrows(c)
      BY <3>11, QuietSteps DEF CompleteFails, FailSwallowed, TimeOutThrows, Goto,
                               Return, rowVars, EndFrame, TypeOK, Timed, InTry
    <3>12. CASE Complete(c)
      <4>1. /\ pc[c] \in Timed \ {"started"} /\ pc[c] = "complete"
            /\ pc' = [pc EXCEPT ![c] = "done"]
            /\ UNCHANGED <<log, step, lastHash>>
            /\ row' = [row EXCEPT ![KeyOf[c]] = "SUCCEEDED"]
            /\ root' = [root EXCEPT ![KeyOf[c]] = lastHash[c]]
        BY <3>12 DEF Complete, Return, Goto, EndFrame, Timed, InTry
      <4>2. LastEntry(KeyOf[c]).kind = "RUN_COMPLETED" /\ "SUCCEEDED" \in Outcomes
        BY <4>1 DEF AnchorInv, TrailKnown, Outcomes
      <4> QED
        BY <4>1, <4>2, LastWrites
    <3>13. CASE Fail(c)
      <4>1. /\ pc[c] \in Timed \ {"started"} /\ pc[c] = "fail"
            /\ pc' = [pc EXCEPT ![c] = "done"]
            /\ UNCHANGED <<log, step, lastHash>>
            /\ row' = [row EXCEPT ![KeyOf[c]] = "FAILED"]
            /\ root' = [root EXCEPT ![KeyOf[c]] = lastHash[c]]
        BY <3>13 DEF Fail, Return, Goto, EndFrame, Timed
      <4>2. LastEntry(KeyOf[c]).kind = "RUN_FAILED" /\ "FAILED" \in Outcomes
        BY <4>1 DEF AnchorInv, TrailKnown, Outcomes
      <4> QED
        BY <4>1, <4>2, LastWrites
    <3>14. CASE TimeOut(c)
      <4>1. /\ pc[c] \in Timed \ {"started"} /\ pc[c] = "timeOut"
            /\ pc' = [pc EXCEPT ![c] = "done"]
            /\ UNCHANGED <<log, step, lastHash, root>>
            /\ row' = [row EXCEPT ![KeyOf[c]] = "TIMED_OUT"]
        BY <3>14 DEF TimeOut, Return, Goto, EndFrame, Timed
      <4>2. LastEntry(KeyOf[c]).kind = "RUN_FAILED" /\ "TIMED_OUT" \in Outcomes
        BY <4>1 DEF AnchorInv, TrailKnown, Outcomes
      <4>3. KeyOf[c] \in Keys /\ root[KeyOf[c]] = NoHash
        BY <4>1 DEF AnchorInv, Retired, NoAnchorYet, Active
      <4>4. root' = [root EXCEPT ![KeyOf[c]] = NoHash]
        BY <4>1, <4>3 DEF TypeOK
      <4> QED
        BY <4>1, <4>2, <4>4, LastWrites
    <3>15. CASE PromptThrows(c)
      BY <3>15, LogSteps DEF PromptThrows, Return, Kinds, Timed
    <3> QED
      BY <2>1, <3>1, <3>2, <3>3, <3>4, <3>5, <3>6, <3>7, <3>8, <3>9, <3>10,
         <3>11, <3>12, <3>13, <3>14, <3>15 DEF Step
  <2>2. ASSUME NEW c \in Calls, Deadline(c) PROVE AnchorInv'
    BY <2>2, QuietSteps DEF Deadline, rowVars
  <2>3. CASE Crash
    BY <2>3, QuietSteps DEF Crash, rowVars, Timed, InTry
  <2>4. CASE UNCHANGED vars
    BY <2>4, QuietSteps DEF vars, rowVars
  <2> QED
    BY <2>1, <2>2, <2>3, <2>4 DEF Next
<1> QED
  BY <1>1, <1>2

\* However many calls race for a key, one of them executes it.
THEOREM KeysAreExecutedOnce == Spec => []ExecutedOnce
<1>1. AnchorInv => ExecutedOnce
  BY DEF AnchorInv, Ownership, Owns, ExecutedOnce
<1> QED
  BY <1>1, TypeCorrect, AnchorInductive, PTL DEF Spec

\* A finished run's row and the end of its audit trail agree, and the anchor in
\* the row is the hash of the trail's last entry.
THEOREM OutcomesAreAnchored == Spec => []OutcomeAnchored
<1>1. AnchorInv => OutcomeAnchored
  BY DEF AnchorInv
<1> QED
  BY <1>1, TypeCorrect, AnchorInductive, PTL DEF Spec

\* A finished run's row and trail never change.
THEOREM FinishedStays == Spec => FinishedIsFinal
<1>1. ASSUME TypeOK, AnchorInv, [Next]_vars, NEW k \in Keys, Ended(k)
      PROVE  UNCHANGED <<row[k], root[k], billed[k], log[k]>>
  <2> USE <1>1
  <2>1. ASSUME NEW c \in Calls, Step(c)
        PROVE  UNCHANGED <<row[k], root[k], billed[k], log[k]>>
    <3>1. KeyOf[c] = k => ~Active(c) /\ row[k] # "ABSENT"
      BY DEF AnchorInv, Retired, Ended, Outcomes
    <3>2. CASE Find(c) \/ Create(c) \/ Replay(c) \/ StartThrows(c)
      BY <3>1, <3>2 DEF Find, Create, Replay, StartThrows, StartFrame, TypeOK
    <3>3. CASE MarkRunning(c)
      BY <3>1, <3>3 DEF MarkRunning, StartFrame, Active, TypeOK
    <3>4. CASE \/ Turn(c) \/ TurnFails(c) \/ LogStartedThrows(c) \/ LogFails(c)
               \/ LogCaughtThrows(c) \/ CompleteFails(c) \/ FailSwallowed(c)
               \/ TimeOutThrows(c)
      BY <3>4 DEF Turn, TurnFails, TurnFrame, LogStartedThrows, LogFails,
                  LogCaughtThrows, LogRejected, LogFrame, CompleteFails,
                  FailSwallowed, TimeOutThrows, EndFrame, rowVars
    <3>5. ASSUME NEW kind \in Kinds, Log(c, kind), pc[c] \in Timed
          PROVE  UNCHANGED <<row[k], root[k], billed[k], log[k]>>
      BY <3>1, <3>5, LogAppends DEF Active
    <3>6. CASE \/ LogStarted(c) \/ LogTurn(c) \/ Forbid(c) \/ LogCall(c)
               \/ LogResult(c) \/ LogLoopLimit(c) \/ LogValidation(c)
               \/ LogInvalid(c) \/ LogCompleted(c) \/ LogCaught(c)
               \/ PromptThrows(c)
      <4>1. pc[c] \in Timed
        BY <3>6 DEF LogStarted, LogTurn, Forbid, LogCall, LogResult, LogLoopLimit,
                    LogValidation, LogInvalid, LogCompleted, LogCaught, PromptThrows, Timed,
                    InTry
      <4>2. PICK kind \in Kinds : Log(c, kind)
        BY <3>6 DEF LogStarted, LogTurn, Forbid, LogCall, LogResult, LogLoopLimit,
                    LogValidation, LogInvalid, LogCompleted, LogCaught, PromptThrows,
                    Kinds
      <4> QED
        BY <3>5, <4>1, <4>2
    <3>7. CASE Complete(c) \/ Fail(c) \/ TimeOut(c)
      BY <3>1, <3>7 DEF Complete, Fail, TimeOut, EndFrame, Active, Timed, InTry,
                        TypeOK
    <3> QED
      BY <2>1, <3>2, <3>3, <3>4, <3>6, <3>7 DEF Step
  <2>2. CASE \E c \in Calls : Deadline(c)
    BY <2>2 DEF Deadline, rowVars
  <2>3. CASE Crash
    BY <2>3 DEF Crash, rowVars
  <2>4. CASE UNCHANGED vars
    BY <2>4 DEF vars, rowVars
  <2> QED
    BY <2>1, <2>2, <2>3, <2>4 DEF Next
<1>2. TypeOK /\ AnchorInv /\ [Next]_vars
        => [\A k \in Keys :
              Ended(k) => UNCHANGED <<row[k], root[k], billed[k], log[k]>>]_vars
  BY <1>1
<1> QED
  BY <1>2, TypeCorrect, AnchorInductive, PTL DEF Spec, FinishedIsFinal

-----------------------------------------------------------------------------
(* The trail's links, and the turns it holds.                              *)

\* The next entry of an active call links to the last one and has a later index.
Linked(c) ==
  IF log[KeyOf[c]] = <<>> THEN lastHash[c] = NoHash
  ELSE /\ lastHash[c] = LastEntry(KeyOf[c]).step
       /\ LastEntry(KeyOf[c]).step < step[c]

Unlogged(c) == turns[c] - Cardinality(LoggedTurns(KeyOf[c]))

\* Every turn of an active call is in the trail, but for the one it is about to
\* log, and for that one if it cannot be logged.
Counted(c) ==
  /\ Unlogged(c) \in {0, 1}
  /\ pc[c] = "logTurn" => Unlogged(c) = 1
  /\ pc[c] \in (InTry \ {"logTurn"}) \cup {"mark", "started"} => Unlogged(c) = 0

\* A call that has not inserted its row has no predecessor, and a key without a
\* row no trail.
NothingYet ==
  /\ \A c \in Calls : pc[c] \in {"find", "create"} => lastHash[c] = NoHash
  /\ \A k \in Keys : row[k] = "ABSENT" => log[k] = <<>>

TrailInv ==
  /\ NothingYet
  /\ \A c \in Calls : Active(c) => Linked(c) /\ Counted(c)
  /\ ChainLinked /\ TurnsAreBilled

\* The turns among the entries of a trail.
TurnsIn(s) == {i \in DOMAIN s : s[i].kind = "LLM_TURN"}

\* An entry of a turn adds one to them, any other none.
LEMMA AppendCounts ==
  ASSUME NEW s \in Seq(Entries), NEW e \in Entries
  PROVE  /\ Cardinality(TurnsIn(s)) \in Nat
         /\ Cardinality(TurnsIn(Append(s, e))) =
              Cardinality(TurnsIn(s)) + IF e.kind = "LLM_TURN" THEN 1 ELSE 0
<1> DEFINE n == Len(s)
<1>1. /\ n \in Nat /\ DOMAIN s = 1 .. n /\ DOMAIN Append(s, e) = 1 .. n + 1
      /\ Append(s, e)[n + 1] = e
      /\ \A i \in 1 .. n : Append(s, e)[i] = s[i]
  OBVIOUS
<1>2. IsFiniteSet(1 .. n)
  BY <1>1, FS_Interval
<1>3. TurnsIn(s) \subseteq 1 .. n
  BY <1>1 DEF TurnsIn
<1>4. IsFiniteSet(TurnsIn(s)) /\ Cardinality(TurnsIn(s)) \in Nat
  BY <1>2, <1>3, FS_Subset, FS_CardinalityType
<1>5. n + 1 \notin TurnsIn(s)
  BY <1>1, <1>3
<1>6. CASE e.kind = "LLM_TURN"
  <2>1. TurnsIn(Append(s, e)) = TurnsIn(s) \cup {n + 1}
    BY <1>1, <1>6 DEF TurnsIn
  <2> QED
    BY <1>4, <1>5, <1>6, <2>1, FS_AddElement
<1>7. CASE e.kind # "LLM_TURN"
  <2>1. TurnsIn(Append(s, e)) = TurnsIn(s)
    BY <1>1, <1>7 DEF TurnsIn
  <2> QED
    BY <1>4, <1>7, <2>1
<1> QED
  BY <1>4, <1>6, <1>7

\* A count of logged turns is a number.
LEMMA LoggedIsNat ==
  ASSUME TypeOK, NEW k \in Keys
  PROVE  /\ LoggedTurns(k) = TurnsIn(log[k])
         /\ Cardinality(LoggedTurns(k)) \in Nat
<1> DEFINE e == [step |-> 0, kind |-> "LLM_TURN", prev |-> NoHash]
<1>1. log[k] \in Seq(Entries) /\ e \in Entries
  BY DEF TypeOK, Entries, Kinds
<1>2. LoggedTurns(k) = TurnsIn(log[k])
  BY DEF LoggedTurns, TurnsIn
<1> QED
  BY <1>1, <1>2, AppendCounts

\* The last of a trail's entries has an index.
LEMMA LastIsEntry ==
  ASSUME TypeOK, NEW k \in Keys, log[k] # <<>>
  PROVE  /\ LastEntry(k) \in Entries
         /\ LastEntry(k).step \in Nat
<1>1. log[k] \in Seq(Entries)
  BY DEF TypeOK
<1>2. Len(log[k]) \in 1 .. Len(log[k])
  BY <1>1
<1>3. LastEntry(k) \in Entries
  BY <1>1, <1>2 DEF LastEntry
<1> QED
  BY <1>3 DEF Entries

\* What a logging step does to the trail it appends to and to its turns.
LEMMA LogExtends ==
  ASSUME TypeOK, NEW c \in Calls, NEW kind \in Kinds, Log(c, kind)
  PROVE  LET k == KeyOf[c]
             e == [step |-> step[c], kind |-> kind, prev |-> lastHash[c]]
         IN  /\ k \in Keys /\ e \in Entries
             /\ log[k] \in Seq(Entries) /\ log'[k] = Append(log[k], e)
             /\ \A x \in Keys : x # k => log'[x] = log[x]
             /\ lastHash'[c] = step[c] /\ step'[c] = step[c] + 1
             /\ \A d \in Calls : d # c => /\ lastHash'[d] = lastHash[d]
                                          /\ step'[d] = step[d]
             /\ UNCHANGED <<row, root, billed>>
<1> DEFINE k == KeyOf[c]
           e == [step |-> step[c], kind |-> kind, prev |-> lastHash[c]]
<1>1. k \in Keys /\ e \in Entries /\ log[k] \in Seq(Entries)
  BY DEF TypeOK, Entries
<1>2. /\ log' = [log EXCEPT ![k] = Append(@, e)]
      /\ step' = [step EXCEPT ![c] = @ + 1]
      /\ lastHash' = [lastHash EXCEPT ![c] = step[c]]
      /\ UNCHANGED <<row, root, billed>>
  BY DEF Log, LogFrame, rowVars
<1>3. log'[k] = Append(log[k], e) /\ \A x \in Keys : x # k => log'[x] = log[x]
  BY <1>1, <1>2 DEF TypeOK
<1>4. /\ lastHash'[c] = step[c] /\ step'[c] = step[c] + 1
      /\ \A d \in Calls : d # c => lastHash'[d] = lastHash[d] /\ step'[d] = step[d]
  BY <1>2 DEF TypeOK
<1> QED
  BY <1>1, <1>2, <1>3, <1>4

\* A call that appends nothing has the link it had.
LEMMA QuietLinks ==
  ASSUME TypeOK, NEW c \in Calls, Linked(c), UNCHANGED <<log, lastHash>>,
         step'[c] \in Nat, step'[c] >= step[c]
  PROVE  Linked(c)'
<1> DEFINE k == KeyOf[c]
<1>1. k \in Keys /\ step[c] \in Nat /\ log'[k] = log[k]
  BY DEF TypeOK
<1>2. CASE log[k] = <<>>
  BY <1>1, <1>2 DEF Linked
<1>3. CASE log[k] # <<>>
  <2>1. LastEntry(k).step \in Nat /\ LastEntry(k)' = LastEntry(k)
    BY <1>1, <1>3, LastIsEntry DEF LastEntry
  <2> QED
    BY <1>1, <1>3, <2>1 DEF Linked
<1> QED
  BY <1>2, <1>3

\* A call that appends nothing has logged what it had; a turn it takes is one
\* more to log.
LEMMA QuietCounts ==
  ASSUME TypeOK, NEW c \in Calls, Counted(c), log' = log,
         \/ pc'[c] = pc[c] /\ turns'[c] = turns[c]
         \/ pc[c] = "mark" /\ pc'[c] = "started" /\ turns'[c] = turns[c]
         \/ pc[c] \in InTry /\ pc'[c] = "failing" /\ turns'[c] = turns[c]
         \/ pc[c] = "turn" /\ pc'[c] = "logTurn" /\ turns'[c] = turns[c] + 1
  PROVE  Counted(c)'
<1> DEFINE k == KeyOf[c]
<1>1. turns[c] \in Nat /\ k \in Keys
  BY DEF TypeOK
<1>2. Cardinality(LoggedTurns(k)) \in Nat
  BY <1>1, LoggedIsNat
<1>3. LoggedTurns(k)' = LoggedTurns(k)
  BY DEF LoggedTurns
<1>4. /\ Unlogged(c) = turns[c] - Cardinality(LoggedTurns(k))
      /\ Unlogged(c)' = turns'[c] - Cardinality(LoggedTurns(k))
  BY <1>3 DEF Unlogged
<1>5. CASE pc'[c] = pc[c] /\ turns'[c] = turns[c]
  BY <1>4, <1>5 DEF Counted
<1>6. CASE pc[c] = "mark" /\ pc'[c] = "started" /\ turns'[c] = turns[c]
  BY <1>4, <1>6 DEF Counted
<1>7. CASE pc[c] \in InTry /\ pc'[c] = "failing" /\ turns'[c] = turns[c]
  BY <1>4, <1>7 DEF Counted, InTry
<1>8. CASE pc[c] = "turn" /\ pc'[c] = "logTurn" /\ turns'[c] = turns[c] + 1
  <2>1. Unlogged(c) = 0
    BY <1>8 DEF Counted, InTry
  <2>2. Unlogged(c)' = 1
    BY <1>1, <1>2, <1>4, <1>8, <2>1
  <2> QED
    BY <1>8, <2>2 DEF Counted, InTry
<1> QED
  BY <1>5, <1>6, <1>7, <1>8

\* Steps that append nothing and end no run.
LEMMA QuietTrail ==
  ASSUME TypeOK, TypeOK', TrailInv, UNCHANGED <<log, lastHash>>,
         \A c \in Calls : step'[c] >= step[c],
         \A c \in Calls :
           \/ pc'[c] = pc[c] /\ turns'[c] = turns[c]
           \/ pc'[c] \notin Timed \cup {"mark", "find", "create"}
           \/ pc[c] = "find" /\ pc'[c] = "create"
           \/ pc[c] = "mark" /\ pc'[c] = "started" /\ turns'[c] = turns[c]
           \/ pc[c] \in InTry /\ pc'[c] = "failing" /\ turns'[c] = turns[c]
           \/ pc[c] = "turn" /\ pc'[c] = "logTurn" /\ turns'[c] = turns[c] + 1,
         \A k \in Keys : row'[k] = "ABSENT" => row[k] = "ABSENT",
         \A k \in Keys : Ended(k)' => Ended(k) /\ billed'[k] = billed[k]
  PROVE  TrailInv'
<1>1. \A k \in Keys : /\ log'[k] = log[k]
                      /\ LoggedTurns(k)' = LoggedTurns(k)
                      /\ LastEntry(k)' = LastEntry(k)
  BY DEF LoggedTurns, LastEntry
<1>2. NothingYet'
  BY DEF TrailInv, NothingYet, Timed, InTry
<1>3. ASSUME NEW c \in Calls, Active(c)' PROVE Linked(c)' /\ Counted(c)'
  <2>1. Active(c)
    BY <1>3 DEF Active, Timed, InTry
  <2>2. Linked(c) /\ Counted(c)
    BY <2>1 DEF TrailInv
  <2>3. step'[c] \in Nat /\ step'[c] >= step[c]
    BY DEF TypeOK
  <2>4. Linked(c)'
    BY <2>2, <2>3, QuietLinks
  <2>5. \/ pc'[c] = pc[c] /\ turns'[c] = turns[c]
        \/ pc[c] = "mark" /\ pc'[c] = "started" /\ turns'[c] = turns[c]
        \/ pc[c] \in InTry /\ pc'[c] = "failing" /\ turns'[c] = turns[c]
        \/ pc[c] = "turn" /\ pc'[c] = "logTurn" /\ turns'[c] = turns[c] + 1
    BY <1>3 DEF Active, Timed, InTry
  <2>6. Counted(c)'
    BY <2>2, <2>5, QuietCounts
  <2> QED
    BY <2>4, <2>6
<1>4. ChainLinked'
  BY DEF TrailInv, ChainLinked
<1>5. TurnsAreBilled'
  BY <1>1 DEF TrailInv, TurnsAreBilled
<1> QED
  BY <1>2, <1>3, <1>4, <1>5 DEF TrailInv

\* The same of calls that stay where they are or return.
LEMMA QuietStay ==
  ASSUME TypeOK, TypeOK', TrailInv,
         UNCHANGED <<row, billed, log, step, lastHash, turns>>,
         \A d \in Calls : pc'[d] = pc[d] \/ pc'[d] = "done"
  PROVE  TrailInv'
<1>1. \A d \in Calls : step'[d] >= step[d]
  BY DEF TypeOK
<1>2. \A k \in Keys : row'[k] = row[k] /\ billed'[k] = billed[k]
  OBVIOUS
<1>3. "done" \notin Timed \cup {"mark", "find", "create"}
  BY DEF Timed, InTry
<1>4. \A d \in Calls : \/ pc'[d] = pc[d] /\ turns'[d] = turns[d]
                      \/ pc'[d] \notin Timed \cup {"mark", "find", "create"}
  BY <1>3, Zenon
<1>5. \A k \in Keys : Ended(k)' => Ended(k) /\ billed'[k] = billed[k]
  BY <1>2 DEF Ended
<1> QED
  BY <1>1, <1>2, <1>4, <1>5, QuietTrail

\* The same of one call that moves and writes no row.
LEMMA QuietMove ==
  ASSUME TypeOK, TypeOK', TrailInv, NEW c \in Calls,
         UNCHANGED <<row, billed, log, step, lastHash>>,
         \A d \in Calls : d # c => pc'[d] = pc[d] /\ turns'[d] = turns[d],
         \/ pc'[c] \in {"done", "replay"}
         \/ pc[c] = "find" /\ pc'[c] = "create"
         \/ pc[c] \in InTry /\ pc'[c] = "failing" /\ turns'[c] = turns[c]
         \/ pc[c] = "turn" /\ pc'[c] = "logTurn" /\ turns'[c] = turns[c] + 1
  PROVE  TrailInv'
<1>1. \A d \in Calls : step'[d] >= step[d]
  BY DEF TypeOK
<1>2. \A k \in Keys : row'[k] = row[k] /\ billed'[k] = billed[k]
  OBVIOUS
<1>3. pc'[c] \in {"done", "replay"} =>
        pc'[c] \notin Timed \cup {"mark", "find", "create"}
  BY DEF Timed, InTry
<1>4. \A d \in Calls :
        \/ pc'[d] = pc[d] /\ turns'[d] = turns[d]
        \/ pc'[d] \notin Timed \cup {"mark", "find", "create"}
        \/ pc[d] = "find" /\ pc'[d] = "create"
        \/ pc[d] = "mark" /\ pc'[d] = "started" /\ turns'[d] = turns[d]
        \/ pc[d] \in InTry /\ pc'[d] = "failing" /\ turns'[d] = turns[d]
        \/ pc[d] = "turn" /\ pc'[d] = "logTurn" /\ turns'[d] = turns[d] + 1
  BY <1>3
<1>5. \A k \in Keys : Ended(k)' => Ended(k) /\ billed'[k] = billed[k]
  BY <1>2 DEF Ended
<1> QED
  BY <1>1, <1>2, <1>4, <1>5, QuietTrail

\* A logging step links its entry to the last one and logs the turn it is about.
LEMMA LogTrail ==
  ASSUME TypeOK, AnchorInv, TrailInv, NEW c \in Calls, pc[c] \in Timed,
         NEW kind \in Kinds, Log(c, kind), UNCHANGED turns,
         kind = "LLM_TURN" <=> pc[c] = "logTurn",
         NEW l \in (Timed \ {"started", "logTurn", "failing"}) \cup {"done"},
         Goto(c, l),
         l \in InTry => pc[c] # "failing",
         pc[c] \in InTry \cup {"started", "failing"}
  PROVE  TrailInv'
<1> DEFINE k == KeyOf[c]
           e == [step |-> step[c], kind |-> kind, prev |-> lastHash[c]]
           n == Len(log[k])
<1>1. /\ k \in Keys /\ e \in Entries
      /\ log[k] \in Seq(Entries) /\ log'[k] = Append(log[k], e)
      /\ \A x \in Keys : x # k => log'[x] = log[x]
      /\ lastHash'[c] = step[c] /\ step'[c] = step[c] + 1
      /\ \A d \in Calls : d # c => lastHash'[d] = lastHash[d] /\ step'[d] = step[d]
      /\ UNCHANGED <<row, root, billed>>
  BY LogExtends
<1> HIDE DEF e
<1>2. pc'[c] = l /\ \A d \in Calls : d # c => pc'[d] = pc[d]
  BY DEF Goto, TypeOK
<1>3. /\ Active(c) /\ \A d \in Calls : Active(d)' => Active(d)
      /\ ~ Ended(k) /\ row[k] # "ABSENT"
      /\ \A d \in Calls : Active(d) /\ d # c => KeyOf[d] \in Keys /\ KeyOf[d] # k
  <2>1. Active(c) /\ \A d \in Calls : Active(d)' => Active(d)
    BY <1>2 DEF Active
  <2>2. KeyOf \in [Calls -> Keys]
    OBVIOUS
  <2> QED
    BY <2>1, <2>2 DEF AnchorInv, Ownership, Retired, Owns
<1>4. /\ n \in Nat /\ DOMAIN log[k] = 1 .. n /\ DOMAIN log'[k] = 1 .. n + 1
      /\ Len(log'[k]) = n + 1 /\ log'[k] # <<>> /\ log'[k][n + 1] = e
      /\ \A i \in 1 .. n : log'[k][i] = log[k][i]
  BY <1>1
<1>5. NothingYet'
  <2>1. l \notin {"find", "create"}
    BY DEF Timed, InTry
  <2> QED
    BY <1>1, <1>2, <1>3, <2>1 DEF TrailInv, NothingYet
<1>6. Linked(c) /\ Counted(c)
  BY <1>3 DEF TrailInv
<1>7. Linked(c)'
  <2>1. LastEntry(k)' = e /\ e.step = step[c] /\ step[c] \in Nat
    BY <1>4 DEF LastEntry, e, TypeOK
  <2> QED
    BY <1>1, <1>4, <2>1 DEF Linked
<1>8. Counted(c)'
  <2>1. /\ Cardinality(LoggedTurns(k)) \in Nat /\ turns[c] \in Nat
        /\ LoggedTurns(k) = TurnsIn(log[k])
    BY <1>1, LoggedIsNat DEF TypeOK
  <2>2. LoggedTurns(k)' = TurnsIn(log'[k])
    BY DEF LoggedTurns, TurnsIn
  <2>3. Cardinality(LoggedTurns(k)') =
          Cardinality(LoggedTurns(k)) + IF kind = "LLM_TURN" THEN 1 ELSE 0
    <3>1. e.kind = kind
      BY DEF e
    <3> QED
      BY <1>1, <2>1, <2>2, <3>1, AppendCounts
  <2>4. /\ Unlogged(c) = turns[c] - Cardinality(LoggedTurns(k))
        /\ Unlogged(c)' = turns[c] - Cardinality(LoggedTurns(k)')
    BY DEF Unlogged
  <2>5. CASE pc[c] = "logTurn"
    <3>1. Unlogged(c)' = 0
      BY <1>6, <2>1, <2>3, <2>4, <2>5 DEF Counted
    <3> QED
      BY <1>2, <3>1 DEF Counted
  <2>6. CASE pc[c] \in (InTry \ {"logTurn"}) \cup {"started"}
    <3>1. Unlogged(c)' = 0
      BY <1>6, <2>1, <2>3, <2>4, <2>6 DEF Counted
    <3> QED
      BY <1>2, <3>1 DEF Counted
  <2>7. CASE pc[c] = "failing"
    <3>1. Unlogged(c)' \in {0, 1}
      BY <1>6, <2>1, <2>3, <2>4, <2>7 DEF Counted
    <3>2. l \notin InTry \cup {"mark", "started", "logTurn"}
      BY <2>7 DEF Timed, InTry
    <3> QED
      BY <1>2, <3>1, <3>2 DEF Counted
  <2> QED
    BY <2>5, <2>6, <2>7
<1>9. ASSUME NEW d \in Calls, d # c, Active(d)'
      PROVE  Linked(d)' /\ Counted(d)'
  <2>1. Active(d) /\ KeyOf[d] \in Keys /\ log'[KeyOf[d]] = log[KeyOf[d]]
    BY <1>1, <1>3, <1>9
  <2>2. /\ LastEntry(KeyOf[d])' = LastEntry(KeyOf[d])
        /\ LoggedTurns(KeyOf[d])' = LoggedTurns(KeyOf[d])
    BY <2>1 DEF LastEntry, LoggedTurns
  <2>3. Linked(d) /\ Counted(d)
    BY <2>1 DEF TrailInv
  <2>4. Linked(d)'
    BY <1>1, <1>9, <2>1, <2>2, <2>3 DEF Linked
  <2>5. Counted(d)'
    BY <1>2, <1>9, <2>2, <2>3 DEF Counted, Unlogged
  <2> QED
    BY <2>4, <2>5
<1>10. ChainLinked'
  <2> SUFFICES ASSUME NEW x \in Keys, NEW i \in DOMAIN log'[x]
               PROVE  IF i = 1 THEN log'[x][i].prev = NoHash
                      ELSE /\ log'[x][i].prev = log'[x][i - 1].step
                           /\ log'[x][i].step > log'[x][i - 1].step
    BY DEF ChainLinked
  <2>1. CASE x # k
    BY <1>1, <2>1 DEF TrailInv, ChainLinked
  <2>2. CASE x = k /\ i \in 1 .. n
    <3>1. i \in Nat /\ (i # 1 => i - 1 \in 1 .. n)
      BY <1>4, <2>2
    <3>2. IF i = 1 THEN log[k][i].prev = NoHash
          ELSE /\ log[k][i].prev = log[k][i - 1].step
               /\ log[k][i].step > log[k][i - 1].step
      BY <1>1, <1>4, <2>2 DEF TrailInv, ChainLinked
    <3>3. log'[k][i] = log[k][i] /\ (i # 1 => log'[k][i - 1] = log[k][i - 1])
      BY <1>4, <2>2, <3>1
    <3> QED
      BY <2>2, <3>2, <3>3
  <2>3. CASE x = k /\ i = n + 1
    <3>1. e.prev = lastHash[c] /\ e.step = step[c]
      BY DEF e
    <3>2. CASE n = 0
      <4>1. log[k] = <<>>
        BY <1>1, <3>2
      <4> QED
        BY <1>4, <1>6, <2>3, <3>1, <3>2, <4>1 DEF Linked
    <3>3. CASE n # 0
      <4>1. log[k] # <<>> /\ n \in 1 .. n /\ log'[k][n] = LastEntry(k)
        BY <1>1, <1>4, <3>3 DEF LastEntry
      <4>2. LastEntry(k).step \in Nat /\ step[c] \in Nat
        BY <1>1, <4>1, LastIsEntry DEF TypeOK
      <4>3. i # 1 /\ i - 1 = n
        BY <1>4, <2>3, <3>3
      <4> QED
        BY <1>4, <1>6, <2>3, <3>1, <4>1, <4>2, <4>3 DEF Linked
    <3> QED
      BY <3>2, <3>3
  <2> QED
    BY <1>4, <2>1, <2>2, <2>3
<1>11. TurnsAreBilled'
  <2> SUFFICES ASSUME NEW x \in Keys, Ended(x)'
               PROVE  billed'[x] - Cardinality(LoggedTurns(x)') \in {0, 1}
    BY DEF TurnsAreBilled
  <2>1. Ended(x) /\ x # k
    BY <1>1, <1>3 DEF Ended
  <2>2. LoggedTurns(x)' = LoggedTurns(x) /\ billed'[x] = billed[x]
    BY <1>1, <2>1 DEF LoggedTurns
  <2> QED
    BY <2>1, <2>2 DEF TrailInv, TurnsAreBilled
<1> QED
  BY <1>5, <1>7, <1>8, <1>9, <1>10, <1>11 DEF TrailInv

\* The last write of a run records its turns, all of which are in the trail but
\* one that could not be logged.
LEMMA EndTrail ==
  ASSUME TypeOK, AnchorInv, TrailInv, NEW c \in Calls,
         pc[c] \in {"complete", "fail", "timeOut"},
         pc' = [pc EXCEPT ![c] = "done"],
         UNCHANGED <<log, step, lastHash, turns>>,
         NEW outcome \in Outcomes,
         row' = [row EXCEPT ![KeyOf[c]] = outcome],
         billed' = [billed EXCEPT ![KeyOf[c]] = turns[c]]
  PROVE  TrailInv'
<1> DEFINE k == KeyOf[c]
<1>1. /\ pc'[c] = "done" /\ \A d \in Calls : d # c => pc'[d] = pc[d]
      /\ k \in Keys /\ row'[k] = outcome /\ billed'[k] = turns[c]
      /\ \A x \in Keys : x # k => row'[x] = row[x] /\ billed'[x] = billed[x]
      /\ outcome # "ABSENT"
  BY DEF TypeOK, Outcomes
<1>2. /\ Active(c) /\ ~ Active(c)'
      /\ \A d \in Calls : d # c => (Active(d)' <=> Active(d))
  BY <1>1 DEF Active, Timed, InTry
<1>3. \A x \in Keys : /\ LoggedTurns(x)' = LoggedTurns(x)
                      /\ LastEntry(x)' = LastEntry(x)
  BY DEF LoggedTurns, LastEntry
<1>4. NothingYet'
  BY <1>1 DEF TrailInv, NothingYet
<1>5. ASSUME NEW d \in Calls, Active(d)' PROVE Linked(d)' /\ Counted(d)'
  <2>1. d # c /\ Linked(d) /\ Counted(d) /\ KeyOf[d] \in Keys
    BY <1>2, <1>5 DEF TrailInv
  <2> QED
    BY <1>1, <1>3, <2>1 DEF Linked, Counted, Unlogged
<1>6. TurnsAreBilled'
  <2>1. Unlogged(c) \in {0, 1}
    BY <1>2 DEF TrailInv, Counted
  <2>2. billed'[k] - Cardinality(LoggedTurns(k)') \in {0, 1}
    BY <1>1, <1>3, <2>1 DEF Unlogged
  <2>3. \A x \in Keys : x # k => Ended(x)' = Ended(x)
    BY <1>1 DEF Ended
  <2> QED
    BY <1>1, <1>3, <2>2, <2>3 DEF TrailInv, TurnsAreBilled
<1>7. ChainLinked'
  BY DEF TrailInv, ChainLinked
<1> QED
  BY <1>4, <1>5, <1>6, <1>7 DEF TrailInv

\* Whoever inserts the row starts an empty trail.
LEMMA CreateTrail ==
  ASSUME TypeOK, TrailInv, NEW c \in Calls, Create(c), row[KeyOf[c]] = "ABSENT"
  PROVE  TrailInv'
<1> DEFINE k == KeyOf[c]
<1>1. /\ k \in Keys /\ pc[c] = "create" /\ pc'[c] = "mark"
      /\ \A d \in Calls : d # c => pc'[d] = pc[d]
      /\ row'[k] = "QUEUED" /\ \A x \in Keys : x # k => row'[x] = row[x]
      /\ UNCHANGED <<billed, log, step, lastHash, turns>>
  BY DEF Create, StartFrame, loopVars, Goto, TypeOK
<1>2. log[k] = <<>> /\ lastHash[c] = NoHash /\ turns[c] = 0
  BY <1>1 DEF TrailInv, NothingYet, TypeOK
<1>3. Cardinality(LoggedTurns(k)) = 0
  <2>1. LoggedTurns(k) = {}
    BY <1>2 DEF LoggedTurns
  <2> QED
    BY <2>1, FS_EmptySet
<1>4. \A x \in Keys : /\ LoggedTurns(x)' = LoggedTurns(x)
                      /\ LastEntry(x)' = LastEntry(x)
  BY <1>1 DEF LoggedTurns, LastEntry
<1>5. NothingYet'
  BY <1>1, <1>2 DEF TrailInv, NothingYet
<1>6. ASSUME NEW d \in Calls, Active(d)' PROVE Linked(d)' /\ Counted(d)'
  <2>1. CASE d = c
    <3>1. Unlogged(c)' = 0
      BY <1>1, <1>2, <1>3, <1>4 DEF Unlogged
    <3> QED
      BY <1>1, <1>2, <2>1, <3>1 DEF Linked, Counted
  <2>2. CASE d # c
    <3>1. Linked(d) /\ Counted(d) /\ KeyOf[d] \in Keys
      BY <1>1, <1>6, <2>2 DEF TrailInv, Active
    <3> QED
      BY <1>1, <1>4, <2>2, <3>1 DEF Linked, Counted, Unlogged
  <2> QED
    BY <2>1, <2>2
<1>7. TurnsAreBilled'
  <2>1. \A x \in Keys : Ended(x)' => Ended(x)
    BY <1>1 DEF Ended, Outcomes
  <2> QED
    BY <1>1, <1>4, <2>1 DEF TrailInv, TurnsAreBilled
<1>8. ChainLinked'
  BY <1>1 DEF TrailInv, ChainLinked
<1> QED
  BY <1>5, <1>6, <1>7, <1>8 DEF TrailInv

\* The invariant holds at the start and is kept by every step.
LEMMA TrailInductive ==
  /\ Init => TrailInv
  /\ TypeOK /\ TypeOK' /\ AnchorInv /\ TrailInv /\ [Next]_vars => TrailInv'
<1>1. Init => TrailInv
  BY DEF Init, TrailInv, NothingYet, ChainLinked, TurnsAreBilled, Active, Ended,
         Outcomes, Timed, InTry
<1>2. ASSUME TypeOK, TypeOK', AnchorInv, TrailInv, [Next]_vars PROVE TrailInv'
  <2> USE <1>2
  <2>1. ASSUME NEW c \in Calls, Step(c) PROVE TrailInv'
    <3>1. CASE \/ Find(c) \/ Replay(c) \/ StartThrows(c)
               \/ (Create(c) /\ row[KeyOf[c]] # "ABSENT")
      <4>1. /\ UNCHANGED <<row, billed, log, step, lastHash, turns>>
            /\ \/ pc[c] = "find" /\ Goto(c, "create")
               \/ Goto(c, "replay") \/ Goto(c, "done")
        BY <3>1 DEF Find, Replay, StartThrows, Create, StartFrame, loopVars, Return
      <4> QED
        BY <4>1, QuietMove DEF Goto, TypeOK
    <3>2. CASE Create(c) /\ row[KeyOf[c]] = "ABSENT"
      BY <3>2, CreateTrail
    <3>3. CASE MarkRunning(c)
      <4>1. /\ pc[c] = "mark" /\ pc'[c] = "started"
            /\ \A d \in Calls : d # c => pc'[d] = pc[d]
            /\ \A k \in Keys : row'[k] = row[k] \/ row'[k] = "RUNNING"
            /\ UNCHANGED <<billed, log, step, lastHash, turns>>
        BY <3>3 DEF MarkRunning, StartFrame, loopVars, Goto, TypeOK
      <4>2. \A d \in Calls : step'[d] >= step[d]
        BY <4>1 DEF TypeOK
      <4>3. \A k \in Keys : /\ row'[k] = "ABSENT" => row[k] = "ABSENT"
                            /\ Ended(k)' => Ended(k) /\ billed'[k] = billed[k]
        BY <4>1 DEF Ended, Outcomes
      <4> QED
        BY <4>1, <4>2, <4>3, QuietTrail
    <3>4. CASE Turn(c) \/ TurnFails(c)
      BY <3>4, QuietMove DEF Turn, TurnFails, TurnFrame, rowVars, loopVars, Goto,
                             TypeOK, InTry
    <3>5. ASSUME NEW kind \in Kinds, Log(c, kind), UNCHANGED turns,
                 NEW l \in {"turn", "tools", "tool", "ended", "invalid", "valid",
                            "complete", "fail"}, Goto(c, l),
                 pc[c] \in InTry \cup {"started"},
                 kind = "LLM_TURN" <=> pc[c] = "logTurn"
          PROVE  TrailInv'
      <4>1. /\ l \in Timed \ {"started", "logTurn", "failing"}
            /\ pc[c] \in Timed /\ pc[c] # "failing"
        BY <3>5 DEF Timed, InTry
      <4> QED
        BY <3>5, <4>1, LogTrail
    <3>6. CASE LogStarted(c)
      BY <3>5, <3>6 DEF LogStarted, Kinds, loopVars
    <3>17. CASE PromptThrows(c)
      <4>1. /\ pc[c] = "started" /\ pc[c] \in Timed /\ "RUN_STARTED" \in Kinds
            /\ Log(c, "RUN_STARTED") /\ Goto(c, "done") /\ UNCHANGED turns
        BY <3>17 DEF PromptThrows, Return, loopVars, Timed, Kinds
      <4> QED
        BY <4>1, LogTrail
    <3>7. CASE LogTurn(c)
      BY <3>5, <3>7 DEF LogTurn, Kinds, loopVars, InTry
    <3>8. CASE Forbid(c) \/ LogResult(c)
      <4>1. PICK l \in {"turn", "tools", "ended"} : Goto(c, l)
        BY <3>8 DEF Forbid, LogResult, NextCall
      <4>2. /\ Log(c, "TOOL_RESULT") /\ UNCHANGED turns
            /\ pc[c] \in {"tools", "tool"}
        BY <3>8 DEF Forbid, LogResult, NextCall
      <4> QED
        BY <3>5, <4>1, <4>2 DEF Kinds, InTry
    <3>9. CASE LogCall(c)
      BY <3>5, <3>9 DEF LogCall, Kinds, loopVars, InTry
    <3>10. CASE LogLoopLimit(c) \/ LogInvalid(c)
      BY <3>5, <3>10 DEF LogLoopLimit, LogInvalid, Kinds, loopVars, InTry
    <3>11. CASE LogValidation(c)
      <4>1. PICK l \in {"invalid", "valid"} : Goto(c, l)
        BY <3>11 DEF LogValidation
      <4> QED
        BY <3>5, <3>11, <4>1 DEF LogValidation, Kinds, loopVars, InTry
    <3>12. CASE LogCompleted(c)
      BY <3>5, <3>12 DEF LogCompleted, Kinds, loopVars, InTry
    <3>13. CASE LogCaught(c)
      <4>1. PICK l \in {"fail", "timeOut"} : Goto(c, l)
        BY <3>13 DEF LogCaught
      <4>2. /\ l \in Timed \ {"started", "logTurn", "failing"} /\ l \notin InTry
            /\ pc[c] = "failing" /\ pc[c] \in Timed
            /\ Log(c, "RUN_FAILED") /\ UNCHANGED turns
            /\ "RUN_FAILED" \in Kinds
        BY <3>13 DEF LogCaught, Timed, InTry, loopVars, Kinds
      <4> QED
        BY <4>1, <4>2, LogTrail
    <3>14. CASE LogStartedThrows(c) \/ LogFails(c) \/ LogCaughtThrows(c)
      <4>1. /\ LogRejected(c) /\ UNCHANGED turns
            /\ Goto(c, "done") \/ (pc[c] \in InTry /\ Goto(c, "failing"))
        BY <3>14 DEF LogStartedThrows, LogFails, LogCaughtThrows, Return, loopVars
      <4>2. /\ \A d \in Calls : step'[d] >= step[d]
            /\ UNCHANGED <<row, billed, log, lastHash>>
        BY <4>1 DEF LogRejected, LogFrame, rowVars, TypeOK
      <4>3. /\ \A d \in Calls : d # c => pc'[d] = pc[d]
            /\ pc'[c] = "done" \/ (pc[c] \in InTry /\ pc'[c] = "failing")
        BY <4>1 DEF Goto, TypeOK
      <4>4. "done" \notin Timed \cup {"mark", "find", "create"}
        BY DEF Timed, InTry
      <4>5. \A d \in Calls :
              \/ pc'[d] = pc[d] /\ turns'[d] = turns[d]
              \/ pc'[d] \notin Timed \cup {"mark", "find", "create"}
              \/ pc[d] \in InTry /\ pc'[d] = "failing" /\ turns'[d] = turns[d]
        BY <4>1, <4>3, <4>4
      <4>6. \A k \in Keys : /\ row'[k] = row[k]
                            /\ Ended(k)' => Ended(k) /\ billed'[k] = billed[k]
        BY <4>2 DEF Ended
      <4> QED
        BY <4>2, <4>5, <4>6, QuietTrail
    <3>15. CASE CompleteFails(c) \/ FailSwallowed(c) \/ TimeOutThrows(c)
      <4>1. /\ \/ Goto(c, "done")
               \/ pc[c] \in InTry /\ Goto(c, "failing")
            /\ UNCHANGED <<rowVars, log, step, lastHash, turns>>
        BY <3>15 DEF CompleteFails, FailSwallowed, TimeOutThrows, Return, EndFrame,
                     loopVars, InTry
      <4> QED
        BY <4>1, QuietMove DEF Goto, TypeOK, rowVars
    <3>16. CASE Complete(c) \/ Fail(c) \/ TimeOut(c)
      <4>1. /\ pc[c] \in {"complete", "fail", "timeOut"}
            /\ pc' = [pc EXCEPT ![c] = "done"]
            /\ UNCHANGED <<log, step, lastHash, turns>>
            /\ billed' = [billed EXCEPT ![KeyOf[c]] = turns[c]]
        BY <3>16 DEF Complete, Fail, TimeOut, Return, Goto, EndFrame, loopVars
      <4>2. PICK outcome \in Outcomes : row' = [row EXCEPT ![KeyOf[c]] = outcome]
        BY <3>16 DEF Complete, Fail, TimeOut, Outcomes
      <4> QED
        BY <4>1, <4>2, EndTrail
    <3> QED
      BY <2>1, <3>1, <3>2, <3>3, <3>4, <3>6, <3>7, <3>8, <3>9, <3>10, <3>11,
         <3>12, <3>13, <3>14, <3>15, <3>16, <3>17 DEF Step
  <2>2. ASSUME NEW c \in Calls, Deadline(c) PROVE TrailInv'
    <3>1. UNCHANGED <<row, billed, log, step, lastHash, turns, pc>>
      BY <2>2 DEF Deadline, rowVars, loopVars
    <3> QED
      BY <3>1, QuietStay
  <2>3. CASE Crash
    <3>1. UNCHANGED <<row, billed, log, step, lastHash, turns>>
      BY <2>3 DEF Crash, rowVars, loopVars
    <3>2. \A d \in Calls : pc'[d] = "done"
      BY <2>3 DEF Crash
    <3> QED
      BY <3>1, <3>2, QuietStay
  <2>4. CASE UNCHANGED vars
    <3>1. UNCHANGED <<row, billed, log, step, lastHash, turns, pc>>
      BY <2>4 DEF vars, rowVars, loopVars
    <3> QED
      BY <3>1, QuietStay
  <2> QED
    BY <2>1, <2>2, <2>3, <2>4 DEF Next
<1> QED
  BY <1>1, <1>2

\* Each entry names the one before it and has a later index, whatever was
\* rejected in between.
THEOREM ChainsAreLinked == Spec => []ChainLinked
<1>1. TrailInv => ChainLinked
  BY DEF TrailInv
<1> QED
  BY <1>1, TypeCorrect, AnchorInductive, TrailInductive, PTL DEF Spec

\* However a run ends, its row is charged for the turns in its trail, and at most
\* for one more.
THEOREM RunsAreBilled == Spec => []TurnsAreBilled
<1>1. TrailInv => TurnsAreBilled
  BY DEF TrailInv
<1> QED
  BY <1>1, TypeCorrect, AnchorInductive, TrailInductive, PTL DEF Spec
=============================================================================

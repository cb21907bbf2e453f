------------------------------ MODULE AgentRun ------------------------------
(***************************************************************************)
(* One execution of an agent: AgentRunnerService.run with the row that     *)
(* AgentRunService keeps of it in agent_runs and the hash chain that       *)
(* AgentAuditService appends to agent_audit_logs.                          *)
(*                                                                         *)
(* Calls are calls of run; two of them may carry the same idempotency key, *)
(* and then share a row.  Every await is one step.  A rejected database    *)
(* call, and a payload canonicalJson throws on, is a fault: it has no      *)
(* effect.  The language model, the tools and the deadline timer do what   *)
(* they like.  A hash is as good as the place of its entry, (runId,        *)
(* stepIndex) being unique: entries name their predecessor by its          *)
(* stepIndex.  The text of prompts and answers is left out, but for        *)
(* whether there is a final text and whether it satisfies the contract.    *)
(***************************************************************************)
EXTENDS Integers, Sequences, FiniteSets

CONSTANTS Calls,         \* calls of run
          Keys,          \* idempotency keys of one agent
          KeyOf,         \* the key of each call
          MaxTurns,      \* def.maxTurns
          MaxToolCalls,  \* bound: tool calls in one answer of the model
          MaxFaults      \* bound: rejected database calls and crashes

ASSUME KeysAssumption == KeyOf \in [Calls -> Keys]
ASSUME BoundsAssumption ==
  /\ MaxTurns \in Nat \ {0}
  /\ MaxToolCalls \in Nat
  /\ MaxFaults \in Nat

VARIABLES row,       \* AgentRun.status of each key, or "ABSENT"
          root,      \* auditRootHash
          billed,    \* the llmTurnCount whose tokens and cost the row records
          log,       \* the audit entries of each key's run
          pc,        \* where each call is
          answer,    \* what it returned
          step,      \* handle._nextStepIndex
          lastHash,
          turns,     \* llmTurnCount
          calls,     \* tool calls of the current answer still to do
          final,     \* finalText is not empty
          aborted,   \* runAbort.signal.aborted
          faultsLeft

rowVars == <<row, root, billed>>
loopVars == <<turns, calls, final>>
vars == <<rowVars, log, pc, answer, step, lastHash, loopVars, aborted, faultsLeft>>

-----------------------------------------------------------------------------
NoHash == -1
NotBilled == -1

Outcomes == {"SUCCEEDED", "FAILED", "TIMED_OUT"}

Statuses == {"ABSENT", "QUEUED", "RUNNING"} \cup Outcomes

\* The places inside the try block where a rejection goes to the catch block.
InTry == {"turn", "logTurn", "tools", "tool", "ended", "invalid", "valid",
          "complete"}

\* From the deadline timer's start to its end.
Timed == InTry \cup {"started", "failing", "fail", "timeOut"}

Places == {"find", "create", "replay", "mark", "done"} \cup Timed

Kinds == {"RUN_STARTED", "LLM_TURN", "TOOL_CALL", "TOOL_RESULT",
          "CONTRACT_VALIDATION", "RUN_COMPLETED", "RUN_FAILED"}

Entries == [step : Nat, kind : Kinds, prev : Nat \cup {NoHash}]

Ended(k) == row[k] \in Outcomes

Goto(c, l) == pc' = [pc EXCEPT ![c] = l]

Return(c, result) ==
  /\ Goto(c, "done")
  /\ answer' = [answer EXCEPT ![c] = result]

Fault == faultsLeft > 0 /\ faultsLeft' = faultsLeft - 1

Init ==
  /\ row = [k \in Keys |-> "ABSENT"]
  /\ root = [k \in Keys |-> NoHash]
  /\ billed = [k \in Keys |-> NotBilled]
  /\ log = [k \in Keys |-> <<>>]
  /\ pc = [c \in Calls |-> "find"]
  /\ answer = [c \in Calls |-> "none"]
  /\ step = [c \in Calls |-> 0]
  /\ lastHash = [c \in Calls |-> NoHash]
  /\ turns = [c \in Calls |-> 0]
  /\ calls = [c \in Calls |-> 0]
  /\ final = [c \in Calls |-> FALSE]
  /\ aborted = [c \in Calls |-> FALSE]
  /\ faultsLeft = MaxFaults

-----------------------------------------------------------------------------
(* startRun and markRunning                                                *)

StartFrame == UNCHANGED <<root, billed, log, step, lastHash, loopVars, aborted>>

\* createOrReturnExisting's first findUnique.
Find(c) ==
  /\ pc[c] = "find"
  /\ Goto(c, IF row[KeyOf[c]] = "ABSENT" THEN "create" ELSE "replay")
  /\ UNCHANGED <<row, answer, faultsLeft>>
  /\ StartFrame

\* Mutant of Create: whoever loses the insert runs the agent as well.
CreateOrRun(c) ==
  /\ pc[c] = "create"
  /\ row' = [row EXCEPT ![KeyOf[c]] = IF @ = "ABSENT" THEN "QUEUED" ELSE @]
  /\ Goto(c, "mark")
  /\ UNCHANGED <<answer, faultsLeft>>
  /\ StartFrame

\* The insert, or P2002 and the winner's row.
Create(c) ==
  /\ pc[c] = "create"
  /\ \/ /\ row[KeyOf[c]] = "ABSENT"
        /\ row' = [row EXCEPT ![KeyOf[c]] = "QUEUED"]
        /\ Goto(c, "mark")
     \/ /\ row[KeyOf[c]] # "ABSENT"
        /\ UNCHANGED row
        /\ Goto(c, "replay")
  /\ UNCHANGED <<answer, faultsLeft>>
  /\ StartFrame

\* getRun: a replay answers with the status of the moment.
Replay(c) ==
  /\ pc[c] = "replay"
  /\ Return(c, row[KeyOf[c]])
  /\ UNCHANGED <<row, faultsLeft>>
  /\ StartFrame

MarkRunning(c) ==
  /\ pc[c] = "mark"
  /\ row' = [row EXCEPT ![KeyOf[c]] = "RUNNING"]
  /\ Goto(c, "started")
  /\ UNCHANGED <<answer, faultsLeft>>
  /\ StartFrame

\* Outside the try block a rejection goes to the caller.
StartThrows(c) ==
  /\ pc[c] \in {"find", "create", "replay", "mark"}
  /\ Fault
  /\ Return(c, "threw")
  /\ UNCHANGED row
  /\ StartFrame

-----------------------------------------------------------------------------
(* appendAudit                                                             *)

LogFrame == UNCHANGED <<rowVars, aborted>>

\* Mutant of Log: the index is taken when the entry is in, the hash before.
LogUnlinked(c, kind) ==
  /\ log' = [log EXCEPT ![KeyOf[c]] =
               Append(@, [step |-> step[c], kind |-> kind, prev |-> lastHash[c]])]
  /\ step' = [step EXCEPT ![c] = @ + 1]
  /\ UNCHANGED <<lastHash, faultsLeft>>
  /\ LogFrame

Log(c, kind) ==
  /\ log' = [log EXCEPT ![KeyOf[c]] =
               Append(@, [step |-> step[c], kind |-> kind, prev |-> lastHash[c]])]
  /\ step' = [step EXCEPT ![c] = @ + 1]
  /\ lastHash' = [lastHash EXCEPT ![c] = step[c]]
  /\ UNCHANGED faultsLeft
  /\ LogFrame

\* The index is taken before the write and not given back.
LogRejected(c) ==
  /\ Fault
  /\ step' = [step EXCEPT ![c] = @ + 1]
  /\ UNCHANGED <<log, lastHash>>
  /\ LogFrame

-----------------------------------------------------------------------------
(* The turn loop.                                                          *)

LogStarted(c) ==
  /\ pc[c] = "started"
  /\ Log(c, "RUN_STARTED")
  /\ Goto(c, "turn")
  /\ UNCHANGED <<answer, loopVars>>

\* describeForLLM and buildUserMessage run between the first entry and the try
\* block, on an input nobody has checked: what they throw goes to the caller.
PromptThrows(c) ==
  /\ pc[c] = "started"
  /\ Log(c, "RUN_STARTED")
  /\ Return(c, "threw")
  /\ UNCHANGED loopVars

\* The first entry is appended before the try block begins.
LogStartedThrows(c) ==
  /\ pc[c] = "started"
  /\ LogRejected(c)
  /\ Return(c, "threw")
  /\ UNCHANGED loopVars

TurnFrame == UNCHANGED <<rowVars, log, answer, step, lastHash, aborted, faultsLeft>>

\* The model answers, with tool calls or with what may be its final text.
Turn(c) ==
  /\ pc[c] = "turn"
  /\ ~aborted[c]
  /\ turns' = [turns EXCEPT ![c] = @ + 1]
  /\ \E n \in 0..MaxToolCalls, text \in BOOLEAN :
       /\ n > 0 => ~text
       /\ calls' = [calls EXCEPT ![c] = n]
       /\ final' = [final EXCEPT ![c] = text]
  /\ Goto(c, "logTurn")
  /\ TurnFrame

\* The provider fails, or the deadline has cut the request.
TurnFails(c) ==
  /\ pc[c] = "turn"
  /\ Goto(c, "failing")
  /\ UNCHANGED loopVars
  /\ TurnFrame

LogTurn(c) ==
  /\ pc[c] = "logTurn"
  /\ Log(c, "LLM_TURN")
  /\ Goto(c, IF calls[c] > 0 THEN "tools" ELSE "ended")
  /\ UNCHANGED <<answer, loopVars>>

\* Mutant of NextCall: one turn too many.
NextCallInclusive(c) ==
  /\ calls' = [calls EXCEPT ![c] = @ - 1]
  /\ Goto(c, IF calls[c] > 1 THEN "tools"
             ELSE IF turns[c] <= MaxTurns THEN "turn" ELSE "ended")
  /\ UNCHANGED <<answer, turns, final>>

\* One tool call is over.
NextCall(c) ==
  /\ calls' = [calls EXCEPT ![c] = @ - 1]
  /\ Goto(c, IF calls[c] > 1 THEN "tools"
             ELSE IF turns[c] < MaxTurns THEN "turn" ELSE "ended")
  /\ UNCHANGED <<answer, turns, final>>

Forbid(c) ==
  /\ pc[c] = "tools"
  /\ Log(c, "TOOL_RESULT")
  /\ NextCall(c)

LogCall(c) ==
  /\ pc[c] = "tools"
  /\ Log(c, "TOOL_CALL")
  /\ Goto(c, "tool")
  /\ UNCHANGED <<answer, loopVars>>

\* tools.invoke turns every error, its timeout and the abort into a result.
LogResult(c) ==
  /\ pc[c] = "tool"
  /\ Log(c, "TOOL_RESULT")
  /\ NextCall(c)

-----------------------------------------------------------------------------
(* After the loop.                                                         *)

OutOfTurns(c) == turns[c] >= MaxTurns /\ ~final[c]

LogLoopLimit(c) ==
  /\ pc[c] = "ended"
  /\ OutOfTurns(c)
  /\ Log(c, "RUN_FAILED")
  /\ Goto(c, "fail")
  /\ UNCHANGED <<answer, loopVars>>

\* parseAgentOutput: an empty text satisfies no contract.
LogValidation(c) ==
  /\ pc[c] = "ended"
  /\ ~OutOfTurns(c)
  /\ Log(c, "CONTRACT_VALIDATION")
  /\ Goto(c, "invalid") \/ (final[c] /\ Goto(c, "valid"))
  /\ UNCHANGED <<answer, loopVars>>

LogInvalid(c) ==
  /\ pc[c] = "invalid"
  /\ Log(c, "RUN_FAILED")
  /\ Goto(c, "fail")
  /\ UNCHANGED <<answer, loopVars>>

LogCompleted(c) ==
  /\ pc[c] = "valid"
  /\ Log(c, "RUN_COMPLETED")
  /\ Goto(c, "complete")
  /\ UNCHANGED <<answer, loopVars>>

\* appendAudit rejects inside the try block.
LogFails(c) ==
  /\ pc[c] \in InTry \ {"turn", "complete"}
  /\ LogRejected(c)
  /\ Goto(c, "failing")
  /\ UNCHANGED <<answer, loopVars>>

\* Mutant of LogCaught: a rejected entry does not stop the row's last write.
LogCaughtAnyhow(c) ==
  /\ pc[c] = "failing"
  /\ Log(c, "RUN_FAILED") \/ LogRejected(c)
  /\ Goto(c, IF aborted[c] THEN "timeOut" ELSE "fail")
  /\ UNCHANGED <<answer, loopVars>>

\* The catch block asks whether the deadline has fired, then logs.
LogCaught(c) ==
  /\ pc[c] = "failing"
  /\ Log(c, "RUN_FAILED")
  /\ Goto(c, IF aborted[c] THEN "timeOut" ELSE "fail")
  /\ UNCHANGED <<answer, loopVars>>

LogCaughtThrows(c) ==
  /\ pc[c] = "failing"
  /\ LogRejected(c)
  /\ Return(c, "threw")
  /\ UNCHANGED loopVars

-----------------------------------------------------------------------------
(* complete, fail, timedOut                                                *)

EndFrame == UNCHANGED <<log, step, lastHash, loopVars, aborted>>

Complete(c) ==
  /\ pc[c] = "complete"
  /\ row' = [row EXCEPT ![KeyOf[c]] = "SUCCEEDED"]
  /\ root' = [root EXCEPT ![KeyOf[c]] = lastHash[c]]
  /\ billed' = [billed EXCEPT ![KeyOf[c]] = turns[c]]
  /\ Return(c, "SUCCEEDED")
  /\ UNCHANGED faultsLeft
  /\ EndFrame

CompleteFails(c) ==
  /\ pc[c] = "complete"
  /\ Fault
  /\ Goto(c, "failing")
  /\ UNCHANGED <<rowVars, answer>>
  /\ EndFrame

\* Mutant of Fail: a failed run costs nothing.
FailForFree(c) ==
  /\ pc[c] = "fail"
  /\ row' = [row EXCEPT ![KeyOf[c]] = "FAILED"]
  /\ root' = [root EXCEPT ![KeyOf[c]] = lastHash[c]]
  /\ Return(c, "FAILED")
  /\ UNCHANGED <<billed, faultsLeft>>
  /\ EndFrame

Fail(c) ==
  /\ pc[c] = "fail"
  /\ row' = [row EXCEPT ![KeyOf[c]] = "FAILED"]
  /\ root' = [root EXCEPT ![KeyOf[c]] = lastHash[c]]
  /\ billed' = [billed EXCEPT ![KeyOf[c]] = turns[c]]
  /\ Return(c, "FAILED")
  /\ UNCHANGED faultsLeft
  /\ EndFrame

\* fail logs a rejected update and returns.
FailSwallowed(c) ==
  /\ pc[c] = "fail"
  /\ Fault
  /\ Return(c, "FAILED")
  /\ UNCHANGED rowVars
  /\ EndFrame

\* Mutant of TimeOut: the caller is told, the row is not.
TimeOutUnwritten(c) ==
  /\ pc[c] = "timeOut"
  /\ Return(c, "TIMED_OUT")
  /\ UNCHANGED <<rowVars, faultsLeft>>
  /\ EndFrame

\* timedOut leaves auditRootHash alone.
TimeOut(c) ==
  /\ pc[c] = "timeOut"
  /\ row' = [row EXCEPT ![KeyOf[c]] = "TIMED_OUT"]
  /\ billed' = [billed EXCEPT ![KeyOf[c]] = turns[c]]
  /\ Return(c, "TIMED_OUT")
  /\ UNCHANGED <<root, faultsLeft>>
  /\ EndFrame

TimeOutThrows(c) ==
  /\ pc[c] = "timeOut"
  /\ Fault
  /\ Return(c, "threw")
  /\ UNCHANGED rowVars
  /\ EndFrame

-----------------------------------------------------------------------------
Step(c) ==
  \/ Find(c) \/ Create(c) \/ Replay(c) \/ MarkRunning(c) \/ StartThrows(c)
  \/ LogStarted(c) \/ PromptThrows(c) \/ LogStartedThrows(c)
  \/ Turn(c) \/ TurnFails(c) \/ LogTurn(c)
  \/ Forbid(c) \/ LogCall(c) \/ LogResult(c)
  \/ LogLoopLimit(c) \/ LogValidation(c) \/ LogInvalid(c) \/ LogCompleted(c)
  \/ LogFails(c) \/ LogCaught(c) \/ LogCaughtThrows(c)
  \/ Complete(c) \/ CompleteFails(c)
  \/ Fail(c) \/ FailSwallowed(c)
  \/ TimeOut(c) \/ TimeOutThrows(c)

\* AGENT_RUN_TIMEOUT_MS have passed.
Deadline(c) ==
  /\ pc[c] \in Timed
  /\ ~aborted[c]
  /\ aborted' = [aborted EXCEPT ![c] = TRUE]
  /\ UNCHANGED <<rowVars, log, pc, answer, step, lastHash, loopVars, faultsLeft>>

\* The process restarts; the tables survive and nobody takes the calls up.
Crash ==
  /\ Fault
  /\ \E c \in Calls : pc[c] # "done"
  /\ pc' = [c \in Calls |-> "done"]
  /\ answer' = [c \in Calls |-> IF pc[c] = "done" THEN answer[c] ELSE "lost"]
  /\ UNCHANGED <<rowVars, log, step, lastHash, loopVars, aborted>>

Next == Crash \/ \E c \in Calls : Step(c) \/ Deadline(c)

Spec == Init /\ [][Next]_vars

\* A call goes on when what it awaits settles: the provider's request and every
\* tool call have a timeout.
FairSpec == Spec /\ \A c \in Calls : WF_vars(Step(c))

-----------------------------------------------------------------------------
(* Properties.                                                             *)

\* Types; a call in the tool loop has a tool call to do, one that asks the model
\* has a turn left.
TypeOK ==
  /\ row \in [Keys -> Statuses]
  /\ root \in [Keys -> Nat \cup {NoHash}]
  /\ billed \in [Keys -> Nat \cup {NotBilled}]
  /\ log \in [Keys -> Seq(Entries)]
  /\ pc \in [Calls -> Places]
  /\ answer \in [Calls -> Statuses \cup {"none", "threw", "lost"}]
  /\ step \in [Calls -> Nat]
  /\ lastHash \in [Calls -> Nat \cup {NoHash}]
  /\ turns \in [Calls -> 0..MaxTurns]
  /\ calls \in [Calls -> 0..MaxToolCalls]
  /\ \A c \in Calls :
       /\ pc[c] \in {"find", "create", "mark", "started"} => turns[c] = 0
       /\ pc[c] = "turn" => turns[c] < MaxTurns
       /\ pc[c] \in {"tools", "tool"} => calls[c] > 0
  /\ final \in [Calls -> BOOLEAN]
  /\ aborted \in [Calls -> BOOLEAN]
  /\ faultsLeft \in 0..MaxFaults

\* A key is executed once, however many calls race for it: the unique
\* constraint lets one of them insert the row and the others replay it.
ExecutedOnce ==
  \A c, d \in Calls :
    KeyOf[c] = KeyOf[d] /\ step[c] > 0 /\ step[d] > 0 => c = d

LastEntry(k) == log[k][Len(log[k])]

\* A finished run and its audit trail say the same: the trail ends with the
\* entry of that outcome, and where the row has an anchor it is the hash of
\* that entry (a run that timed out has none).
OutcomeAnchored ==
  \A k \in Keys :
    Ended(k) =>
      /\ log[k] # <<>>
      /\ LastEntry(k).kind =
           IF row[k] = "SUCCEEDED" THEN "RUN_COMPLETED" ELSE "RUN_FAILED"
      /\ root[k] = IF row[k] = "TIMED_OUT" THEN NoHash ELSE LastEntry(k).step

\* Each entry names the one before it and has a later index, whatever failed
\* in between.
ChainLinked ==
  \A k \in Keys : \A i \in DOMAIN log[k] :
    IF i = 1 THEN log[k][i].prev = NoHash
    ELSE /\ log[k][i].prev = log[k][i - 1].step
         /\ log[k][i].step > log[k][i - 1].step

\* A finished run is never reopened, nor is its trail continued.
FinishedIsFinal ==
  [][\A k \in Keys :
       Ended(k) => UNCHANGED <<row[k], root[k], billed[k], log[k]>>]_vars

LoggedTurns(k) == {i \in DOMAIN log[k] : log[k][i].kind = "LLM_TURN"}

\* Every way a run can end charges it for the turns in its trail, and at most
\* for one that could not be logged: the circuit breaker adds these costs up.
TurnsAreBilled ==
  \A k \in Keys :
    Ended(k) => billed[k] - Cardinality(LoggedTurns(k)) \in {0, 1}

\* A call of k has thrown with nothing but RUN_STARTED in the trail.
Unprompted(k) ==
  /\ Len(log[k]) = 1
  /\ \E c \in Calls : KeyOf[c] = k /\ answer[c] = "threw"

\* A run that was started finishes, whatever the model and the tools do, unless
\* a database call is rejected, the process dies, or the input makes no prompt: a
\* definition's buildUserMessage throws where no catch block ends the run, and its
\* row says RUNNING for ever.
StartedFinishes ==
  \A k \in Keys :
    row[k] = "RUNNING" ~> (Ended(k) \/ Unprompted(k) \/ faultsLeft < MaxFaults)

\* verifyChain answers ok: the indexes count from zero and each entry links to
\* the one before it.
Verifies(k) ==
  \A i \in DOMAIN log[k] :
    /\ log[k][i].step = i - 1
    /\ log[k][i].prev = IF i = 1 THEN NoHash ELSE log[k][i - 1].step

\* The trail the service keeps is one its own verification accepts.
ChainVerifies == \A k \in Keys : Verifies(k)

\* An entry of k's trail could not be written.
AuditFailed(k) ==
  \E c \in Calls : KeyOf[c] = k /\ step[c] > Len(log[k])

\* What CONTRACTS.md demands: a run whose audit write fails, fails.
AuditFailureEndsRun ==
  \A k \in Keys : AuditFailed(k) ~> Ended(k)
=============================================================================

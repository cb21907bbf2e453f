------------------------ MODULE ReportPipelineProofs ------------------------
(***************************************************************************)
(* Proofs about ReportPipeline, for any number of jobs, workers, sweeps    *)
(* and requests and any MAX_STALLED_RETRIES.                               *)
(***************************************************************************)
EXTENDS ReportPipeline, TLAPS, FiniteSetTheorems

USE JobsAssumption, WorkersAssumption, SweepsAssumption, BoundsAssumption
USE DEF statusVars

-----------------------------------------------------------------------------
(* Types.                                                                  *)

\* Saturating counters stay in range.
LEMMA BumpType == ASSUME NEW n \in 0..MaxCount PROVE Bump(n) \in 0..MaxCount
BY DEF Bump

\* A job number is neither NoJob nor a place holder.
LEMMA JobIsSome == ASSUME NEW j \in Jobs PROVE j \in Nat /\ j # NoJob
BY DEF NoJob

\* Every variable keeps its type, and the invocations that are not idle refer
\* to rows of report_jobs.
THEOREM TypeCorrect == Spec => []TypeOK
<1>1. Init => TypeOK
  BY DEF Init, TypeOK, Statuses, WorkerPC, NoJob, NotSeen
<1>2. TypeOK /\ [Next]_vars => TypeOK'
  <2> SUFFICES ASSUME TypeOK, [Next]_vars PROVE TypeOK'
    OBVIOUS
  <2> USE JobIsSome, BumpType
  <2>1. ASSUME NEW j \in Jobs, CreateForCustomer(j) \/ CreateForDemo(j)
        PROVE  TypeOK'
    BY <2>1 DEF TypeOK, CreateForCustomer, CreateForDemo, Create, SetStatus,
                Statuses, workerVars, requestVars
  <2>2. ASSUME NEW r \in Requests, NEW j \in Jobs, SubmitCheck(r, j)
        PROVE  TypeOK'
    BY <2>2 DEF TypeOK, SubmitCheck, SubmitFrame, workerVars
  <2>3. ASSUME NEW r \in Requests, SubmitStep(r) PROVE TypeOK'
    <3>1. rpc[r] # "idle" => rjob[r] \in Jobs
      BY <2>3 DEF TypeOK
    <3>2. CASE SubmitNeedsInput(r)
      BY <3>1, <3>2 DEF TypeOK, SubmitNeedsInput, SubmitEnd, SubmitFrame,
                        SetStatus, Statuses, workerVars
    <3>3. CASE SubmitInvalid(r)
      BY <3>1, <3>3 DEF TypeOK, SubmitInvalid, SubmitEnd, SubmitFrame,
                        SetStatus, Statuses, workerVars
    <3>4. CASE SubmitValid(r)
      BY <3>1, <3>4 DEF TypeOK, SubmitValid, SubmitFrame, SetStatus, Statuses,
                        workerVars
    <3>5. CASE SubmitQueue(r)
      BY <3>1, <3>5 DEF TypeOK, SubmitQueue, SubmitEnd, SubmitFrame, SetStatus,
                        Statuses, workerVars
    <3>6. CASE SubmitThrows(r)
      BY <3>1, <3>6 DEF TypeOK, SubmitThrows, SubmitEnd, SubmitFrame, workerVars
    <3> QED
      BY <2>3, <3>2, <3>3, <3>4, <3>5, <3>6 DEF SubmitStep
  <2>4. ASSUME NEW w \in Workers, WorkerStep(w) PROVE TypeOK'
    <3> USE DEF WorkerFrame, requestVars, Goto
    <3>1. wpc[w] # "idle" => wjob[w] \in Jobs
      BY <2>4 DEF TypeOK
    <3>2. CASE Pick(w)
      BY <3>2 DEF TypeOK, Pick, Queued, jobVars, WorkerPC
    <3>3. CASE Begin(w)
      BY <3>1, <3>3 DEF TypeOK, Begin, SetStatus, Statuses, WorkerPC
    <3>4. CASE Load(w)
      BY <3>1, <3>4 DEF TypeOK, Load, SetStatus, Statuses, WorkerPC
    <3>5. CASE Render(w)
      BY <3>1, <3>5 DEF TypeOK, Render, SetStatus, Statuses, WorkerPC
    <3>6. CASE Upload(w)
      BY <3>1, <3>6 DEF TypeOK, Upload, WorkerPC
    <3>7. CASE Complete(w)
      BY <3>1, <3>7 DEF TypeOK, Complete, SetStatus, Statuses, WorkerPC
    <3>8. CASE CountReport(w)
      BY <3>1, <3>8, BumpType DEF TypeOK, CountReport, WorkerPC
    <3>9. CASE Notify(w)
      BY <3>1, <3>9, BumpType DEF TypeOK, Notify, WorkerEnd, WorkerPC
    <3>10. CASE Throw(w)
      BY <3>1, <3>10 DEF TypeOK, Throw, MayThrow, jobVars, WorkerPC
    <3>11. CASE Fail(w)
      BY <3>1, <3>11 DEF TypeOK, Fail, SetStatus, WorkerEnd, Statuses, WorkerPC
    <3>12. CASE FailLost(w)
      BY <3>1, <3>12 DEF TypeOK, FailLost, WorkerEnd, jobVars, WorkerPC
    <3> QED
      BY <2>4, <3>2, <3>3, <3>4, <3>5, <3>6, <3>7, <3>8, <3>9, <3>10, <3>11,
         <3>12 DEF WorkerStep
  <2>5. ASSUME NEW s \in Sweeps, SweepStep(s) PROVE TypeOK'
    <3> USE DEF SweepFrame, workerVars, requestVars
    <3>1. CASE Scan(s)
      BY <3>1 DEF TypeOK, Scan
    <3>2. ASSUME NEW j \in Jobs, Requeue(s, j) PROVE TypeOK'
      BY <3>2 DEF TypeOK, Requeue, SetStatus, Forget, Statuses
    <3>3. ASSUME NEW j \in Jobs, GiveUp(s, j) PROVE TypeOK'
      BY <3>3 DEF TypeOK, GiveUp, SetStatus, Forget, Statuses
    <3>4. CASE SweepAborts(s)
      BY <3>4 DEF TypeOK, SweepAborts
    <3> QED
      BY <2>5, <3>1, <3>2, <3>3, <3>4 DEF SweepStep
  <2>6. ASSUME NEW j \in Jobs, AdminStep(j) PROVE TypeOK'
    BY <2>6 DEF TypeOK, AdminStep, ForceAdvance, ForceFail, ForceRegenerate,
                AdminFrame, SetStatus, Statuses, workerVars, requestVars
  <2>7. ASSUME NEW j \in Jobs, Age(j) PROVE TypeOK'
    BY <2>7 DEF TypeOK, Age, workerVars, requestVars
  <2>8. CASE Crash
    BY <2>8 DEF TypeOK, Crash, jobVars, WorkerPC
  <2>9. CASE UNCHANGED vars
    BY <2>9 DEF TypeOK, vars, jobVars, workerVars, requestVars
  <2> QED
    BY <2>1, <2>2, <2>3, <2>4, <2>5, <2>6, <2>7, <2>8, <2>9 DEF Next
<1> QED
  BY <1>1, <1>2, PTL DEF Spec

-----------------------------------------------------------------------------
(* Retries.  A reset that a sweep has still to do is a retry already        *)
(* granted: the sum of the two is what stays below the bound.               *)

RetryBudget ==
  \A j \in Jobs :
    \/ retry[j] = 0 /\ Resetting(j) = {}
    \/ retry[j] + Cardinality(Resetting(j)) < MaxRetries + Cardinality(Sweeps)

\* The sweeps that hold a reset of j are some of the sweeps.
LEMMA ResettingSize ==
  ASSUME NEW j \in Jobs
  PROVE  /\ IsFiniteSet(Resetting(j))
         /\ Cardinality(Resetting(j)) \in Nat
         /\ Cardinality(Sweeps) \in Nat
         /\ Cardinality(Resetting(j)) <= Cardinality(Sweeps)
<1>1. Resetting(j) \subseteq Sweeps
  BY DEF Resetting
<1> QED
  BY <1>1, FS_Subset, FS_CardinalityType

\* The same, of the next state.
LEMMA ResettingSizeNext ==
  ASSUME NEW j \in Jobs
  PROVE  /\ IsFiniteSet(Resetting(j)')
         /\ Cardinality(Resetting(j)') \in Nat
         /\ Cardinality(Resetting(j)') <= Cardinality(Sweeps)
<1>1. Resetting(j)' \subseteq Sweeps
  BY DEF Resetting
<1> QED
  BY <1>1, FS_Subset, FS_CardinalityType

\* Dropping resets, with retryCount as it is or zero, keeps the budget.
LEMMA BudgetShrinks ==
  ASSUME TypeOK, RetryBudget, NEW j \in Jobs,
         Resetting(j)' \subseteq Resetting(j), retry'[j] \in {0, retry[j]}
  PROVE  \/ retry'[j] = 0 /\ Resetting(j)' = {}
         \/ retry'[j] + Cardinality(Resetting(j)')
              < MaxRetries + Cardinality(Sweeps)
<1>1. retry[j] \in Nat
  BY DEF TypeOK
<1>2. Cardinality(Resetting(j)') <= Cardinality(Resetting(j))
  BY ResettingSize, FS_Subset
<1>3. CASE retry[j] = 0 /\ Resetting(j) = {}
  BY <1>3
<1>4. CASE retry[j] + Cardinality(Resetting(j))
             < MaxRetries + Cardinality(Sweeps)
  BY <1>1, <1>2, <1>4, ResettingSize, ResettingSizeNext
<1> QED
  BY <1>3, <1>4 DEF RetryBudget

\* The budget holds of the initial state and is kept by every step.
LEMMA BudgetInductive ==
  /\ Init => RetryBudget
  /\ TypeOK /\ RetryBudget /\ [Next]_vars => RetryBudget'
<1>1. Init => RetryBudget
  BY DEF Init, RetryBudget, Resetting
<1>2. ASSUME TypeOK, RetryBudget, [Next]_vars PROVE RetryBudget'
  <2>1. ASSUME NEW s \in Sweeps, Scan(s) PROVE RetryBudget'
    <3> SUFFICES ASSUME NEW j \in Jobs
                 PROVE  \/ retry'[j] = 0 /\ Resetting(j)' = {}
                        \/ retry'[j] + Cardinality(Resetting(j)')
                             < MaxRetries + Cardinality(Sweeps)
      BY DEF RetryBudget
    <3>1. retry' = retry /\ retry[j] \in Nat
      BY <1>2, <2>1 DEF Scan, TypeOK
    <3>2. CASE RetriesLeft(retry[j])
      BY <3>1, <3>2, ResettingSize, ResettingSizeNext DEF RetriesLeft
    <3>3. CASE ~RetriesLeft(retry[j])
      <4>1. Resetting(j)' \subseteq Resetting(j)
        BY <1>2, <2>1, <3>3 DEF Scan, Resetting, TypeOK
      <4> QED
        BY <1>2, <3>1, <4>1, BudgetShrinks
    <3> QED
      BY <3>2, <3>3
  <2>2. ASSUME NEW s \in Sweeps, NEW k \in Jobs, Requeue(s, k)
        PROVE  RetryBudget'
    <3> SUFFICES ASSUME NEW j \in Jobs
                 PROVE  \/ retry'[j] = 0 /\ Resetting(j)' = {}
                        \/ retry'[j] + Cardinality(Resetting(j)')
                             < MaxRetries + Cardinality(Sweeps)
      BY DEF RetryBudget
    <3>1. CASE j # k
      <4>1. retry'[j] = retry[j] /\ Resetting(j)' = Resetting(j)
        BY <1>2, <2>2, <3>1 DEF Requeue, Forget, Resetting, TypeOK
      <4> QED
        BY <1>2, <4>1, BudgetShrinks
    <3>2. CASE j = k
      <4>1. retry[j] \in Nat /\ retry'[j] = retry[j] + 1
        BY <1>2, <2>2, <3>2 DEF Requeue, TypeOK
      <4>2. s \in Resetting(j)
        BY <2>2, <3>2 DEF Requeue, Resetting
      <4>3. Resetting(j)' = Resetting(j) \ {s}
        BY <1>2, <2>2, <3>2 DEF Requeue, Forget, Resetting, TypeOK
      <4>4. Cardinality(Resetting(j)') = Cardinality(Resetting(j)) - 1
        <5>1. IsFiniteSet(Resetting(j))
          BY ResettingSize
        <5>2. Cardinality(Resetting(j) \ {s}) = Cardinality(Resetting(j)) - 1
          BY <4>2, <5>1, FS_RemoveElement
        <5> QED
          BY <4>3, <5>2
      <4>5. retry[j] + Cardinality(Resetting(j))
              < MaxRetries + Cardinality(Sweeps)
        BY <1>2, <4>2 DEF RetryBudget
      <4> QED
        BY <4>1, <4>4, <4>5, ResettingSize
    <3> QED
      BY <3>1, <3>2
  <2>3. CASE \/ \E s \in Sweeps :
                 SweepAborts(s) \/ \E j \in Jobs : GiveUp(s, j)
             \/ \E j \in Jobs : AdminStep(j)
             \/ Crash
    <3> SUFFICES ASSUME NEW j \in Jobs
                 PROVE  /\ Resetting(j)' \subseteq Resetting(j)
                        /\ retry'[j] \in {0, retry[j]}
      BY <1>2, BudgetShrinks DEF RetryBudget
    <3>1. CASE \E s \in Sweeps :
                 SweepAborts(s) \/ \E k \in Jobs : GiveUp(s, k)
      <4>1. CASE \E s \in Sweeps : SweepAborts(s)
        BY <1>2, <4>1 DEF SweepAborts, Resetting, TypeOK
      <4>2. CASE \E s \in Sweeps, k \in Jobs : GiveUp(s, k)
        BY <1>2, <4>2 DEF GiveUp, Forget, Resetting, TypeOK
      <4> QED
        BY <3>1, <4>1, <4>2
    <3>2. CASE \E k \in Jobs : AdminStep(k)
      BY <1>2, <3>2 DEF AdminStep, ForceAdvance, ForceFail, ForceRegenerate,
                        AdminFrame, Resetting, TypeOK
    <3>3. CASE Crash
      BY <3>3 DEF Crash, jobVars, Resetting
    <3> QED
      BY <2>3, <3>1, <3>2, <3>3
  <2>4. CASE UNCHANGED <<retry, seen>>
    BY <1>2, <2>4 DEF RetryBudget, Resetting
  <2>5. CASE \E j \in Jobs :
               CreateForCustomer(j) \/ CreateForDemo(j) \/ Age(j)
    BY <2>4, <2>5 DEF CreateForCustomer, CreateForDemo, Create, Age
  <2>6. CASE \E r \in Requests :
               SubmitStep(r) \/ \E j \in Jobs : SubmitCheck(r, j)
    BY <2>4, <2>6 DEF SubmitStep, SubmitCheck, SubmitNeedsInput, SubmitInvalid,
                      SubmitValid, SubmitQueue, SubmitThrows, SubmitFrame
  <2>7. CASE \E w \in Workers : WorkerStep(w)
    BY <2>4, <2>7 DEF WorkerStep, WorkerFrame, Pick, Begin, Load, Render,
                      Upload, Complete, CountReport, Notify, Throw, Fail,
                      FailLost
  <2>8. CASE UNCHANGED vars
    BY <2>4, <2>8 DEF vars, jobVars
  <2> QED
    BY <1>2, <2>1, <2>2, <2>3, <2>5, <2>6, <2>7, <2>8 DEF Next, SweepStep
<1> QED
  BY <1>1, <1>2

\* However many sweeps overlap, retryCount stays below MAX_STALLED_RETRIES plus
\* their number.
THEOREM RetriesAreBounded == Spec => []RetryBounded
<1>1. TypeOK /\ RetryBudget => RetryBounded
  <2> SUFFICES ASSUME TypeOK, RetryBudget, NEW j \in Jobs
               PROVE  retry[j] = 0 \/ retry[j] < MaxRetries + Cardinality(Sweeps)
    BY DEF RetryBounded
  <2>1. retry[j] \in Nat
    BY DEF TypeOK
  <2> QED
    BY <2>1, ResettingSize DEF RetryBudget
<1> QED
  BY <1>1, TypeCorrect, BudgetInductive, PTL DEF Spec

-----------------------------------------------------------------------------
(* Delivery.                                                               *)

\* What a worker knows past the uploads, and past the COMPLETE update.
DeliveryInv ==
  /\ DeliveredIsStored
  /\ \A w \in Workers :
       /\ wpc[w] \in {"complete", "bill", "notify"} => stored[wjob[w]]
       /\ wpc[w] \in {"bill", "notify"} => url[wjob[w]]

\* stored and url never go back to FALSE, so only the steps that complete,
\* count and notify have to be looked at closely.
LEMMA DeliveryInductive ==
  /\ Init => DeliveryInv
  /\ TypeOK /\ DeliveryInv /\ [Next]_vars => DeliveryInv'
<1>1. Init => DeliveryInv
  BY DEF Init, DeliveryInv, DeliveredIsStored
<1>2. ASSUME TypeOK, DeliveryInv, [Next]_vars PROVE DeliveryInv'
  <2> USE <1>2 DEF DeliveryInv, DeliveredIsStored
  <2>1. ASSUME NEW j \in Jobs, CreateForCustomer(j) \/ CreateForDemo(j)
        PROVE  DeliveryInv'
    BY <2>1 DEF CreateForCustomer, CreateForDemo, Create, SetStatus, workerVars,
                TypeOK
  <2>2. ASSUME NEW r \in Requests, NEW j \in Jobs, SubmitCheck(r, j)
        PROVE  DeliveryInv'
    BY <2>2 DEF SubmitCheck, SubmitFrame, workerVars
  <2>3. ASSUME NEW r \in Requests, SubmitStep(r) PROVE DeliveryInv'
    BY <2>3 DEF SubmitStep, SubmitNeedsInput, SubmitInvalid, SubmitValid,
                SubmitQueue, SubmitThrows, SubmitFrame, SetStatus, workerVars,
                TypeOK
  <2>4. ASSUME NEW w \in Workers, WorkerStep(w) PROVE DeliveryInv'
    <3> USE DEF Goto, TypeOK
    <3>1. wpc[w] # "idle" => wjob[w] \in Jobs
      BY <2>4
    <3>2. CASE Pick(w)
      BY <3>2 DEF Pick, jobVars
    <3>3. CASE Begin(w) \/ Load(w) \/ Render(w)
      BY <3>3 DEF Begin, Load, Render, SetStatus
    <3>4. CASE Upload(w)
      BY <3>1, <3>4 DEF Upload
    <3>5. CASE Complete(w)
      BY <3>1, <3>5 DEF Complete, SetStatus
    <3>6. CASE CountReport(w)
      BY <3>1, <3>6 DEF CountReport
    <3>7. CASE Notify(w)
      BY <3>1, <3>7 DEF Notify, WorkerEnd
    <3>8. CASE Throw(w)
      BY <3>8 DEF Throw, jobVars
    <3>9. CASE Fail(w)
      BY <3>1, <3>9 DEF Fail, SetStatus, WorkerEnd
    <3>10. CASE FailLost(w)
      BY <3>10 DEF FailLost, WorkerEnd, jobVars
    <3> QED
      BY <2>4, <3>2, <3>3, <3>4, <3>5, <3>6, <3>7, <3>8, <3>9, <3>10
         DEF WorkerStep
  <2>5. ASSUME NEW s \in Sweeps, SweepStep(s) PROVE DeliveryInv'
    BY <2>5 DEF SweepStep, Scan, Requeue, GiveUp, SweepAborts, SweepFrame,
                SetStatus, workerVars, TypeOK
  <2>6. ASSUME NEW j \in Jobs, AdminStep(j) PROVE DeliveryInv'
    BY <2>6 DEF AdminStep, ForceAdvance, ForceFail, ForceRegenerate, AdminFrame,
                SetStatus, workerVars, TypeOK
  <2>7. ASSUME NEW j \in Jobs, Age(j) PROVE DeliveryInv'
    BY <2>7 DEF Age, workerVars
  <2>8. CASE Crash
    BY <2>8 DEF Crash, jobVars
  <2>9. CASE UNCHANGED vars
    BY <2>9 DEF vars, jobVars, workerVars
  <2> QED
    BY <2>1, <2>2, <2>3, <2>4, <2>5, <2>6, <2>7, <2>8, <2>9 DEF Next
<1> QED
  BY <1>1, <1>2

\* No customer is shown, told of, charged for or emailed a report that is not in
\* storage.
THEOREM DeliveryIsStored == Spec => []DeliveredIsStored
<1>1. DeliveryInv => DeliveredIsStored
  BY DEF DeliveryInv
<1> QED
  BY <1>1, TypeCorrect, DeliveryInductive, PTL DEF Spec

-----------------------------------------------------------------------------
(* Finished jobs.                                                          *)

\* A finished job that nobody refers to keeps its status, and nobody starts to
\* refer to it, unless an admin acts.
THEOREM SettledStays == Spec => SettledIsFinal
<1>1. ASSUME TypeOK, [Next]_vars, NEW j \in Jobs,
             Terminal(j), Quiet(j), adminLeft' = adminLeft
      PROVE  status'[j] = status[j] /\ Quiet(j)'
  <2> USE <1>1 DEF TypeOK, Terminal, Quiet, SetStatus
  <2>1. CASE \E k \in Jobs : CreateForCustomer(k) \/ CreateForDemo(k)
    BY <2>1 DEF CreateForCustomer, CreateForDemo, Create, workerVars,
                requestVars
  <2>2. CASE \E r \in Requests, k \in Jobs : SubmitCheck(r, k)
    BY <2>2 DEF SubmitCheck, SubmitFrame, Actionable, workerVars
  <2>3. CASE \E r \in Requests : SubmitStep(r)
    BY <2>3, JobIsSome DEF SubmitStep, SubmitNeedsInput, SubmitInvalid,
                SubmitValid, SubmitQueue, SubmitThrows, SubmitEnd, SubmitFrame,
                workerVars
  <2>4. ASSUME NEW w \in Workers, WorkerStep(w)
        PROVE  status'[j] = status[j] /\ Quiet(j)'
    <3> USE DEF WorkerFrame, Goto, WorkerEnd, requestVars
    <3>1. CASE Pick(w)
      BY <3>1 DEF Pick, Queued, jobVars
    <3>2. CASE ~Pick(w)
      BY <2>4, <3>2, JobIsSome DEF WorkerStep, Begin, Load, Render, Upload,
                Complete, CountReport, Notify, Throw, Fail, FailLost, jobVars
    <3> QED
      BY <3>1, <3>2
  <2>5. ASSUME NEW s \in Sweeps, SweepStep(s)
        PROVE  status'[j] = status[j] /\ Quiet(j)'
    <3> USE DEF SweepFrame, workerVars, requestVars
    <3>1. CASE Scan(s)
      BY <3>1 DEF Scan, Stalled
    <3>2. CASE \E k \in Jobs : Requeue(s, k) \/ GiveUp(s, k)
      BY <3>2 DEF Requeue, GiveUp, Forget
    <3>3. CASE SweepAborts(s)
      BY <3>3 DEF SweepAborts
    <3> QED
      BY <2>5, <3>1, <3>2, <3>3 DEF SweepStep
  <2>6. CASE \E k \in Jobs : AdminStep(k)
    BY <2>6 DEF AdminStep, ForceAdvance, ForceFail, ForceRegenerate, AdminFrame
  <2>7. CASE \E k \in Jobs : Age(k)
    BY <2>7 DEF Age, workerVars, requestVars
  <2>8. CASE Crash
    BY <2>8, JobIsSome DEF Crash, jobVars
  <2>9. CASE UNCHANGED vars
    BY <2>9 DEF vars, jobVars, workerVars, requestVars
  <2> QED
    BY <2>1, <2>2, <2>3, <2>4, <2>5, <2>6, <2>7, <2>8, <2>9 DEF Next
<1>2. TypeOK /\ [Next]_vars
        => [\A j \in Jobs :
              Terminal(j) /\ Quiet(j) /\ adminLeft' = adminLeft
                => status'[j] = status[j] /\ Quiet(j)']_vars
  BY <1>1
<1> QED
  BY <1>2, TypeCorrect, PTL DEF Spec, SettledIsFinal

-----------------------------------------------------------------------------
(* Charges.  An invocation that has read a queued row, or has marked it and *)
(* not charged for it yet, is a charge that may still come: together with   *)
(* those made they never outnumber the passes.                              *)

Active(j) ==
  {w \in Workers : /\ wjob[w] = j
                   /\ wpc[w] \in {"load", "calc", "upload", "complete", "bill"}}

Owed(j) == used[j] + Cardinality(Active(j)) + Cardinality(Unmarked(j))

\* A row that lies in the queue, read by nobody, has a pass to spare.
Covered(j) ==
  \/ passes[j] = MaxCount
  \/ /\ Owed(j) <= passes[j]
     /\ (status[j] = "QUEUED" /\ Unmarked(j) = {} => Owed(j) < passes[j])

PassInv == \A j \in Jobs : Covered(j)

\* The invocations at work on a job are some of the workers.
LEMMA AtWorkSize ==
  ASSUME NEW j \in Jobs
  PROVE  /\ IsFiniteSet(Active(j)) /\ Cardinality(Active(j)) \in Nat
         /\ IsFiniteSet(Unmarked(j)) /\ Cardinality(Unmarked(j)) \in Nat
         /\ Cardinality(Unmarked(j)) = 0 <=> Unmarked(j) = {}
<1>1. Active(j) \subseteq Workers /\ Unmarked(j) \subseteq Workers
  BY DEF Active, Unmarked
<1> QED
  BY <1>1, FS_Subset, FS_CardinalityType, FS_EmptySet

\* The same, of the next state.
LEMMA AtWorkSizeNext ==
  ASSUME NEW j \in Jobs
  PROVE  /\ IsFiniteSet(Active(j)') /\ Cardinality(Active(j)') \in Nat
         /\ IsFiniteSet(Unmarked(j)') /\ Cardinality(Unmarked(j)') \in Nat
         /\ Cardinality(Unmarked(j)') = 0 <=> Unmarked(j)' = {}
<1>1. Active(j)' \subseteq Workers /\ Unmarked(j)' \subseteq Workers
  BY DEF Active, Unmarked
<1> QED
  BY <1>1, FS_Subset, FS_CardinalityType, FS_EmptySet

\* What a step that writes a status does to the passes.
Rewritten(j) ==
  \/ passes'[j] = passes[j] /\ (status'[j] = "QUEUED" => status[j] = "QUEUED")
  \/ passes'[j] = Bump(passes[j])

\* A step that charges nothing and brings no invocation to the job leaves it
\* covered: one that puts it into the queue brings a pass.
LEMMA CoverKept ==
  ASSUME TypeOK, NEW j \in Jobs, Covered(j), used'[j] = used[j], Rewritten(j),
         Active(j)' \subseteq Active(j), Unmarked(j)' \subseteq Unmarked(j)
  PROVE  Covered(j)'
<1>1. /\ Cardinality(Active(j)') <= Cardinality(Active(j))
      /\ Cardinality(Unmarked(j)') <= Cardinality(Unmarked(j))
  BY AtWorkSize, FS_Subset
<1>2. used[j] \in Nat /\ passes[j] \in 0..MaxCount
  BY DEF TypeOK
<1>3. CASE passes[j] = MaxCount
  BY <1>2, <1>3 DEF Rewritten, Bump, Covered
<1>4. CASE passes[j] # MaxCount
  <2>1. /\ Owed(j)' <= Owed(j) /\ Owed(j) <= passes[j]
        /\ Owed(j) \in Nat /\ Owed(j)' \in Nat
    BY <1>1, <1>2, <1>4, AtWorkSize, AtWorkSizeNext DEF Owed, Covered
  <2>2. CASE passes'[j] = Bump(passes[j])
    BY <1>2, <1>4, <2>1, <2>2 DEF Bump, Covered
  <2>3. ASSUME passes'[j] = passes[j], status'[j] = "QUEUED" => status[j] = "QUEUED",
               status'[j] = "QUEUED", Unmarked(j)' = {}
        PROVE  Owed(j)' < passes[j]
    <3>1. CASE Unmarked(j) = {}
      BY <1>2, <1>4, <2>1, <2>3, <3>1 DEF Covered
    <3>2. CASE Unmarked(j) # {}
      <4>1. Cardinality(Unmarked(j)) # 0 /\ Cardinality(Unmarked(j)') = 0
        BY <2>3, <3>2, AtWorkSize, AtWorkSizeNext
      <4>2. /\ Cardinality(Active(j)) \in Nat /\ Cardinality(Active(j)') \in Nat
            /\ Cardinality(Unmarked(j)) \in Nat
        BY AtWorkSize, AtWorkSizeNext
      <4>3. Owed(j)' < Owed(j)
        BY <1>1, <1>2, <4>1, <4>2 DEF Owed
      <4> QED
        BY <1>2, <2>1, <4>3
    <3> QED
      BY <3>1, <3>2
  <2>4. CASE /\ passes'[j] = passes[j]
             /\ status'[j] = "QUEUED" => status[j] = "QUEUED"
    <3>1. Owed(j)' <= passes'[j]
      BY <1>2, <2>1, <2>4
    <3>2. status'[j] = "QUEUED" /\ Unmarked(j)' = {} => Owed(j)' < passes'[j]
      BY <2>3, <2>4
    <3> QED
      BY <3>1, <3>2 DEF Covered
  <2> QED
    BY <2>2, <2>4 DEF Rewritten
<1> QED
  BY <1>3, <1>4

\* SetStatus rewrites the job it names and leaves the others.
LEMMA SetStatusRewrites ==
  ASSUME TypeOK, NEW k \in Jobs, NEW new, SetStatus(k, new), NEW j \in Jobs
  PROVE  Rewritten(j)
BY DEF TypeOK, SetStatus, Rewritten

\* A worker that leaves the row as it is, or writes a status other than QUEUED
\* without charging, and does not read or mark one.
LEMMA WorkerKeepsCover ==
  ASSUME TypeOK, PassInv, NEW w \in Workers, NEW j \in Jobs,
         \/ Load(w) \/ Render(w) \/ Upload(w) \/ Complete(w) \/ Notify(w)
         \/ Throw(w) \/ Fail(w) \/ FailLost(w)
  PROVE  Covered(j)'
<1>t. /\ wpc \in [Workers -> WorkerPC] /\ wjob \in [Workers -> Jobs \cup {NoJob}]
      /\ wpc[w] # "idle" => wjob[w] \in Jobs
      /\ used \in [Jobs -> 0..MaxCount]
  BY DEF TypeOK
<1>1. Active(j)' \subseteq Active(j) /\ Unmarked(j)' \subseteq Unmarked(j)
  BY <1>t, JobIsSome DEF Load, Render, Upload, Complete, Notify, Throw, MayThrow, Fail,
              FailLost, WorkerEnd, Goto, Active, Unmarked
<1>2. used'[j] = used[j]
  BY DEF Load, Render, Upload, Complete, Notify, Throw, Fail, FailLost, jobVars
<1>3. wpc[w] # "idle"
  BY DEF Load, Render, Upload, Complete, Notify, Throw, MayThrow, Fail, FailLost
<1>4. Rewritten(j)
  <2>1. CASE Load(w) \/ Render(w) \/ Complete(w) \/ Fail(w)
    BY <1>t, <1>3, <2>1, SetStatusRewrites DEF Load, Render, Complete, Fail
  <2>2. CASE Upload(w) \/ Notify(w) \/ Throw(w) \/ FailLost(w)
    BY <2>2 DEF Upload, Notify, Throw, FailLost, jobVars, statusVars, Rewritten
  <2> QED
    BY <2>1, <2>2
<1> QED
  BY <1>1, <1>2, <1>4, CoverKept DEF PassInv

\* findFirst takes the pass of a row nobody has read, or brings one.
LEMMA PickKeepsCover ==
  ASSUME TypeOK, PassInv, NEW w \in Workers, Pick(w), NEW j \in Jobs
  PROVE  Covered(j)'
<1>1. PICK k \in Jobs :
        /\ status[k] = "QUEUED" /\ wjob' = [wjob EXCEPT ![w] = k]
        /\ passes' = IF Unmarked(k) = {} THEN passes
                     ELSE [passes EXCEPT ![k] = Bump(@)]
  BY DEF Pick, Queued
<1>2. /\ wpc[w] = "idle" /\ wpc' = [wpc EXCEPT ![w] = "picked"]
      /\ UNCHANGED <<status, used>>
  BY DEF Pick, Goto
<1>t. /\ wpc \in [Workers -> WorkerPC] /\ wjob \in [Workers -> Jobs \cup {NoJob}]
      /\ passes \in [Jobs -> 0..MaxCount] /\ used[j] \in Nat
  BY DEF TypeOK
<1>3. CASE j # k
  <2>1. Active(j)' = Active(j) /\ Unmarked(j)' = Unmarked(j)
    BY <1>1, <1>2, <1>3, <1>t DEF Active, Unmarked
  <2> QED
    BY <1>1, <1>2, <1>3, <1>t, <2>1, CoverKept DEF PassInv, Rewritten
<1>4. CASE j = k
  <2>1. Active(j)' = Active(j) /\ Unmarked(j)' = Unmarked(j) \cup {w}
        /\ w \notin Unmarked(j)
    BY <1>1, <1>2, <1>4, <1>t DEF Active, Unmarked
  <2>2. Cardinality(Unmarked(j)') = Cardinality(Unmarked(j)) + 1
    <3>1. Cardinality(Unmarked(j) \cup {w}) = Cardinality(Unmarked(j)) + 1
      BY <2>1, AtWorkSize, FS_AddElement
    <3> QED
      BY <2>1, <3>1
  <2>3. Owed(j)' = Owed(j) + 1 /\ Owed(j) \in Nat
    BY <1>2, <1>t, <2>1, <2>2, AtWorkSize DEF Owed
  <2>4. Unmarked(j)' # {}
    BY <2>1
  <2>5. CASE passes[j] = MaxCount
    BY <1>1, <1>4, <1>t, <2>5 DEF Bump, Covered
  <2>6. CASE passes[j] # MaxCount /\ Unmarked(j) = {}
    BY <1>1, <1>4, <1>t, <2>3, <2>4, <2>6 DEF PassInv, Covered
  <2>7. CASE passes[j] # MaxCount /\ Unmarked(j) # {}
    BY <1>1, <1>4, <1>t, <2>3, <2>4, <2>7 DEF PassInv, Covered, Bump
  <2> QED
    BY <2>5, <2>6, <2>7
<1> QED
  BY <1>3, <1>4

\* Marking a row moves its invocation from those that have read it to those that
\* work on it, and takes the row out of the queue.
LEMMA BeginKeepsCover ==
  ASSUME TypeOK, PassInv, NEW w \in Workers, Begin(w), NEW j \in Jobs
  PROVE  Covered(j)'
<1>t. /\ wpc \in [Workers -> WorkerPC] /\ wjob \in [Workers -> Jobs \cup {NoJob}]
      /\ wjob[w] \in Jobs /\ status \in [Jobs -> Statuses]
      /\ passes \in [Jobs -> 0..MaxCount] /\ used[j] \in Nat
  BY DEF TypeOK, Begin
<1>1. /\ wpc[w] = "picked" /\ wpc' = [wpc EXCEPT ![w] = "load"]
      /\ status' = [status EXCEPT ![wjob[w]] = "PROCESSING"]
      /\ UNCHANGED <<passes, used, wjob>>
  BY DEF Begin, SetStatus, Goto
<1>2. CASE j # wjob[w]
  <2>1. Active(j)' = Active(j) /\ Unmarked(j)' = Unmarked(j)
    BY <1>1, <1>2, <1>t DEF Active, Unmarked
  <2> QED
    BY <1>1, <1>2, <1>t, <2>1, CoverKept DEF PassInv, Rewritten
<1>3. CASE j = wjob[w]
  <2>1. /\ Active(j)' = Active(j) \cup {w} /\ w \notin Active(j)
        /\ Unmarked(j)' = Unmarked(j) \ {w} /\ w \in Unmarked(j)
    BY <1>1, <1>3, <1>t DEF Active, Unmarked
  <2>2. /\ Cardinality(Active(j) \cup {w}) = Cardinality(Active(j)) + 1
        /\ Cardinality(Unmarked(j) \ {w}) = Cardinality(Unmarked(j)) - 1
    BY <2>1, AtWorkSize, FS_AddElement, FS_RemoveElement
  <2>3. Owed(j)' = Owed(j)
    <3>1. /\ Cardinality(Active(j)') = Cardinality(Active(j)) + 1
          /\ Cardinality(Unmarked(j)') = Cardinality(Unmarked(j)) - 1
      BY <2>1, <2>2
    <3> QED
      BY <1>1, <1>t, <3>1, AtWorkSize DEF Owed
  <2>4. status'[j] # "QUEUED"
    BY <1>1, <1>3, <1>t
  <2> QED
    BY <1>1, <2>3, <2>4 DEF PassInv, Covered
<1> QED
  BY <1>2, <1>3

\* A charge was owed before it is made.
LEMMA CountKeepsCover ==
  ASSUME TypeOK, PassInv, NEW w \in Workers, CountReport(w), NEW j \in Jobs
  PROVE  Covered(j)'
<1>t. /\ wpc \in [Workers -> WorkerPC] /\ wjob \in [Workers -> Jobs \cup {NoJob}]
      /\ wjob[w] \in Jobs /\ used \in [Jobs -> 0..MaxCount]
      /\ passes \in [Jobs -> 0..MaxCount]
  BY DEF TypeOK, CountReport
<1>1. /\ wpc[w] = "bill" /\ wpc' = [wpc EXCEPT ![w] = "notify"]
      /\ used' = [used EXCEPT ![wjob[w]] = Bump(@)]
      /\ UNCHANGED <<status, passes, wjob>>
  BY DEF CountReport, Goto, statusVars
<1>2. CASE j # wjob[w]
  <2>1. Active(j)' = Active(j) /\ Unmarked(j)' = Unmarked(j)
    BY <1>1, <1>2, <1>t DEF Active, Unmarked
  <2> QED
    BY <1>1, <1>2, <1>t, <2>1, CoverKept DEF PassInv, Rewritten
<1>3. CASE j = wjob[w]
  <2>1. /\ Active(j)' = Active(j) \ {w} /\ w \in Active(j)
        /\ Unmarked(j)' = Unmarked(j)
    BY <1>1, <1>3, <1>t DEF Active, Unmarked
  <2>2. Cardinality(Active(j) \ {w}) = Cardinality(Active(j)) - 1
    BY <2>1, AtWorkSize, FS_RemoveElement
  <2>3. used[j] \in Nat /\ used'[j] \in Nat /\ used'[j] <= used[j] + 1
    BY <1>1, <1>3, <1>t DEF Bump
  <2>4. Owed(j)' <= Owed(j) /\ Owed(j)' \in Nat /\ Owed(j) \in Nat
    <3>1. /\ Cardinality(Active(j)') = Cardinality(Active(j)) - 1
          /\ Cardinality(Unmarked(j)') = Cardinality(Unmarked(j))
      BY <2>1, <2>2
    <3>2. /\ Cardinality(Active(j)) \in Nat /\ Cardinality(Active(j)') \in Nat
          /\ Cardinality(Unmarked(j)) \in Nat
      BY AtWorkSize, AtWorkSizeNext
    <3> QED
      BY <2>3, <3>1, <3>2 DEF Owed
  <2> QED
    BY <1>1, <1>t, <2>1, <2>4 DEF PassInv, Covered
<1> QED
  BY <1>2, <1>3

\* Every job stays covered.
LEMMA PassInductive ==
  /\ Init => PassInv
  /\ TypeOK /\ PassInv /\ [Next]_vars => PassInv'
<1>1. ASSUME Init, NEW j \in Jobs PROVE Covered(j)
  <2>1. Active(j) = {} /\ Unmarked(j) = {}
    BY <1>1, JobIsSome DEF Init, Active, Unmarked
  <2>2. Owed(j) = 0
    BY <1>1, <2>1, FS_EmptySet DEF Init, Owed
  <2> QED
    BY <1>1, <2>2 DEF Init, Covered
<1>2. ASSUME TypeOK, PassInv, [Next]_vars, NEW j \in Jobs PROVE Covered(j)'
  <2>1. ASSUME UNCHANGED <<workerVars, used>>, Rewritten(j) PROVE Covered(j)'
    <3>1. Active(j)' = Active(j) /\ Unmarked(j)' = Unmarked(j)
      BY <2>1 DEF workerVars, Active, Unmarked
    <3> QED
      BY <1>2, <2>1, <3>1, CoverKept DEF PassInv
  <2>2. ASSUME UNCHANGED statusVars PROVE Rewritten(j)
    BY <2>2 DEF statusVars, Rewritten
  <2>3. CASE \E k \in Jobs : CreateForCustomer(k) \/ CreateForDemo(k)
    BY <1>2, <2>1, <2>3, SetStatusRewrites
       DEF CreateForCustomer, CreateForDemo, Create
  <2>4. CASE \E r \in Requests, k \in Jobs : SubmitCheck(r, k)
    BY <2>1, <2>2, <2>4 DEF SubmitCheck, SubmitFrame
  <2>5. ASSUME NEW r \in Requests, SubmitStep(r) PROVE Covered(j)'
    <3>1. rjob[r] \in Jobs
      BY <1>2, <2>5 DEF TypeOK, SubmitStep, SubmitNeedsInput, SubmitInvalid,
                        SubmitValid, SubmitQueue, SubmitThrows
    <3>2. Rewritten(j)
      <4>1. CASE SubmitThrows(r)
        BY <2>2, <4>1 DEF SubmitThrows
      <4>2. CASE ~ SubmitThrows(r)
        BY <1>2, <2>5, <3>1, <4>2, SetStatusRewrites
           DEF SubmitStep, SubmitNeedsInput, SubmitInvalid, SubmitValid, SubmitQueue
      <4> QED
        BY <4>1, <4>2
    <3> QED
      BY <2>1, <2>5, <3>2
         DEF SubmitStep, SubmitNeedsInput, SubmitInvalid, SubmitValid,
             SubmitQueue, SubmitThrows, SubmitFrame
  <2>6. CASE \E w \in Workers : WorkerStep(w)
    BY <1>2, <2>6, WorkerKeepsCover, PickKeepsCover, BeginKeepsCover,
       CountKeepsCover DEF WorkerStep
  <2>7. ASSUME NEW s \in Sweeps, SweepStep(s) PROVE Covered(j)'
    <3>1. CASE Scan(s) \/ SweepAborts(s)
      BY <2>1, <2>2, <3>1 DEF Scan, SweepAborts, SweepFrame
    <3>2. CASE \E k \in Jobs : Requeue(s, k) \/ GiveUp(s, k)
      BY <1>2, <2>1, <3>2, SetStatusRewrites DEF Requeue, GiveUp, SweepFrame
    <3> QED
      BY <2>7, <3>1, <3>2 DEF SweepStep
  <2>8. CASE \E k \in Jobs : AdminStep(k)
    BY <1>2, <2>1, <2>8, SetStatusRewrites
       DEF AdminStep, ForceAdvance, ForceFail, ForceRegenerate, AdminFrame
  <2>9. CASE \E k \in Jobs : Age(k)
    BY <2>1, <2>2, <2>9 DEF Age
  <2>10. CASE Crash
    <3>1. Active(j)' = {} /\ Unmarked(j)' = {}
      BY <2>10, JobIsSome DEF Crash, Active, Unmarked
    <3> QED
      BY <1>2, <2>2, <2>10, <3>1, CoverKept DEF PassInv, Crash, jobVars
  <2>11. CASE UNCHANGED vars
    BY <2>1, <2>2, <2>11 DEF vars, jobVars
  <2> QED
    BY <1>2, <2>3, <2>4, <2>5, <2>6, <2>7, <2>8, <2>9, <2>10, <2>11 DEF Next
<1> QED
  BY <1>1, <1>2 DEF PassInv

\* However many invocations of processQueue, submissions, sweeps and admin calls
\* overlap, a job is counted in reportsUsed at most once for each time it was put
\* into the queue and once for each invocation that read it there while another
\* was between its findFirst and its update to PROCESSING.
THEOREM ChargesStayBounded == Spec => []ChargesBounded
<1>1. TypeOK /\ PassInv => ChargesBounded
  <2> SUFFICES ASSUME TypeOK, PassInv, NEW j \in Jobs PROVE used[j] <= passes[j]
    BY DEF ChargesBounded
  <2>1. used[j] \in 0..MaxCount /\ passes[j] \in 0..MaxCount
    BY DEF TypeOK
  <2> QED
    BY <2>1, AtWorkSize DEF PassInv, Covered, Owed
<1> QED
  BY <1>1, TypeCorrect, PassInductive, PTL DEF Spec
=============================================================================

--------------------------- MODULE ReportPipeline ---------------------------
(***************************************************************************)
(* The life of a report job: the rows of the report_jobs table and every   *)
(* piece of code that writes their status.                                 *)
(*                                                                         *)
(*   Requests   calls of PortalController.submitData in flight             *)
(*   Workers    invocations of PipelineWorker.processQueue in flight: the  *)
(*              scheduler starts one every two minutes whether or not the  *)
(*              previous one has returned, so there may be several         *)
(*   Sweeps     invocations of PipelineWorker.checkStalledJobs and, for    *)
(*              those in HourlySweeps, of                                  *)
(*              PipelineHealthMonitor.checkStuckJobs                       *)
(*   the admin endpoints, a crash of the process and the passing of the    *)
(*   thirty minutes after which a job counts as stalled.                   *)
(*                                                                         *)
(* Every database call is one step; between two calls of one invocation    *)
(* any other may run.  No update in the code is conditional on the status  *)
(* the invocation read earlier: the writes below are unconditional too.    *)
(* What a report says is not modelled here: whether an institution with    *)
(* data is found, or a calculation throws, is a nondeterministic outcome.  *)
(***************************************************************************)
EXTENDS Integers, FiniteSets

CONSTANTS Jobs,          \* rows, numbered in the order of createdAt
          Workers,       \* concurrent processQueue invocations
          Sweeps,        \* concurrent sweep invocations
          HourlySweeps,  \* those that run PipelineHealthMonitor's code
          Requests,      \* concurrent submitData calls
          MaxRetries,    \* MAX_STALLED_RETRIES
          MaxAdmin,      \* bound: admin calls in a behaviour
          MaxFaults,     \* bound: crashes and rejected last writes
          MaxCount       \* counters stop here: "MaxCount or more"

ASSUME JobsAssumption == Jobs \subseteq Nat \ {0}
ASSUME WorkersAssumption == IsFiniteSet(Workers)
ASSUME SweepsAssumption == IsFiniteSet(Sweeps) /\ HourlySweeps \subseteq Sweeps
ASSUME BoundsAssumption ==
  /\ MaxRetries \in Nat
  /\ MaxAdmin \in Nat
  /\ MaxFaults \in Nat
  /\ MaxCount \in Nat

VARIABLES status,     \* ReportJob.status, or "ABSENT" before the row exists
          startedAt,  \* processingStartedAt: null, fresh, or 30 minutes old
          retry,      \* retryCount
          url,        \* reportUrl and reportUrlEn are set
          stored,     \* both PDFs are in report storage
          told,       \* gateway events sent to the job's room
          used,       \* what the job added to Subscription.reportsUsed
          passes,     \* history: times the job was put into the queue, and times
                      \* it was read there by one more invocation while another
                      \* had read it and not marked it yet
          ready,      \* a "report ready" email was sent
          wpc, wjob,  \* where each worker is, and the job it read
          seen,       \* retryCount each sweep read for the jobs left in its loop
          rpc, rjob,  \* where each submission is, and its job
          adminLeft, faultsLeft

statusVars == <<status, passes>>
jobVars == <<statusVars, startedAt, retry, url, stored, told, used, ready>>
workerVars == <<wpc, wjob>>
requestVars == <<rpc, rjob>>
vars == <<jobVars, workerVars, seen, requestVars, adminLeft, faultsLeft>>

-----------------------------------------------------------------------------
NoJob == 0
NotSeen == -1

Statuses == {"ABSENT", "AWAITING_DATA", "VALIDATING", "VALIDATION_FAILED",
             "QUEUED", "PROCESSING", "GENERATING_PDF", "UPLOADING",
             "COMPLETE", "FAILED"}

\* The statuses submitData accepts.
Actionable == {"AWAITING_DATA", "VALIDATION_FAILED"}

WorkerPC == {"idle", "picked", "load", "calc", "upload", "complete", "bill",
             "notify", "failing"}

\* Mutant of MayThrow: step 7 without its own try block.
MayThrowAnywhere == {"picked", "load", "calc", "upload", "complete", "bill",
                     "notify"}

\* The awaits of processQueue whose rejection reaches its outer catch.
MayThrow == {"picked", "load", "calc", "upload", "complete", "bill"}

Terminal(j) == status[j] \in {"COMPLETE", "FAILED"}

Bump(n) == IF n < MaxCount THEN n + 1 ELSE n

Queued == {j \in Jobs : status[j] = "QUEUED"}

\* Mutants of Stalled: the status filter dropped; the comparison turned round.
StalledAnyStatus(j) == startedAt[j] = "stale"
StalledBefore(j) == status[j] = "PROCESSING" /\ startedAt[j] = "fresh"

\* The predicate both sweeps put in their WHERE clause.
Stalled(j) == status[j] = "PROCESSING" /\ startedAt[j] = "stale"

\* Mutant of RetriesLeft: off by one.
RetriesLeftInclusive(n) == n <= MaxRetries

RetriesLeft(n) == n < MaxRetries

SweepIdle(s) == \A j \in Jobs : seen[s][j] = NotSeen

SetStatus(j, new) ==
  /\ status' = [status EXCEPT ![j] = new]
  /\ passes' = IF new = "QUEUED" THEN [passes EXCEPT ![j] = Bump(@)] ELSE passes

Init ==
  /\ status = [j \in Jobs |-> "ABSENT"]
  /\ startedAt = [j \in Jobs |-> "null"]
  /\ retry = [j \in Jobs |-> 0]
  /\ url = [j \in Jobs |-> FALSE]
  /\ stored = [j \in Jobs |-> FALSE]
  /\ told = [j \in Jobs |-> {}]
  /\ used = [j \in Jobs |-> 0]
  /\ passes = [j \in Jobs |-> 0]
  /\ ready = [j \in Jobs |-> FALSE]
  /\ wpc = [w \in Workers |-> "idle"]
  /\ wjob = [w \in Workers |-> NoJob]
  /\ seen = [s \in Sweeps |-> [j \in Jobs |-> NotSeen]]
  /\ rpc = [r \in Requests |-> "idle"]
  /\ rjob = [r \in Requests |-> NoJob]
  /\ adminLeft = MaxAdmin
  /\ faultsLeft = MaxFaults

-----------------------------------------------------------------------------
(* Creation.                                                               *)

\* A payment, an invoice or an opened portal cycle creates a row that waits
\* for the customer's file; a demo seat creates one already queued.
Create(j, initial) ==
  /\ status[j] = "ABSENT"
  /\ \A k \in Jobs : k < j => status[k] # "ABSENT"
  /\ SetStatus(j, initial)
  /\ UNCHANGED <<startedAt, retry, url, stored, told, used, ready,
                 workerVars, seen, requestVars, adminLeft, faultsLeft>>

CreateForCustomer(j) == Create(j, "AWAITING_DATA")
CreateForDemo(j) == Create(j, "QUEUED")

-----------------------------------------------------------------------------
(* PortalController.submitData                                             *)

SubmitEnd(r) ==
  /\ rpc' = [rpc EXCEPT ![r] = "idle"]
  /\ rjob' = [rjob EXCEPT ![r] = NoJob]

SubmitFrame == UNCHANGED <<startedAt, retry, url, stored, told, used, ready,
                           workerVars, seen, adminLeft, faultsLeft>>

\* Reads the job and rejects the call unless it is waiting for data.  The
\* status is not looked at again.
SubmitCheck(r, j) ==
  /\ rpc[r] = "idle"
  /\ status[j] \in Actionable
  /\ rpc' = [rpc EXCEPT ![r] = "checked"]
  /\ rjob' = [rjob EXCEPT ![r] = j]
  /\ UNCHANGED statusVars
  /\ SubmitFrame

\* The file cannot be read without asking: NEEDS_INPUT.
SubmitNeedsInput(r) ==
  /\ rpc[r] = "checked"
  /\ SetStatus(rjob[r], "AWAITING_DATA")
  /\ SubmitEnd(r)
  /\ SubmitFrame

SubmitInvalid(r) ==
  /\ rpc[r] = "checked"
  /\ SetStatus(rjob[r], "VALIDATION_FAILED")
  /\ SubmitEnd(r)
  /\ SubmitFrame

SubmitValid(r) ==
  /\ rpc[r] = "checked"
  /\ SetStatus(rjob[r], "VALIDATING")
  /\ rpc' = [rpc EXCEPT ![r] = "import"]
  /\ UNCHANGED rjob
  /\ SubmitFrame

\* Institution found or created, items imported, log written: queue the job.
SubmitQueue(r) ==
  /\ rpc[r] = "import"
  /\ SetStatus(rjob[r], "QUEUED")
  /\ SubmitEnd(r)
  /\ SubmitFrame

\* One of those calls throws: the request answers 500 and nothing restores
\* the status.
SubmitThrows(r) ==
  /\ rpc[r] \in {"checked", "import"}
  /\ SubmitEnd(r)
  /\ UNCHANGED statusVars
  /\ SubmitFrame

SubmitStep(r) ==
  \/ SubmitNeedsInput(r)
  \/ SubmitInvalid(r)
  \/ SubmitValid(r)
  \/ SubmitQueue(r)
  \/ SubmitThrows(r)

-----------------------------------------------------------------------------
(* PipelineWorker.processQueue                                             *)

WorkerFrame == UNCHANGED <<retry, seen, requestVars, adminLeft>>

Goto(w, l) == wpc' = [wpc EXCEPT ![w] = l]

\* Mutant of WorkerEnd: the invocation's job outlives it.
WorkerEndKeepsJob(w) ==
  /\ Goto(w, "idle")
  /\ UNCHANGED wjob

WorkerEnd(w) ==
  /\ Goto(w, "idle")
  /\ wjob' = [wjob EXCEPT ![w] = NoJob]

\* The invocations that have read the row and not marked it yet.
Unmarked(j) == {w \in Workers : wjob[w] = j /\ wpc[w] = "picked"}

\* findFirst: the oldest queued row is read, not claimed.
Pick(w) ==
  /\ wpc[w] = "idle"
  /\ \E j \in Queued :
       /\ \A k \in Queued : j <= k
       /\ wjob' = [wjob EXCEPT ![w] = j]
       /\ passes' = IF Unmarked(j) = {} THEN passes
                    ELSE [passes EXCEPT ![j] = Bump(@)]
  /\ Goto(w, "picked")
  /\ UNCHANGED <<status, startedAt, url, stored, told, used, ready, faultsLeft>>
  /\ WorkerFrame

\* Mutant of Begin: the row is stamped and left in the queue.
BeginUnmarked(w) ==
  /\ wpc[w] = "picked"
  /\ startedAt' = [startedAt EXCEPT ![wjob[w]] = "fresh"]
  /\ Goto(w, "load")
  /\ UNCHANGED <<statusVars, url, stored, told, used, ready, wjob, faultsLeft>>
  /\ WorkerFrame

Begin(w) ==
  /\ wpc[w] = "picked"
  /\ SetStatus(wjob[w], "PROCESSING")
  /\ startedAt' = [startedAt EXCEPT ![wjob[w]] = "fresh"]
  /\ Goto(w, "load")
  /\ UNCHANGED <<url, stored, told, used, ready, wjob, faultsLeft>>
  /\ WorkerFrame

\* The institution and its balance sheet are there.
Load(w) ==
  /\ wpc[w] = "load"
  /\ SetStatus(wjob[w], "GENERATING_PDF")
  /\ Goto(w, "calc")
  /\ UNCHANGED <<startedAt, url, stored, told, used, ready, wjob, faultsLeft>>
  /\ WorkerFrame

\* The calculations return; generateReport yields a PDF or its fallback.
Render(w) ==
  /\ wpc[w] = "calc"
  /\ SetStatus(wjob[w], "UPLOADING")
  /\ Goto(w, "upload")
  /\ UNCHANGED <<startedAt, url, stored, told, used, ready, wjob, faultsLeft>>
  /\ WorkerFrame

\* Mutant of Upload: the uploads are started and not awaited.
UploadNotAwaited(w) ==
  /\ wpc[w] = "upload"
  /\ \E done \in BOOLEAN : stored' = [stored EXCEPT ![wjob[w]] = @ \/ done]
  /\ Goto(w, "complete")
  /\ UNCHANGED <<statusVars, startedAt, url, told, used, ready, wjob, faultsLeft>>
  /\ WorkerFrame

\* Both uploads, both signed URLs, and the artifact rows whose failure is
\* swallowed.
Upload(w) ==
  /\ wpc[w] = "upload"
  /\ stored' = [stored EXCEPT ![wjob[w]] = TRUE]
  /\ Goto(w, "complete")
  /\ UNCHANGED <<statusVars, startedAt, url, told, used, ready, wjob, faultsLeft>>
  /\ WorkerFrame

Complete(w) ==
  /\ wpc[w] = "complete"
  /\ SetStatus(wjob[w], "COMPLETE")
  /\ url' = [url EXCEPT ![wjob[w]] = TRUE]
  /\ told' = [told EXCEPT ![wjob[w]] = @ \cup {"complete"}]
  /\ Goto(w, "bill")
  /\ UNCHANGED <<startedAt, stored, used, ready, wjob, faultsLeft>>
  /\ WorkerFrame

CountReport(w) ==
  /\ wpc[w] = "bill"
  /\ used' = [used EXCEPT ![wjob[w]] = Bump(@)]
  /\ Goto(w, "notify")
  /\ UNCHANGED <<statusVars, startedAt, url, stored, told, ready, wjob, faultsLeft>>
  /\ WorkerFrame

\* The email may fail or the user have no address: both end the same way.
Notify(w) ==
  /\ wpc[w] = "notify"
  /\ \/ ready' = [ready EXCEPT ![wjob[w]] = TRUE]
     \/ UNCHANGED ready
  /\ WorkerEnd(w)
  /\ UNCHANGED <<statusVars, startedAt, url, stored, told, used, faultsLeft>>
  /\ WorkerFrame

Throw(w) ==
  /\ wpc[w] \in MayThrow
  /\ Goto(w, "failing")
  /\ UNCHANGED <<jobVars, wjob, faultsLeft>>
  /\ WorkerFrame

\* The catch block: FAILED, the error event, the alert.
Fail(w) ==
  /\ wpc[w] = "failing"
  /\ SetStatus(wjob[w], "FAILED")
  /\ told' = [told EXCEPT ![wjob[w]] = @ \cup {"error"}]
  /\ WorkerEnd(w)
  /\ UNCHANGED <<startedAt, url, stored, used, ready, faultsLeft>>
  /\ WorkerFrame

\* The catch block's own update is rejected: the row stays as it was.
FailLost(w) ==
  /\ wpc[w] = "failing"
  /\ faultsLeft > 0
  /\ faultsLeft' = faultsLeft - 1
  /\ WorkerEnd(w)
  /\ UNCHANGED jobVars
  /\ WorkerFrame

WorkerStep(w) ==
  \/ Pick(w)     \/ Begin(w)       \/ Load(w)   \/ Render(w) \/ Upload(w)
  \/ Complete(w) \/ CountReport(w) \/ Notify(w) \/ Throw(w)  \/ Fail(w)
  \/ FailLost(w)

-----------------------------------------------------------------------------
(* PipelineWorker.checkStalledJobs and PipelineHealthMonitor.checkStuckJobs *)

SweepFrame == UNCHANGED <<url, stored, told, used, ready, workerVars,
                          requestVars, adminLeft>>

\* findMany: the rows and their retryCount as they are now.
Scan(s) ==
  /\ SweepIdle(s)
  /\ \E j \in Jobs : Stalled(j)
  /\ seen' = [seen EXCEPT ![s] =
                [j \in Jobs |-> IF Stalled(j) THEN retry[j] ELSE NotSeen]]
  /\ UNCHANGED <<statusVars, startedAt, retry, faultsLeft>>
  /\ SweepFrame

Forget(s, j) == seen' = [seen EXCEPT ![s][j] = NotSeen]

\* The decision uses the retryCount of the snapshot; the increment is the
\* database's.  Only checkStalledJobs clears processingStartedAt.
Requeue(s, j) ==
  /\ seen[s][j] # NotSeen
  /\ RetriesLeft(seen[s][j])
  /\ SetStatus(j, "QUEUED")
  /\ retry' = [retry EXCEPT ![j] = @ + 1]
  /\ startedAt' = IF s \in HourlySweeps THEN startedAt
                  ELSE [startedAt EXCEPT ![j] = "null"]
  /\ Forget(s, j)
  /\ UNCHANGED faultsLeft
  /\ SweepFrame

GiveUp(s, j) ==
  /\ seen[s][j] # NotSeen
  /\ ~RetriesLeft(seen[s][j])
  /\ SetStatus(j, "FAILED")
  /\ Forget(s, j)
  /\ UNCHANGED <<startedAt, retry, faultsLeft>>
  /\ SweepFrame

\* An update is rejected: the rest of the loop is skipped.
SweepAborts(s) ==
  /\ ~SweepIdle(s)
  /\ faultsLeft > 0
  /\ faultsLeft' = faultsLeft - 1
  /\ seen' = [seen EXCEPT ![s] = [j \in Jobs |-> NotSeen]]
  /\ UNCHANGED <<statusVars, startedAt, retry>>
  /\ SweepFrame

SweepStep(s) ==
  \/ Scan(s)
  \/ \E j \in Jobs : Requeue(s, j) \/ GiveUp(s, j)
  \/ SweepAborts(s)

-----------------------------------------------------------------------------
(* The admin endpoints.                                                    *)

AdminFrame ==
  /\ adminLeft > 0
  /\ adminLeft' = adminLeft - 1
  /\ UNCHANGED <<startedAt, url, stored, told, used, ready, workerVars,
                 seen, requestVars, faultsLeft>>

ForceAdvance(j) ==
  /\ status[j] # "ABSENT"
  /\ SetStatus(j, "QUEUED")
  /\ UNCHANGED retry
  /\ AdminFrame

ForceFail(j) ==
  /\ status[j] # "ABSENT"
  /\ SetStatus(j, "FAILED")
  /\ UNCHANGED retry
  /\ AdminFrame

\* force-regenerate, and the control tower's retry_pipeline_job.
ForceRegenerate(j) ==
  /\ status[j] # "ABSENT"
  /\ SetStatus(j, "QUEUED")
  /\ retry' = [retry EXCEPT ![j] = 0]
  /\ AdminFrame

AdminStep(j) == ForceAdvance(j) \/ ForceFail(j) \/ ForceRegenerate(j)

-----------------------------------------------------------------------------
(* Time and failure.                                                       *)

\* Thirty minutes pass since the stamp.
Age(j) ==
  /\ startedAt[j] = "fresh"
  /\ startedAt' = [startedAt EXCEPT ![j] = "stale"]
  /\ UNCHANGED <<statusVars, retry, url, stored, told, used, ready,
                 workerVars, seen, requestVars, adminLeft, faultsLeft>>

\* The process restarts: the rows survive, every invocation is gone.
Crash ==
  /\ faultsLeft > 0
  /\ faultsLeft' = faultsLeft - 1
  /\ wpc' = [w \in Workers |-> "idle"]
  /\ wjob' = [w \in Workers |-> NoJob]
  /\ seen' = [s \in Sweeps |-> [j \in Jobs |-> NotSeen]]
  /\ rpc' = [r \in Requests |-> "idle"]
  /\ rjob' = [r \in Requests |-> NoJob]
  /\ UNCHANGED <<jobVars, adminLeft>>

Next ==
  \/ \E j \in Jobs : CreateForCustomer(j) \/ CreateForDemo(j)
  \/ \E r \in Requests, j \in Jobs : SubmitCheck(r, j)
  \/ \E r \in Requests : SubmitStep(r)
  \/ \E w \in Workers : WorkerStep(w)
  \/ \E s \in Sweeps : SweepStep(s)
  \/ \E j \in Jobs : AdminStep(j)
  \/ \E j \in Jobs : Age(j)
  \/ Crash

Spec == Init /\ [][Next]_vars

\* What the scheduler and the event loop give: a started call goes on, a due
\* cron callback is called, and time passes.  Nobody has to submit a file or
\* use an admin endpoint.
Fairness ==
  /\ \A w \in Workers : WF_vars(WorkerStep(w))
  /\ \A s \in Sweeps : WF_vars(SweepStep(s))
  /\ \A r \in Requests : WF_vars(SubmitStep(r))
  /\ \A j \in Jobs : WF_vars(Age(j))

FairSpec == Spec /\ Fairness

-----------------------------------------------------------------------------
(* Properties.                                                             *)

\* Every variable has its type; an idle invocation refers to no job, a running
\* one refers to a row that exists.
TypeOK ==
  /\ status \in [Jobs -> Statuses]
  /\ startedAt \in [Jobs -> {"null", "fresh", "stale"}]
  /\ retry \in [Jobs -> Nat]
  /\ url \in [Jobs -> BOOLEAN]
  /\ stored \in [Jobs -> BOOLEAN]
  /\ told \in [Jobs -> SUBSET {"complete", "error"}]
  /\ used \in [Jobs -> 0..MaxCount]
  /\ passes \in [Jobs -> 0..MaxCount]
  /\ ready \in [Jobs -> BOOLEAN]
  /\ wpc \in [Workers -> WorkerPC]
  /\ wjob \in [Workers -> Jobs \cup {NoJob}]
  /\ \A w \in Workers : wpc[w] = "idle" <=> wjob[w] = NoJob
  /\ seen \in [Sweeps -> [Jobs -> Nat \cup {NotSeen}]]
  /\ rpc \in [Requests -> {"idle", "checked", "import"}]
  /\ rjob \in [Requests -> Jobs \cup {NoJob}]
  /\ \A r \in Requests : rpc[r] = "idle" <=> rjob[r] = NoJob
  /\ adminLeft \in 0..MaxAdmin
  /\ faultsLeft \in 0..MaxFaults

\* Sweeps with a reset of j still to do, from a snapshot that allowed it.
Resetting(j) ==
  {s \in Sweeps : seen[s][j] # NotSeen /\ RetriesLeft(seen[s][j])}

\* How far retryCount can really go.  Each sweep compares the retryCount of its
\* snapshot with MAX_STALLED_RETRIES and lets the database increment, so sweeps
\* that read the same row overshoot: by one for each sweep in flight but one.
RetryBounded ==
  \A j \in Jobs : retry[j] = 0 \/ retry[j] < MaxRetries + Cardinality(Sweeps)

\* The customer is never pointed at a report that is not there: whatever else
\* runs, COMPLETE, the complete event, the charge and the "report ready" email
\* all come after both PDFs are in storage, and with or after their URLs
\* are written to the row.
DeliveredIsStored ==
  \A j \in Jobs :
    status[j] = "COMPLETE" \/ "complete" \in told[j] \/ used[j] > 0 \/ ready[j]
      => stored[j] /\ url[j]

\* Nobody holds a reference to j that was read earlier.
Quiet(j) ==
  /\ \A w \in Workers : wjob[w] # j
  /\ \A s \in Sweeps : seen[s][j] = NotSeen
  /\ \A r \in Requests : rjob[r] # j

\* Updates are unconditional, so a finished job may still be overwritten by an
\* invocation that read it before; but once no such invocation is left, none
\* starts again: the queries of processQueue, of both sweeps and of submitData
\* never select a finished job, and only an admin can revive it.
SettledIsFinal ==
  [][\A j \in Jobs :
       Terminal(j) /\ Quiet(j) /\ adminLeft' = adminLeft
         => status'[j] = status[j] /\ Quiet(j)']_vars

\* What the two-minute cron, submissions that overlap, resets and admins can add
\* to a customer's reportsUsed: nothing claims a queued row, but a job is counted
\* at most once for each time it was put into the queue, and once more for each
\* invocation that read it there while another was between reading it and marking
\* it PROCESSING.  Invocations that overlap later on add nothing.
ChargesBounded == \A j \in Jobs : used[j] <= passes[j]

\* A customer is charged once for a job and never for one that failed, as long as
\* no sweep has reset it: each pass that delivers counts a report.  (A report that
\* was delivered but could not be counted is the failure that may show.)
ChargedForDelivery ==
  \A j \in Jobs : retry[j] = 0 =>
    used[j] <= 1 /\ (status[j] = "FAILED" => used[j] = 0)

\* What the comment of step 7 asks of the worker: a delivered report stays
\* delivered, whatever fails afterwards.
CompleteIsKept ==
  [][\A j \in Jobs : status[j] = "COMPLETE" => status'[j] # "FAILED"]_vars

\* The invocation that was working on j is gone and no sweep looks at j's
\* status.
Orphaned(j) ==
  /\ status[j] \in {"GENERATING_PDF", "UPLOADING"}
  /\ \A w \in Workers : wjob[w] # j

\* A queued job is eventually finished, however often it stalls, unless a crash
\* left it in a status that no sweep selects.
QueuedSettles ==
  \A j \in Jobs : status[j] = "QUEUED" ~> (Terminal(j) \/ Orphaned(j))
=============================================================================

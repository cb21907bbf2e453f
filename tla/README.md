# CERNIQ: TLA+ models, model checking and proofs

CERNIQ produces asset-liability reports for cooperatives in Puerto Rico. The
system of record is one NestJS process (`src/backend-node`) over PostgreSQL,
deployed as a single replica (`railway.toml`, `numReplicas = 1`). Concurrency
comes from HTTP requests, from cron callbacks that start whether or not their
previous invocation has returned, from background promises, and from restarts.
JavaScript code between two `await`s runs without interruption; every `await`
on the database is a point where any other activity may run. That is the grain
of all the models here: **one step per database call**, with the synchronous
code around it.

1. [Inventory](#1-inventory)
2. [Modules](#2-modules)
3. [Runs, bounds and fairness](#3-runs-bounds-and-fairness)
4. [Where code and documentation disagree](#4-where-code-and-documentation-disagree)
5. [Proofs](#5-proofs)
6. [What is not modelled](#6-what-is-not-modelled)
7. [Plan](#7-plan)
8. [Running it](#8-running-it)

## 1. Inventory

Paths are below `src/backend-node/src/`.

| Component | State it keeps | Operations | What is hard | What makes it correct |
|---|---|---|---|---|
| Report pipeline (`pipeline/`) | `report_jobs` rows: status, processingStartedAt, retryCount, URLs; `Subscription.reportsUsed`; two PDFs in storage | `processQueue` every 2 min, `checkStalledJobs` every 5 min, `checkStuckJobs` hourly, admin force-advance, force-fail, force-regenerate | unclaimed reads, overlapping ticks, stale snapshots, restarts in mid-job, errors after completion | delivery only of what is stored; finished jobs stay finished; bounded retries; queued jobs settle; charges bounded by the passes through the queue |
| Data submission (`portal/portal.controller.ts`) | job status, balance sheet, encrypted CSV | `openReportCycle`, `submitData` | status checked once and written four times | a job leaves the customer's hands once |
| Agent queue (`queue/agent/`) | in memory: the waiting list, the counter of executions; in the database: the month's cost | `enqueue`, `drain`, `isAllowed` | check before await; slots released in a callback; runs past the queue; restart | best job first; slots bounded and never idle; a known overrun of the budget; an accepted job that is not overtaken is served |
| Agent runner, run rows, audit chain (`agents/runner/`) | `agent_runs` row, `agent_audit_logs` chain, deadline signal | `run`, `createOrReturnExisting`, `markRunning`, `complete`, `fail`, `timedOut`, `append`, `verifyChain` | racing idempotency keys, deadline at any await, failing audit writes, failing last writes, inputs that make no prompt | executed once per key; row and trail agree; finished is final; every used turn is billed |
| Tool registry (`agents/registry/`) | the map of tools | `invoke` with a timeout and the run's abort signal | late answers | always an answer, never an exception |
| Agent chains, event bus, triggers (`agents/`) | in memory: active chains; the event emitter | `startChain`, `onRunCompleted`, upload trigger, cron scans | events before registration, two chains waiting for the same agent | chains and bus are unreachable: nothing calls `startChain`, nothing emits; trigger and scans start runs past the queue |
| Billing, Stripe webhooks (`billing/`) | `subscriptions`, `processed_webhook_events`, `report_jobs`, `magic_links`, `email_sequences` | `handleWebhook` and its handlers, magic links | redelivery, marker before effect, crash in between, out-of-order events, users found and then created | each event takes effect once; a checkout that names its customer is served; a paid tier is kept |
| Demo seats (`portal/demo-seat*.ts`) | demo subscription, expiry, prospect row | provision, extend, sweep, remind | sweep against payment and extension; a prospect given to another contact | a paid tier is not overwritten; an expired seat a prospect refers to is closed |
| Email sequences (`email/email-sequence.processor.ts`, `billing/`) | `email_sequences` rows | tick every 5 minutes, `scheduleEmail`, daily notices | send before record, check before insert, overlapping ticks, a failing head of the queue, swallowed send errors | what is due is recorded; duplicates are bounded by the calls that overlap and the records lost |
| Balance-sheet data, report storage (`alm/`, `pipeline/report-storage.service.ts`) | balance sheet items, total, base curve; PDF store | imports, seeding, saving a curve; upload, purge after 90 days | replacement in separate calls | an import leaves one data set; there is a base curve |
| Sessions and passwords (`auth/`) | `refresh_tokens`, the password, lockout counters | login, refresh with rotation, logout, change and reset of the password | insert, count and evict are three calls; a change revokes in a second one; the master account's password is put back behind a login | the cap holds; nobody is signed out by signing in; a change or reset ends the sessions |
| Realtime (`realtime-alm/`, `realtime/`) | in memory: connections, subscriptions, last rates, metrics, alerts; thresholds also in a table | subscribe, poll cycle, latest rates, thresholds, progress events | shared "previous" reading, calls that outlive their connection, rejected writes that are swallowed | each move of a rate is handed on once; nothing stays behind; alerts have a threshold |
| Organizations (`organizations/`) | memberships and roles | create, add, remove, promote | count before delete, role checked before either | an admin remains |
| Early-warning snapshots (`alm/ews/`) | one row per institution and day, with its trend | daily and manual capture | the prior is read before the new row is stored; the day is taken after the calculation | a trend is against the snapshot before it |
| Shared infrastructure (`common/`, `cache/`, `queue/alm-compute.processor.ts`) | caches, rate limits, circuit-breaker state | middlewares, interceptors, background computation | | mostly not wired, see [section 6](#6-what-is-not-modelled) |
| ALM calculations | none of their own | pure numeric functions | floating point | out of TLC's reach |
| Clients and side services (`frontend`, `apple`, `services`) | none of the system of record | | | |

How they interact: a payment (webhook) or a demo seat writes the subscription and
creates a report job; the customer's submission imports figures and queues it;
the pipeline's cron picks it up, renders, stores, completes, charges, notifies and
schedules a follow-up mail. The sweeps and the admin endpoints write the same
rows. Agents are started by HTTP, by uploads and by cron, all of which call the
runner themselves; the queue calls it too, and its circuit breaker adds up the costs
of all runs. (No service but the queue's own module calls `enqueue` at this commit.) Sessions,
organizations, realtime metrics, early-warning snapshots and the replacement of an
institution's data share no state that anybody reads to decide on a write; they are
modelled one by one.

## 2. Modules

| Module | Stands for | Extended or used by |
|---|---|---|
| `ReportPipeline` | every writer of `ReportJob.status` | `MCReportPipeline`, `ReportPipelineProofs` |
| `AgentDispatch` | what the agent queue promises: an abstract specification | `AgentQueue` (refinement), `MCAgentDispatch`, `AgentDispatchProofs` |
| `AgentQueue` | `AgentQueueService` and the circuit breaker in front of it | `MCAgentQueue`, `AgentQueueProofs` |
| `AgentRun` | one execution of an agent: runner, row, audit chain | `MCAgentRun`, `AgentRunProofs` |
| `Subscription` | the three writers of a subscription: webhooks, seat provisioning, seat sweep | `MCSubscription`, `SubscriptionProofs` |
| `EmailSequence` | sequences and notices of one account | `MCServices`, `EmailSequenceProofs`, `ServiceProofs` |
| `InstitutionData` | imports of a balance sheet, saved base curves | `MCServices`, `MCInstitutionData`, `ServiceProofs` |
| `Sessions` | the sessions of one user | `MCServices`, `ServiceProofs` |
| `RealtimeAlm` | the realtime gateway, its feed and the moves it hands to recalculations | `MCServices`, `RealtimeAlmProofs`, `ServiceProofs` |
| `RateAlerts` | thresholds and alerts | `MCServices`, `ServiceProofs` |
| `Organizations` | the members of one organization | `MCServices`, `ServiceProofs` |
| `EwsCapture` | the daily snapshots of one institution | `MCServices`, `ServiceProofs` |
| `MCServices` | the last seven modules side by side for one run | `services.cfg`, `ServiceProofs` |

`MCServices` exists for TLC. Its services share no state, so their product
would say nothing their sum does not (`ServicesKeepToThemselves` proves that each
behaves there as its own specification says): the initial state picks one (`service`), and
only that one moves. Sequences and notices, which share the module's clock and
faults but no row, are picked separately, and so are the overlapping calls of
`scheduleEmail` (beside one tick) and the overlapping ticks (beside one of those
calls): a tick does not read what a scheduler holds, nor the other way round.

Mutants (`Mutant of X`) sit before the definitions they vary. Nothing refers to
them: each shows that a property is about the code, because the property fails
when the definition is replaced by it.

### ReportPipeline

`status`, `startedAt`, `retry` and `url` are columns of `report_jobs`.
`startedAt` keeps only whether thirty minutes have passed (`Age`). `stored`
says that both PDFs are in report storage; `told`, `used` and `ready` are the
gateway events, the increments of `reportsUsed` and the "report ready" emails a
job has caused: what the customer sees. `passes` is history: how often the job was put
into the queue, and how often an invocation read it there while another was between
reading and marking it (`Unmarked`). `wpc`/`wjob`, `seen` and `rpc`/`rjob`
are the local state of invocations in flight: the job a worker read, the
`retryCount` a sweep's snapshot holds for the jobs its loop has not reached, the
job a submission checked.

| Action | Code |
|---|---|
| `Pick` ... `Notify`, `Throw`, `Fail`, `FailLost` | the awaits of `processQueue` in order, its catch block, and that block's own update being rejected |
| `Scan`, `Requeue`, `GiveUp`, `SweepAborts` | `checkStalledJobs`, and for the sweeps in `HourlySweeps` `checkStuckJobs`, which does not clear `processingStartedAt` |
| `SubmitCheck` ... `SubmitQueue`, `SubmitThrows` | `submitData`; the file is unreadable, invalid or good |
| `ForceAdvance`, `ForceFail`, `ForceRegenerate` | the admin endpoints (the last also the control tower's `retry_pipeline_job`) |
| `CreateForCustomer`, `CreateForDemo` | the five places that insert a job, by initial status |
| `Crash` | restart: rows survive, invocations do not |

No update in the code is conditional on what was read before, and the model's
writes are not either. Whether data is found and whether a calculation throws is
left open (`Throw`).

### AgentDispatch and AgentQueue

`AgentQueue` has the code's data: the list `pending` kept sorted by
`findIndex`/`splice`, the counter `processing`, the `drain` loop in closed form
(it shifts as many jobs as there are free slots). Everything from the depth check
to the end of `drain` is synchronous and hence one step (`Enqueue`); so is the
`finally` callback (`Release`). `Check` is the awaited budget check.

`AgentDispatch` has no list and no counter: whenever jobs wait and slots are
free, the best waiting jobs take them. In both, `Direct` is the end of a run that was
started past the queue (`POST /agents/run`, the upload trigger, the scheduler): its
cost enters the same month. `bypassed` is history: what such runs have cost since a
check last let a job in. `NoCap` is the null cap, the breaker disabled. `AgentQueue!Implements` is the refinement:
`phase` is computed from the call, the list and the execution; `arrived` is
`enqueuedAt`. Jobs without an institution skip the check; they share the queue,
not the budget. The module covers one institution and one month: institutions
share nothing else.

### AgentRun

`row`, `root`, `billed` are the status, the anchor and the recorded usage of an
`agent_runs` row; `log` is its audit trail. `pc`, `step`, `lastHash`, `turns`,
`calls`, `final`, `aborted` are locals of `_execute`. A hash is abstracted to the
index of the entry it covers: `(runId, stepIndex)` is unique in the table, so the
index identifies the entry. Every append has a variant that is rejected, with the
code's consequence at that place: thrown to the caller before the try block and
inside the catch block, caught in between. `appendAudit` takes the index before
the write, so a rejected write consumes it (`LogRejected`). `Deadline` sets the
abort signal at any moment between the timer's start and its end; the language
model then rejects and the catch block takes the timeout branch, also if it was
entered for another reason. `PromptThrows`: `describeForLLM` and `buildUserMessage` run
after RUN_STARTED and before the try block; the latter throws for the CFO copilot when
`input.query` is missing (`cfo-copilot.definition.ts:35`), which the request's schema
allows.

### Subscription

The row of an account is `tier`, `status`, `customer`, `periodEnd`; `expires` and
`seated` are the columns of the prospects with its contact that seats use;
`marked`, `opened`, `sequences` are what events leave behind. `hpc`, `ppc`, `spc`
and the variables beside them are where each webhook handler, provisioning and
sweep is, and what it has read. Nothing in the code locks the row or conditions a
write on what was read, and neither does the model.

| Action | Code |
|---|---|
| `Claim` | `handleWebhook`: the marker, whose unique key turns the second of two deliveries away |
| `Entry` | where a handler begins; a checkout without an email or metadata (`anonymous`) is over at once |
| `Lookup`, `CreateUser`, `Upsert`, `Close`, `OpenJob`, `Onboard` | `handlePaymentComplete`, one step per database call that matters; the insert of a user somebody else has created meanwhile throws |
| `Find`, `Renew`, `OpenCycle`, `Dun`, `End`, `WinBack`, `Sync` | the handlers of invoices and of the customer's subscription |
| `HandlerThrows`, `CloseRejected` | a rejected call: it ends the handler, except in the try block of `closeConvertedDemoProspect` |
| `Provision`, `CheckProtected`, `CreateDemoUser`, `UpsertDemo`, `Trail` | `provisionFromProspect`, down to the prospect's row |
| `Reassign` | a provisioning of one of the prospects for another contact: `demoUserId` is overwritten |
| `SignUp` | somebody registers with the contact's email |
| `Scan`, `Check`, `Cancel`, `Proceed` | `sweepExpired`: prospects selected by `demoExpiresAt`, the subscription checked and then cancelled by user |

Several deliveries may carry one event, in any order. The content of an event is
chosen when it is read, so every sequence of contents is covered. A fault is a
rejected call or a restart; the deliveries after it find the marker and stop.

### EmailSequence

`rows`, `key`, `at`, `sent` are the table; `copies` counts the mails each row has
caused. A tick holds the rows it has read (`holds`) and mails and records them one
by one (`firing`); `wants` is the key a `scheduleEmail` found no row of; `noticing`
the place of a cron that mails first and inserts its row afterwards. The mailer
never rejects (every method of `EmailService` catches), so `copies` counts attempts: a
send that failed is recorded like one that did not, and nothing here says that a
mail arrives.

### InstitutionData

An import is of one of three kinds: `importBalanceSheetItems` (delete, create,
total), the document and free-form CSV ingests (delete, create), the seed (one
transaction). Its rows stay together, so its name stands for them. Saving a curve
unsets every base and creates a new one.

### Sessions

A session is the number of its row in the order of `createdAt`: the cap evicts the
oldest of a list. `cpc`, `from`, `under`, `view` are the place, the session
refreshed, the password the user was read with and the list counted by each login
or refresh; they are cleared where the call no longer needs them. `drifted` says that
the user is the master account and its password not the configured one; then
`ensureMasterAccountProvisioned` (from `login`, `requestPasswordReset` or
`resolveApplicationUser`) finds the difference (`FindDrift`) and in a later call
writes the configured password back, ending no session (`ProvisionMaster`). `late`, `behind`
and `unended` are history, for the exceptions the properties name.

### RealtimeAlm and RateAlerts

`RealtimeAlm`: one rate stands for all, fetched the way SOFR is: a reply is the rate,
the demo value, or nothing (`Reply`). Whoever fetches becomes the fetch "before" of
the next one; a cycle calls `recalculateOnRateChange` for every institution somebody
is subscribed to. `handed` is the sum of the moves an institution's recalculations were
handed. What a recalculation makes of them (the average over the rates with a former
value, rounding, a metric at 0 that restarts from its default) is not followed and
nothing is claimed of it. `asking` is a subscribe call that waits for the ownership
check. `Recalculate` is one step.

`RateAlerts`: a threshold is in a map of the process (`mem`) and, as far as the
database accepts it, in a table (`row`); the map is consulted only when the table
has no row at all of the institution (`others`). `removing` and `stray` are
history.

### Organizations

`role` is the table of memberships. Every call checks its caller first (`Admit`),
possibly looks once more (`LookForMember`, `CountAdmins`) and writes last. A
refusal, a rejected call and a restart all end a call without a trace (`Refused`).
`weakened` is history: the calls that saw an admin lose the role.

### EwsCapture

A snapshot keeps its band, the day it is compared with and the band of that day;
the composite score, the indicators and the alerts follow from the same two rows
and are abstracted to the band. A capture computes, takes the date, finds the
prior and stores; `Midnight` may pass anywhere. Captures of one day overwrite each
other.

## 3. Runs, bounds and fairness

| Run | Instance | Shows |
|---|---|---|
| `pipeline_races` | 1 job, 2 workers, 2 submissions, both sweeps, 1 admin call, 2 retries, no fault; 3.0 million states | `TypeOK`, `DeliveredIsStored`, `RetryBounded`, `ChargesBounded`, `SettledIsFinal` |
| `pipeline_live` | 2 jobs, 1 worker, 1 sweep, 1 submission, 1 fault, 1 retry, `FairSpec` | `ChargedForDelivery`, `QueuedSettles` |
| `pipeline_revert` | 1 job, 1 worker | `CompleteIsKept` fails |
| `dispatch_budget` | 5 jobs of one institution, 2 slots, depth 1, 1 caller, 1 crash, cap 1, cost up to 2, runs past the queue until they have cost 2; 3.1 million states | `TypeOK`, `OverrunBounded` |
| `queue_dispatch` | 5 jobs of 3 priorities, 1 slot, depth 3, 1 crash, 1 run past the queue, `FairSpec` | `TypeOK`, `PendingOrdered`, `SlotsWellUsed`, `Implements`, `AcceptedIsServed` |
| `run_races` | 2 calls with one key, 2 turns, 2 tool calls, 2 faults, `FairSpec` | `TypeOK`, `ExecutedOnce`, `ChainLinked`, `OutcomeAnchored`, `TurnsAreBilled`, `FinishedIsFinal`, `StartedFinishes` |
| `run_chain`, `run_audit_failure` | 1 call, 1 fault | `ChainVerifies`, `AuditFailureEndsRun` fail |
| `seats` | a checkout delivered twice, one event of any other kind, 1 prospect, 1 provisioning, 1 sweep, 2 days, 1 fault, the user there or not, `FairSpec`; 1.4 million states | `TypeOK`, `AppliedOnce`, `PaidIsKept`, `CheckoutServed`, `ExpiredSeatCloses` |
| `seats_sweep` | a checkout, 2 prospects, 1 provisioning, 1 sweep, no fault | `SweepKeepsToExpiredDemos` fails |
| `services` | see below; 0.9 million states, `FairSpec` | `ServicesTypeOK` and, per service, the properties below |
| `data_overlap` | 2 imports, no fault | `ImportReplaces` fails |

The instances in `services`:

| Service | Instance | Properties |
|---|---|---|
| sequences | 2 schedulers and 1 tick, 1 scheduler and 2 ticks; batches of 1, 3 rows, 1 hour, 1 fault | `CopiesBounded`, `RepeatsBounded`, `DueIsRecorded` |
| imports, curves | 3 imports, one of each kind, 3 saves, 1 fault | `SheetIsLastImport`, `BaseIsNewest` |
| sessions | 2 calls, cap 1, 3 sessions, 1 new password, 1 fault | `SessionCap`, `NewestStay`, `PasswordEndsSessions` |
| realtime | 1 client, 1 institution, 1 cycle, 1 reader, a rate of 2 values, 2 moves or demo replies, 1 read, 1 restart | `LittleIsLeftBehind`, `RatesAddUp` |
| alerts | 2 writers, 2 checks | `AlertsHaveThreshold` |
| organization | 3 users, 2 calls | `LastAdminStays` |
| early warning | 2 captures, 2 results, 3 days | `TrendIsAgainstPrior` |

What the properties say, beyond their names:

* `DeliveredIsStored`: COMPLETE, the complete event, the charge and the email
  come after both PDFs are stored. Overlapping ticks, stale sweeps and admins do
  reorder a job's statuses, so this needs an argument.
* `SettledIsFinal`: once no invocation holds an old reference to a finished job,
  no query selects it again; the overwriting that unconditional updates allow ends
  with the invocations that had read the job before.
* `RetryBounded`: two sweeps can both act on the same `retryCount`; the overshoot
  is at most one per additional sweep in flight.
* `ChargesBounded`: nothing claims a queued row, so two ticks of the two-minute cron
  can both deliver and charge it. The charges of a job never exceed its `passes`: once
  for each time it was queued, by a submission, a reset or an admin, and once for each
  invocation that read it while another was between reading and marking. Invocations
  that overlap later add nothing.
* `ChargedForDelivery`: what one invocation of each kind at a time promises, whatever
  fails: a job no sweep has reset is charged once and only if it was delivered. It
  does not hold of overlapping ticks, which is why `ChargesBounded` is checked of them
  and proved.
* `OverrunBounded`: the budget check sees only what finished runs have cost. Jobs of the
  queue overrun the cap by the full cost of the callers between check and queue, the
  waiting jobs and the running jobs, and by no more. Runs past the queue have no
  bound in the code; what they have cost since a check last let a job in is added.
* `SlotsWellUsed`: the pool in terms of the executions and not of the counter that
  `enqueue` and the `finally` callback move up and down.
* `AcceptedIsServed`: an accepted job ends or is lost in a restart, unless jobs of
  higher priority join after it (`Overtaken`). The list knows no aging
  (`agent-queue.service.ts:132`), so a steady stream of these starves it; the
  exception is the code's.
* `OutcomeAnchored`: a final row agrees with the kind of the trail's last entry
  and, unless the run timed out, its anchor is that entry's hash. `complete`
  failing after `RUN_COMPLETED` was appended, for one, does not break it.
* `TurnsAreBilled`: every end of a run records the turns in the trail, and at most
  one more, whose entry was rejected.
* `AppliedOnce`, `CheckoutServed`: two sides of the marker. It is written before
  the handler runs, so no duplicate can apply an event twice; without a fault every
  marked checkout that names its customer is served, in any order of events, unless
  its handler found no user and lost the race to create one (`collided`). After a
  fault or that race it is lost for good.
* `PaidIsKept`: neither a provisioning nor a sweep takes away what was paid for,
  except one that had read the row before the payment and was yet to write it
  (`exposed`). That exception is real (`seats_sweep`).
* `ExpiredSeatCloses`: sweeps select by the prospect and cancel by the
  subscription, two copies of the expiry that a provisioning writes far apart; a
  seat is nevertheless closed, unless a fault lost the second write, the account's
  prospects were all given to other contacts, or a payment crossed.
* `CopiesBounded`, `RepeatsBounded`: a mail goes out before its record. What limits
  the copies is the number of calls that overlap and of records lost.
* `DueIsRecorded`: a due row is recorded as sent in the end, behind any failing head of
  the queue. Whether its mail was accepted nobody can tell afterwards: `EmailService`
  swallows the error (`email.service.ts:129`) and the processor writes `sentAt`.
* `SheetIsLastImport`: the repair rule. Whatever overlapping or lost imports have
  left, the next that runs alone owns the sheet and the total it writes.
* `SessionCap`, `NewestStay`: every call evicts from a list that may be stale. The
  cap holds whenever no call is between insert and eviction, and no eviction ends
  one of the newest `Cap` sessions.
* `PasswordEndsSessions`: an active session was opened under the present password, or
  by a call that had read the user before, or something has yet to revoke it, or
  nothing will: after a fault, or when the provisioning of the master account replaced
  the password.
* `RatesAddUp`: every move of the published rate since an institution's first
  recalculation is handed to exactly one of its recalculations, except the moves
  published by other readers' fetches or while nobody was subscribed (`missed`). Moves
  to the demo value and back are moves like others.
* `AlertsHaveThreshold`: map, table and alerts drift apart with every rejected
  write; only a check that shares time with a removal raises an alert of nothing.
* `LastAdminStays`: a removal never takes the last admin, unless another admin
  lost the role during it, or a role change does it, which does not look.
* `TrendIsAgainstPrior`: captures of a day overwrite each other and read the prior
  before they store. Only one that midnight has overtaken leaves a later trend
  against a row that has changed since.

Bounds and why they are enough. The invocations of the pipeline interact only
through one job's row and their own locals; two of a kind already show every
race between two reads and writes, without the fault that `pipeline_live` adds, and
the proofs in section 5 cover any number. Two jobs are used where the choice of the oldest matters. `MaxCount` = 2
distinguishes "once" from "more than once". Five jobs of three priorities fill
a slot and a list of three, which has a middle, and one is rejected. Two turns and
two tool calls reach both ways out of the turn loop, with a rejected append at each
place; two faults let the catch block fail as well. In `seats` the second delivery
of the checkout and the event of any kind give both a duplicate and every pair of
events in both orders; two days let a seat expire and be extended. Batches of one
make a failing head of the queue matter. With a cap of one session, three sessions
and two calls, the list a call evicts from can be older than both the other call's
insert and its eviction. Two users would show two admins removing each other, the
third a removal by a bystander. Three days separate "the day before" from "an
earlier day". `MaxFaults`, `MaxMailFaults`, `MaxDataFaults`, `MaxAuthFaults`,
`MaxRestarts`, `MaxAdmin`, `MaxCrashes`, `MaxCallers`, `MaxCost`, `MaxBypassed`, `MaxRows`,
`MaxClock`, `MaxSessions`, `MaxPasswords`, `MaxRate`, `MaxMoves`, `MaxReads`,
`MaxNow` and `MaxDay` bound the environment. `MaxRetries` is 3 in the code; the sweeps
compare it with `retryCount` only, and 2 lets them reset, overshoot and give up.
Deadlock checking is off everywhere: all behaviours end when the inputs and the faults are used up. `pipeline_races`
uses the symmetry of workers and submissions; the sweeps differ in their code and
are not symmetric. No temporal property is checked with symmetry other than the
action property of that run, whose formula treats the invocations alike.

Fairness. `ReportPipeline!FairSpec`: weak fairness of each worker, sweep and
submission, and of `Age`: an awaited database call settles, a due cron callback is
called, time passes. No customer and no admin is assumed to act.
`AgentQueue!FairSpec` and `AgentRun!FairSpec`: an awaited call settles. For tool
calls and model requests the code itself makes sure (`runWithTimeout` and the
deadline's signal). `Subscription!FairSpec`: provisionings and sweeps that
have begun go on, and the hourly sweep starts; nothing is assumed of webhooks.
`MCServices!FairSpec`: a tick of the sequences starts and goes on. No action is strongly fair.

The liveness properties name their exceptions, all of them real: a job whose
invocation was lost in GENERATING_PDF or UPLOADING, which no sweep selects
(`QueuedSettles`); a job that others overtake (`AcceptedIsServed`); a run with a rejected
call, a restart, or an input its agent makes no prompt of (`StartedFinishes`); a seat
whose second write was lost, whose prospects point elsewhere or that a payment
crossed (`ExpiredSeatCloses`).

## 4. Where code and documentation disagree

Each of these has a run whose property states the documented behaviour and which
TLC violates.

* `pipeline_revert`: "failure here must NOT revert the COMPLETE status"
  (`pipeline.worker.ts:239`). The increment of `reportsUsed` before that line can
  fail and does revert it.
* `run_chain`: a rejected append leaves a gap that `verifyChain` reports as
  tampering, though every link is intact (`ChainLinked` holds).
* `run_audit_failure`: "Audit write failure = run fails" (`.cerniq/CONTRACTS.md:10`).
  The run stays RUNNING when the failing write is the first one or the one in
  the catch block.
* `seats_sweep`: the sweep promises to touch only demo subscriptions past their
  end. It cancels by user after a separate check, so a payment in between is
  cancelled, and a seat extended through another prospect is cut short.
* `data_overlap`: "Delete existing items and replace"
  (`alm-enterprise.service.ts:330`). Two imports that overlap both delete and then
  both create.

Met while modelling and left without a run of their own:

* Two overlapping `processQueue` ticks take the same unclaimed job through the life
  cycle of `docs/DATABASE.md:78` backwards, deliver it twice and charge it twice; so do
  two submissions that both found the job waiting (`ChargesBounded` counts both).
* "max 3 retries" (`docs/ops/railway_env_vars.md:125`): the hourly and the
  five-minute sweep start together on every full hour and overshoot
  (`RetryBounded` says by how much).
* `RunResult.status` is a final status by its type (`agent-runner.service.ts:33`); a
  replay of a key in flight answers QUEUED or RUNNING (`:132`).
* The budget comment (`agent-queue.service.ts:14`) promises to reject runs that
  would exceed the budget, which `OverrunBounded` puts into numbers; `POST /agents/run`
  and the upload trigger do not ask it at all.
* A waiting agent job of low priority is starved by a steady stream of better ones.
* An agent whose `buildUserMessage` throws for the input leaves its row RUNNING, and
  its key answers with that row ever after.
* A checkout without an email is marked as processed and opens nothing; one whose
  user is created by somebody else between the search and the insert is lost.
* "preserves the user" (`demo-seat.service.ts:102`): a provisioning for another contact
  email points the prospect to another user, and no sweep finds the former's seat.
* The provisioning of the master account puts its password back and leaves the
  sessions opened under the other one.
* `docs/ops/disaster_recovery.md:273` says pending agent runs resume on boot; the
  queue is in memory and nothing reads it back (`AcceptedIsServed` allows "lost").
* The ingests of documents and free-form CSV leave `totalAssets` as it was, and a
  document without a valid item empties the balance sheet.
* The welcome mail `B1` is scheduled but `fireSequence` has no case for it;
  `cancelSequences` has no caller; the survey's window of four hours around the
  fiftieth, met by a daily cron, reaches one in six.
* "running twice a day is a no-op" (`demo-seat.service.ts:424`): true unless the two
  overlap or the record of the first was rejected (`RepeatsBounded`).
* A reader of the latest rates between two cycles consumes a move of the rate, so
  no institution is recalculated for it; a fetch that falls back on the demo rate is a
  move of the rate, there and back; a WARN alert stays when a BREACH follows.
* "Prevent removing the last admin" (`organizations.service.ts:201`):
  `updateMemberRole` demotes the last admin, and two overlapping removals remove the
  last two (`LastAdminStays` names both).

## 5. Proofs

Checked by TLAPS for every value of the constants that satisfies the named
assumptions of the modules.

| Theorem | Statement | Argument |
|---|---|---|
| `ReportPipelineProofs!TypeCorrect` | `Spec => []TypeOK` | inductive as it stands |
| `RetriesAreBounded` | `Spec => []RetryBounded` | `RetryBounded` is not inductive: nothing limits a sweep that still has a reset to do. The invariant counts, for each job, the sweeps that hold a snapshot allowing one more reset (`Resetting`); each reset removes one of them |
| `DeliveryIsStored` | `Spec => []DeliveredIsStored` | strengthened by what each worker's place implies: past `Upload` the files are stored, past `Complete` the URLs are written; both are never undone |
| `SettledStays` | `Spec => SettledIsFinal` | the guards of the three queries, one case per action |
| `ChargesStayBounded` | `Spec => []ChargesBounded` | `PassInv`: the charges of a job, the invocations at work on it short of the count (`Active`) and those that have read but not marked it (`Unmarked`) are together at most its passes (`Owed`), and fewer when the row lies in the queue read by nobody. Being queued and a doubled read add a pass; a first read uses the spare one; every other step of an invocation moves it from one summand to the next or out of them |
| `AgentDispatchProofs!TypeCorrect` | `Spec => []TypeOK` | uniqueness of places from `arrived[t] <= joins` |
| `OverrunIsBounded` | `Spec => []OverrunBounded` | `BudgetInv`: the month's sum plus the full cost of every admitted, unpaid job stays within the cap, one window and what has bypassed the queue since the last admission. An admission happens below the cap and the pools bound its growth; a charge moves cost from one summand to the other; a run past the queue adds to both sides |
| `AgentQueueProofs!TypeCorrect` | `Spec => []TypeOK` | `QueueInv`, see below; shifting n jobs off a list without repetition leaves it so and adds n executions (`ShiftIs`, `SizeOfDisjoint`) |
| `PendingStaysOrdered` | `Spec => []PendingOrdered` | `InsertSorted`: before the place `findIndex` gives, nothing has less priority; behind it, by the order of the list, everything has; a new job's place in time is the last. `ShiftSorted` for the drain |
| `QueueImplementsDispatch` | `Spec => Implements` | one lemma per action. What is shifted precedes what stays, so it is a best choice; the counter tells how many slots are free; jobs shifted in the step of their insertion were never seen to wait |
| `SlotsStayWellUsed` | `Spec => []SlotsWellUsed` | `SlotsFull`: a drain ends with the counter at `Concurrency` or the list empty, and no other step fills the list or lowers the counter, but a restart, which empties both |
| `AgentRunProofs!TypeCorrect` | `Spec => []TypeOK` | inductive |
| `KeysAreExecutedOnce` | `Spec => []ExecutedOnce` | `Ownership`: past `Create` a key has one owner and its row exists, so every other call is turned to the replay |
| `OutcomesAreAnchored` | `Spec => []OutcomeAnchored` | `AnchorInv`: with ownership, the owner's place determines the last entry of its trail and that `lastHash` is its index |
| `FinishedStays` | `Spec => FinishedIsFinal` | ownership again: the owner of a finished row has returned |
| `ChainsAreLinked`, `RunsAreBilled` | `Spec => []ChainLinked`, `Spec => []TurnsAreBilled` | `TrailInv`: the last hash of an active call is that of its trail's last entry, whose index is smaller than the next; its turns exceed those in the trail by the one it is about to log or failed to |
| `SubscriptionProofs!TypeCorrect` | `Spec => []TypeOK` | inductive |
| `EventsAreAppliedOnce` | `Spec => []AppliedOnce` | the marker gives an event one handler; until that has opened its job the count is 0 |
| `CheckoutsAreServed` | `Spec => []CheckoutServed` | without a fault the one handler of a marked checkout that names its customer is at work, or past the step that opens the job and the one that schedules, or has collided |
| `PaidTiersAreKept` | `Spec => []PaidIsKept` | while nobody is exposed, no provisioning past its check and no sweep about to cancel has read less than the payment wrote |
| `EmailSequenceProofs!EmailTypeCorrect` | `Spec => []EmailTypeOK` | inductive |
| `CopiesAreBounded` | `=> []CopiesBounded` | the copies of a row and the ticks that still hold it are counted together, as disjoint sets: a tick that reads an unsent row adds one, a record or a fault takes away what allows the next |
| `RepeatsAreBounded` | `=> []RepeatsBounded` | the same for rows and the schedulers that found none, and for notices |
| `ServiceProofs!SessionTypeCorrect` | `=> []SessionTypeOK` | inductive |
| `SessionsAreCapped` | `=> []SessionCap` | `SomeoneCuts`: once nobody has yet to count, someone holds a list of all active sessions, or the cap holds, or a fault excuses it |
| `NewestAreKept` | `=> NewestStay` | what a list's `Oldest` drops has `Cap` newer sessions in the list, so at least `Cap` were stored after it; the lemma on the least element carries the count |
| `PasswordsEndSessions` | `=> []PasswordEndsSessions` | inductive with the passwords the calls in flight hold; what ends no session says so in `unended` |
| `RealtimeAlmProofs!RealtimeTypeCorrect` | `=> []RealtimeTypeOK` | inductive |
| `LittleStays` | `=> []LittleIsLeftBehind` | with the institutions an ended connection is still asking for |
| `MovesAddUp` | `=> []RatesAddUp` | `Accounted`, at any time: moves handed on, moves missed and the one a cycle has pending are all there has been. `Alone`: without overlap there is one fetch, which started from what is in the cache, and one cycle |
| `ServiceProofs!DataTypeCorrect` | `=> []DataTypeOK` | inductive |
| `LastImportWins` | `=> []SheetIsLastImport` | `OwnSheet`: an import that has met no other is the only one under way, and its place determines the sheet |
| `NewestIsBase` | `=> []BaseIsNewest` | the newest curve is a base, or a save is between its two calls |
| `LastAdminIsKept` | `=> LastAdminStays` | `Backed`: a removal that has seen no admin lose the role has its caller as an admin and, once cleared, another one. `AdminsStay`: a write that leaves a call unweakened takes no role away |
| `AlertsAreFounded` | `=> []AlertsHaveThreshold` | no removal from the table is pending while a check outside `removing` runs, nor while an alert outside `stray` is active |
| `TrendsAreAgainstPriors` | `=> []TrendIsAgainstPrior` | the same holds of a capture about to store; a store changes only what later days see, and marks those |
| `ServicesKeepToThemselves` | `Spec =>` each service's specification | a step of the run is one of the service chosen and leaves the variables of the others alone |
| `ServicesAreTyped` | `Spec => []ServicesTypeOK` | from the previous and the type theorem, or the invariant, of each service |

`AgentQueue`'s types are not inductive by themselves: a job that ran without having
been accepted could be queued again, and a counter above `Concurrency` would make the
drain loop take a negative number. `QueueInv` therefore adds that only accepted jobs
have run and that the counter is at most `Concurrency`; the order of the list needs
that no place in time exceeds the number of insertions. With it the refinement needs
no history and no prophecy: `phase` is a function of `call`, `pending` and `run`. The
slots are proved of the list and the counter themselves. The bound on the overrun is
proved of `AgentDispatch` and holds of `AgentQueue` by the refinement, for the same
constants and under the same assumptions; that last step is not a checked theorem,
because tlapm cannot use a theorem of an instantiated module under a substitution.

`ChargedForDelivery` is not a theorem of `Spec`: nothing in the code keeps two ticks of
the two-minute cron apart, and two that work on one job charge it twice.
`ChargesStayBounded` is what holds without an assumption, for any number of workers,
sweeps, submissions, admin calls and faults; it needs the set of workers to be finite
(`WorkersAssumption`), because it counts them.

Only model-checked: the liveness properties `QueuedSettles`, `AcceptedIsServed`,
`StartedFinishes`, `ExpiredSeatCloses` and `DueIsRecorded`, whose fairness needs ENABLED,
and `ChargedForDelivery`, which holds of one scheduler of each kind. Every other property
of a passing run is a theorem. Properties that the code violates have none.

## 6. What is not modelled

The contents of reports and answers, the calculations behind them, the layout
of messages, logging and metrics. The process dying between a database commit and
its acknowledgement is covered as a step followed by a restart. A database call that
takes effect and is reported as rejected is not. Several replicas are not: the
deployment has one. `processQueue` catching a missing `report_jobs` table, a
deployment state, is left out. Artifact rows are written in a try block of their
own and have no effect on the job.

* Agent chains and the event bus: unreachable, see section 1. The upload trigger and the
  scheduler appear as the cost of the runs they start (`Direct`); what they decide to
  start is not modelled.
* What a recalculation makes of a move, and whether a mail arrives: see section 2.
* Shared infrastructure: `CircuitBreakerService`, the idempotency middleware and
  interceptor, the request deduplication and the compute queue are declared but no
  route or service of the assembled application uses them. Data retention
  (`runRetentionPolicy`) has no cron. Batches of the enterprise API are created and
  never worked on.
* Magic links and password reset tokens: one row that is read and then marked; two
  simultaneous uses both succeed, and nothing else depends on it.
* `openReportCycle` looks for an open job and then creates one. Nothing in the code
  bounds the open cycles of a customer, so there is no property to lose;
  `ReportPipeline` lets any number of jobs be open.
* The storage of reports and the purge after 90 days, which touches finished jobs
  only; checkout creation, disputes and refunds, which only log and alert.
* Governance (benchmarks, scenarios, models): check-then-update on one row without
  a second reader. Leads, GTM runs and side services: outside the product's path.
* Loan tapes, member books and the summary of an analysis replace their rows in one
  transaction; there is nothing to interleave.
* The ALM calculations: floating point over large inputs, out of TLC's reach. The
  clients keep no state of the system of record.

## 7. Plan

1. Done: the modules of section 2 and the proofs of section 5.
2. Done: the safety and action properties of the passing runs are proved, but for
   `ChargedForDelivery`, and `AgentQueue` implements `AgentDispatch`.
3. `AgentFleet`: `AgentQueue` whose executions are `AgentRun`s, so that the cost
   written by the run is what the breaker adds up.
4. The purge of raw data against `ReportPipeline`'s regeneration of a report.

## 8. Running it

    tlc -config pipeline_races.cfg MCReportPipeline.tla
    tlapm AgentRunProofs.tla

Each cfg belongs to the MC module of its component; `PROJECT.json` lists the pairs,
the source lines behind every definition (`map`), the hazards of the code with the
properties that would catch them, and the mutants.

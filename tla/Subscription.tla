---------------------------- MODULE Subscription ----------------------------
(***************************************************************************)
(* The subscription of one account and the three parties that write it     *)
(* without a lock or a condition: the handlers of the Stripe webhooks      *)
(* (BillingController.handleWebhook, BillingService), the provisioning of  *)
(* a demo seat and the hourly sweep of expired seats (DemoSeatService).    *)
(*                                                                         *)
(* Deliveries are requests to the webhook; Stripe repeats and reorders     *)
(* events, so several deliveries may carry one event.  Prospects are the   *)
(* prospect institutions whose contact is this account.  Every call of the *)
(* database is one step; calls that only read what cannot change (a user   *)
(* once there is one, the workspace) go with the step that follows them.   *)
(* The content of an event is chosen when it is read.  An email never      *)
(* rejects (every method of EmailService catches), so mails are left out   *)
(* but for the rows scheduleEmail adds.  Tiers 'annual' and 'partner' are  *)
(* protected and renewed as 'monthly' is, but for the job a partner's      *)
(* invoice does not open.                                                  *)
(***************************************************************************)
EXTENDS Integers, FiniteSets

CONSTANTS Deliveries,   \* requests to api/billing/webhook
          Events,       \* ids of Stripe events
          EventOf,      \* the event each delivery carries
          KindsOf,      \* the kinds an event may be of
          Prospects,    \* rows of prospect_institutions with this contact
          Provisions,   \* concurrent calls of provisionFromProspect
          Sweeps,       \* concurrent calls of sweepExpired
          MaxNow,       \* bound: days that pass
          MaxFaults     \* bound: rejected database calls and crashes

Kinds == {"monthly", "one_time", "anonymous",      \* checkout.session.completed
          "invoice_paid", "invoice_failed", "deleted",
          "synced"}                \* customer.subscription.created and updated

ASSUME EventsAssumption ==
  /\ EventOf \in [Deliveries -> Events]
  /\ KindsOf \in [Events -> SUBSET Kinds]
ASSUME BoundsAssumption == MaxNow \in Nat /\ MaxFaults \in Nat

VARIABLES user,        \* the contact's email has a row of users
          tier,        \* Subscription.tier, or "none" before there is a row
          status,      \* Subscription.status
          customer,    \* stripeCustomerId is set
          periodEnd,   \* currentPeriodEnd
          expires,     \* demoExpiresAt of each prospect of this account
          seated,      \* the prospects whose demoUserId is this account
          marked,      \* rows of processed_webhook_events
          kind,        \* what each event is about
          opened,      \* report jobs each event has opened
          sequences,   \* sequences scheduled for the account
          hpc, hsaw, hend,  \* where each webhook handler is, the tier and the
                            \* period's end it read
          ppc, pfor, pend,  \* each provisioning: its prospect and expiresAt
          spc, todo,   \* each sweep and the expired prospects it has left
          now,
          bought,      \* history: a checkout has written its paid tier
          exposed,     \* history: ... while a party held an older reading of it
          collided,    \* history: events whose handler lost the race to create
                       \* the user
          faultsLeft

subscriptionRow == <<tier, status, customer, periodEnd>>
prospectRows == <<expires, seated>>
eventRows == <<marked, opened, sequences>>
readings == <<hsaw, hend>>
handlers == <<hpc, readings>>
provisions == <<ppc, pfor, pend>>
sweeps == <<spc, todo>>
history == <<bought, exposed, collided>>
vars == <<user, subscriptionRow, prospectRows, eventRows, kind, handlers, provisions,
          sweeps, now, history, faultsLeft>>

-----------------------------------------------------------------------------
NoEnd == -1                                   \* a null date
Ttl == 1                                      \* days of a demo seat
Period == 1                                   \* days of a paid period

PaidTiers == {"one_time", "monthly"}          \* PROTECTED_TIERS
Tiers == {"none", "demo"} \cup PaidTiers
Statuses == {"active", "past_due", "grace_period", "cancelled"}
Dates == {NoEnd} \cup 0 .. MaxNow + Ttl + Period
Checkouts == {"monthly", "one_time"}          \* those that name their customer

HandlerPC == {"new", "lookup", "create", "upsert", "close", "job", "mail",
              "find", "renew", "cycle", "dun", "end", "winback", "sync", "done"}
Working == HandlerPC \ {"new", "done"}

TypeOK ==
  /\ user \in BOOLEAN /\ collided \subseteq Events
  /\ tier \in Tiers /\ status \in Statuses /\ customer \in BOOLEAN
  /\ periodEnd \in Dates
  /\ expires \in [Prospects -> Dates] /\ seated \subseteq Prospects
  /\ marked \subseteq Events /\ kind \in [Events -> Kinds]
  /\ opened \in [Events -> Nat] /\ sequences \subseteq {"B", "D5"}
  /\ hpc \in [Deliveries -> HandlerPC] /\ hsaw \in [Deliveries -> Tiers]
  /\ hend \in [Deliveries -> Dates]
  /\ ppc \in [Provisions -> {"idle", "read", "create", "seat", "trail"}]
  /\ pfor \in [Provisions -> Prospects] /\ pend \in [Provisions -> Dates]
  /\ spc \in [Sweeps -> {"idle", "read", "cancel"}]
  /\ todo \in [Sweeps -> SUBSET Prospects]
  /\ \A s \in Sweeps : spc[s] = "idle" <=> todo[s] = {}
  /\ now \in 0 .. MaxNow
  /\ bought \in BOOLEAN /\ exposed \in BOOLEAN
  /\ faultsLeft \in 0 .. MaxFaults

Init ==
  /\ user \in BOOLEAN
  /\ tier = "none" /\ status = "active" /\ customer = FALSE
  /\ periodEnd = NoEnd
  /\ expires = [p \in Prospects |-> NoEnd] /\ seated = {}
  /\ marked = {} /\ kind \in {k \in [Events -> Kinds] :
                                \A e \in Events : k[e] \in KindsOf[e]}
  /\ opened = [e \in Events |-> 0] /\ sequences = {}
  /\ hpc = [d \in Deliveries |-> "new"] /\ hsaw = [d \in Deliveries |-> "none"]
  /\ hend = [d \in Deliveries |-> NoEnd]
  /\ ppc = [q \in Provisions |-> "idle"]
  /\ pfor \in [Provisions -> Prospects] /\ pend = [q \in Provisions |-> NoEnd]
  /\ spc = [s \in Sweeps |-> "idle"] /\ todo = [s \in Sweeps |-> {}]
  /\ now = 0
  /\ bought = FALSE /\ exposed = FALSE /\ collided = {}
  /\ faultsLeft = MaxFaults

-----------------------------------------------------------------------------
\* Webhook handlers.

HandlerGoes(d, from, to) == hpc[d] = from /\ hpc' = [hpc EXCEPT ![d] = to]

\* Where the handler of an event begins: that of a checkout whose session has
\* no customer_email or no metadata is over at once.
Entry(k) ==
  IF k \in Checkouts THEN "lookup" ELSE
  IF k = "anonymous" THEN "done" ELSE "find"

\* Where the handlers that look for the customer's row write it.
Writer(k) ==
  IF k = "invoice_paid" THEN "renew" ELSE
  IF k = "invoice_failed" THEN "dun" ELSE
  IF k = "deleted" THEN "end" ELSE "sync"

\* Mutant of Claim: the marker is looked for nowhere.
ClaimAnyhow(d) ==
  /\ HandlerGoes(d, "new", Entry(kind[EventOf[d]]))
  /\ marked' = marked \cup {EventOf[d]}
  /\ UNCHANGED <<user, subscriptionRow, prospectRows, opened, sequences, kind,
                 readings, provisions, sweeps, now, history, faultsLeft>>

\* The marker of the event is inserted first: the unique id lets one delivery
\* through.  (A rejected insert answers 500 and changes nothing.)
Claim(d) ==
  LET e == EventOf[d] IN
  /\ hpc[d] = "new"
  /\ IF e \in marked
     THEN hpc' = [hpc EXCEPT ![d] = "done"] /\ UNCHANGED marked
     ELSE /\ marked' = marked \cup {e}
          /\ hpc' = [hpc EXCEPT ![d] = Entry(kind[e])]
  /\ UNCHANGED <<user, subscriptionRow, prospectRows, opened, sequences, kind,
                 readings, provisions, sweeps, now, history, faultsLeft>>

\* handlePaymentComplete: the user is looked for by email and, once there is
\* one, the row is read to tell a conversion from a signup.
Lookup(d) ==
  /\ HandlerGoes(d, "lookup", IF user THEN "upsert" ELSE "create")
  /\ hsaw' = IF user THEN [hsaw EXCEPT ![d] = tier] ELSE hsaw
  /\ UNCHANGED <<user, subscriptionRow, prospectRows, eventRows, kind, hend,
                 provisions, sweeps, now, history, faultsLeft>>

\* The user that was not found is created; the unique email rejects the call if
\* someone else has created it meanwhile, and the handler throws.
CreateUser(d) ==
  /\ HandlerGoes(d, "create", IF user THEN "done" ELSE "lookup")
  /\ user' = TRUE
  /\ collided' = IF user THEN collided \cup {EventOf[d]} ELSE collided
  /\ UNCHANGED <<subscriptionRow, prospectRows, eventRows, kind, readings,
                 provisions, sweeps, now, bought, exposed, faultsLeft>>

\* A party that read the row before this payment and has yet to write it.
StaleReaders == {q \in Provisions : ppc[q] = "seat"}
                  \cup {s \in Sweeps : spc[s] = "cancel"}

\* A checkout of mode 'payment' has no customer and clears the link to one.
Upsert(d) ==
  LET k == kind[EventOf[d]] IN
  /\ HandlerGoes(d, "upsert", IF hsaw[d] = "demo" THEN "close" ELSE "job")
  /\ hsaw' = [hsaw EXCEPT ![d] = "none"]
  /\ tier' = k /\ status' = "active"
  /\ customer' = (k # "one_time")
  /\ periodEnd' = IF k = "one_time" THEN NoEnd ELSE now + Period
  /\ bought' = TRUE /\ exposed' = (exposed \/ StaleReaders # {})
  /\ UNCHANGED <<user, prospectRows, eventRows, kind, hend, provisions, sweeps,
                 now, collided, faultsLeft>>

\* Mutant of Close: an account without a prospect ends the handler.
CloseOrReturn(d) ==
  /\ hpc[d] = "close"
  /\ IF seated = {}
     THEN hpc' = [hpc EXCEPT ![d] = "done"] /\ UNCHANGED expires
     ELSE /\ hpc' = [hpc EXCEPT ![d] = "job"]
          /\ \E p \in seated : expires' = [expires EXCEPT ![p] = NoEnd]
  /\ UNCHANGED <<user, subscriptionRow, seated, eventRows, kind, readings,
                 provisions, sweeps, now, history, faultsLeft>>

\* closeConvertedDemoProspect: the first prospect found; its own try block.
Close(d) ==
  /\ HandlerGoes(d, "close", "job")
  /\ IF seated = {} THEN UNCHANGED expires
     ELSE \E p \in seated : expires' = [expires EXCEPT ![p] = NoEnd]
  /\ UNCHANGED <<user, subscriptionRow, seated, eventRows, kind, readings,
                 provisions, sweeps, now, history, faultsLeft>>

CloseRejected(d) ==
  /\ HandlerGoes(d, "close", "job")
  /\ faultsLeft > 0 /\ faultsLeft' = faultsLeft - 1
  /\ UNCHANGED <<user, subscriptionRow, prospectRows, eventRows, kind,
                 readings, provisions, sweeps, now, history>>

\* The workspace, the institution and the first report job.
OpenJob(d) ==
  /\ HandlerGoes(d, "job", "mail")
  /\ opened' = [opened EXCEPT ![EventOf[d]] = @ + 1]
  /\ UNCHANGED <<user, subscriptionRow, prospectRows, marked, sequences, kind,
                 readings, provisions, sweeps, now, history, faultsLeft>>

\* The magic link, the welcome mail and scheduleEmail of B1, B2 and B3.
Onboard(d) ==
  /\ HandlerGoes(d, "mail", "done")
  /\ sequences' = sequences \cup {"B"}
  /\ UNCHANGED <<user, subscriptionRow, prospectRows, marked, opened, kind,
                 readings, provisions, sweeps, now, history, faultsLeft>>

\* The handlers that look the subscription up by its customer give up silently
\* when there is none.
Find(d) ==
  LET k == kind[EventOf[d]] IN
  /\ hpc[d] = "find"
  /\ hpc' = [hpc EXCEPT ![d] = IF customer THEN Writer(k) ELSE "done"]
  /\ IF customer /\ k = "invoice_paid"
     THEN /\ hsaw' = [hsaw EXCEPT ![d] = tier]
          /\ hend' = [hend EXCEPT ![d] = periodEnd]
     ELSE UNCHANGED readings
  /\ UNCHANGED <<user, subscriptionRow, prospectRows, eventRows, kind,
                 provisions, sweeps, now, history, faultsLeft>>

\* handleInvoicePaid; for an invoice without a period the end that was read is
\* written back.
Renew(d) ==
  /\ HandlerGoes(d, "renew", IF hsaw[d] = "monthly" THEN "cycle" ELSE "done")
  /\ hsaw' = [hsaw EXCEPT ![d] = "none"] /\ hend' = [hend EXCEPT ![d] = NoEnd]
  /\ status' = "active" /\ periodEnd' \in {hend[d], now + Period}
  /\ UNCHANGED <<user, tier, customer, prospectRows, eventRows, kind,
                 provisions, sweeps, now, history, faultsLeft>>

OpenCycle(d) ==
  /\ HandlerGoes(d, "cycle", "done")
  /\ opened' = [opened EXCEPT ![EventOf[d]] = @ + 1]
  /\ UNCHANGED <<user, subscriptionRow, prospectRows, marked, sequences, kind,
                 readings, provisions, sweeps, now, history, faultsLeft>>

\* handlePaymentFailed
Dun(d) ==
  /\ HandlerGoes(d, "dun", "done")
  /\ status' = "past_due"
  /\ UNCHANGED <<user, tier, customer, periodEnd, prospectRows, eventRows,
                 kind, readings, provisions, sweeps, now, history, faultsLeft>>

\* handleSubscriptionCancelled
End(d) ==
  /\ HandlerGoes(d, "end", "winback")
  /\ status' = "cancelled"
  /\ UNCHANGED <<user, tier, customer, periodEnd, prospectRows, eventRows,
                 kind, readings, provisions, sweeps, now, history, faultsLeft>>

WinBack(d) ==
  /\ HandlerGoes(d, "winback", "done")
  /\ sequences' = sequences \cup {"D5"}
  /\ UNCHANGED <<user, subscriptionRow, prospectRows, marked, opened, kind,
                 readings, provisions, sweeps, now, history, faultsLeft>>

\* syncSubscriptionFromStripe: whatever the event says of the status, of the
\* tier (if its price is a known one) and of the period (if it names one).
Sync(d) ==
  /\ HandlerGoes(d, "sync", "done")
  /\ status' \in Statuses /\ tier' \in {tier, "monthly"}
  /\ periodEnd' \in {periodEnd, now + Period}
  /\ UNCHANGED <<user, customer, prospectRows, eventRows, kind, readings,
                 provisions, sweeps, now, history, faultsLeft>>

\* A rejected call: the controller logs it and answers 200 all the same.
HandlerThrows(d) ==
  /\ hpc[d] \in Working
  /\ faultsLeft > 0 /\ faultsLeft' = faultsLeft - 1
  /\ hpc' = [hpc EXCEPT ![d] = "done"] /\ hsaw' = [hsaw EXCEPT ![d] = "none"]
  /\ hend' = [hend EXCEPT ![d] = NoEnd]
  /\ UNCHANGED <<user, subscriptionRow, prospectRows, eventRows, kind,
                 provisions, sweeps, now, history>>

HandlerStep(d) ==
  \/ Lookup(d) \/ CreateUser(d) \/ Upsert(d) \/ Close(d) \/ OpenJob(d) \/ Onboard(d)
  \/ Find(d) \/ Renew(d) \/ OpenCycle(d) \/ Dun(d) \/ End(d) \/ WinBack(d)
  \/ Sync(d)

-----------------------------------------------------------------------------
\* DemoSeatService.provisionFromProspect

ProvisionGoes(q, from, to) == ppc[q] = from /\ ppc' = [ppc EXCEPT ![q] = to]

\* The expiry is fixed first, then the public data fetched.
Provision(q, p) ==
  /\ ProvisionGoes(q, "idle", "read")
  /\ pfor' = [pfor EXCEPT ![q] = p] /\ pend' = [pend EXCEPT ![q] = now + Ttl]
  /\ UNCHANGED <<user, subscriptionRow, prospectRows, eventRows, kind,
                 handlers, sweeps, now, history, faultsLeft>>

\* Mutant of CheckProtected: a row that is not active is not protected.
CheckActive(q) ==
  /\ ProvisionGoes(q, "read",
       IF ~ user THEN "create" ELSE
       IF tier \in PaidTiers /\ status = "active" THEN "trail" ELSE "seat")
  /\ UNCHANGED <<user, subscriptionRow, prospectRows, eventRows, kind, handlers,
                 pfor, pend, sweeps, now, history, faultsLeft>>

\* upsertDemoUser looks for the user, and once there is one (and a workspace)
\* upsertDemoSubscription leaves a row of a protected tier alone ...
CheckProtected(q) ==
  /\ ProvisionGoes(q, "read", IF ~ user THEN "create" ELSE
                              IF tier \in PaidTiers THEN "trail" ELSE "seat")
  /\ UNCHANGED <<user, subscriptionRow, prospectRows, eventRows, kind, handlers,
                 pfor, pend, sweeps, now, history, faultsLeft>>

\* The user that was not found is created, or the unique email ends the call.
CreateDemoUser(q) ==
  /\ ProvisionGoes(q, "create", IF user THEN "idle" ELSE "read")
  /\ user' = TRUE
  /\ pend' = IF user THEN [pend EXCEPT ![q] = NoEnd] ELSE pend
  /\ UNCHANGED <<subscriptionRow, prospectRows, eventRows, kind, handlers, pfor,
                 sweeps, now, history, faultsLeft>>

\* ... and writes any other, whatever has become of it since.
UpsertDemo(q) ==
  /\ ProvisionGoes(q, "seat", "trail")
  /\ tier' = "demo" /\ status' = "active" /\ periodEnd' = pend[q]
  /\ UNCHANGED <<user, customer, prospectRows, eventRows, kind, handlers, pfor,
                 pend, sweeps, now, history, faultsLeft>>

\* Mutant of Trail: the prospect does not learn of the new expiry.
TrailWithoutExpiry(q) ==
  /\ ProvisionGoes(q, "trail", "idle")
  /\ seated' = seated \cup {pfor[q]}
  /\ pend' = [pend EXCEPT ![q] = NoEnd]
  /\ UNCHANGED <<user, subscriptionRow, expires, eventRows, kind, handlers,
                 pfor, sweeps, now, history, faultsLeft>>

\* The institution, its balance sheet, the QUEUED job and the magic link come
\* first; only then does the prospect learn of its seat and of the new expiry.
Trail(q) ==
  /\ ProvisionGoes(q, "trail", "idle")
  /\ seated' = seated \cup {pfor[q]}
  /\ expires' = [expires EXCEPT ![pfor[q]] = pend[q]]
  /\ pend' = [pend EXCEPT ![q] = NoEnd]
  /\ UNCHANGED <<user, subscriptionRow, eventRows, kind, handlers, pfor,
                 sweeps, now, history, faultsLeft>>

ProvisionThrows(q) ==
  /\ ppc[q] # "idle" /\ ppc' = [ppc EXCEPT ![q] = "idle"]
  /\ pend' = [pend EXCEPT ![q] = NoEnd]
  /\ faultsLeft > 0 /\ faultsLeft' = faultsLeft - 1
  /\ UNCHANGED <<user, subscriptionRow, prospectRows, eventRows, kind,
                 handlers, pfor, sweeps, now, history>>

ProvisionStep(q) ==
  CheckProtected(q) \/ CreateDemoUser(q) \/ UpsertDemo(q) \/ Trail(q)

\* A provisioning of the same prospect for another contact email writes another
\* demoUserId over this account's; its expiry is that account's from then on and
\* not kept here.
Reassign(p) ==
  /\ p \in seated /\ seated' = seated \ {p}
  /\ expires' = [expires EXCEPT ![p] = NoEnd]
  /\ UNCHANGED <<user, subscriptionRow, eventRows, kind, handlers, provisions,
                 sweeps, now, history, faultsLeft>>

-----------------------------------------------------------------------------
\* DemoSeatService.sweepExpired

Expired == {p \in seated : expires[p] # NoEnd /\ expires[p] < now}

Scan(s) ==
  /\ spc[s] = "idle" /\ Expired # {}
  /\ spc' = [spc EXCEPT ![s] = "read"]
  /\ todo' = [todo EXCEPT ![s] = Expired]
  /\ UNCHANGED <<user, subscriptionRow, prospectRows, eventRows, kind,
                 handlers, provisions, now, history, faultsLeft>>

\* Mutant of Proceed: the sweep does not notice that it is over.
ProceedOnly(s, p) ==
  /\ todo' = [todo EXCEPT ![s] = @ \ {p}]
  /\ spc' = [spc EXCEPT ![s] = "read"]

\* The sweep goes on with the next prospect, or is over.
Proceed(s, p) ==
  /\ todo' = [todo EXCEPT ![s] = @ \ {p}]
  /\ spc' = [spc EXCEPT ![s] = IF todo[s] = {p} THEN "idle" ELSE "read"]

\* The subscription of an expired prospect is read: any but a demo that is not
\* cancelled yet is passed over.
Check(s, p) ==
  /\ spc[s] = "read" /\ p \in todo[s]
  /\ IF tier = "demo" /\ status # "cancelled"
     THEN spc' = [spc EXCEPT ![s] = "cancel"] /\ UNCHANGED todo
     ELSE Proceed(s, p)
  /\ UNCHANGED <<user, subscriptionRow, prospectRows, eventRows, kind,
                 handlers, provisions, now, history, faultsLeft>>

\* The update names the user only.  (All of todo shares the account, so which
\* of its prospects was read makes no difference.)
Cancel(s, p) ==
  /\ spc[s] = "cancel" /\ p \in todo[s]
  /\ status' = "cancelled"
  /\ Proceed(s, p)
  /\ UNCHANGED <<user, tier, customer, periodEnd, prospectRows, eventRows,
                 kind, handlers, provisions, now, history, faultsLeft>>

SweepThrows(s) ==
  /\ spc[s] # "idle" /\ spc' = [spc EXCEPT ![s] = "idle"]
  /\ todo' = [todo EXCEPT ![s] = {}]
  /\ faultsLeft > 0 /\ faultsLeft' = faultsLeft - 1
  /\ UNCHANGED <<user, subscriptionRow, prospectRows, eventRows, kind,
                 handlers, provisions, now, history>>

SweepStep(s) == Scan(s) \/ \E p \in Prospects : Check(s, p) \/ Cancel(s, p)

-----------------------------------------------------------------------------
\* The process stops: every call in flight is gone.
Crash ==
  /\ faultsLeft > 0 /\ faultsLeft' = faultsLeft - 1
  /\ hpc' = [d \in Deliveries |-> IF hpc[d] \in Working THEN "done" ELSE hpc[d]]
  /\ hsaw' = [d \in Deliveries |-> "none"]
  /\ hend' = [d \in Deliveries |-> NoEnd]
  /\ ppc' = [q \in Provisions |-> "idle"]
  /\ pend' = [q \in Provisions |-> NoEnd]
  /\ spc' = [s \in Sweeps |-> "idle"] /\ todo' = [s \in Sweeps |-> {}]
  /\ UNCHANGED <<user, subscriptionRow, prospectRows, eventRows, kind, pfor,
                 now, history>>

\* The contact registers: the account is created outside these handlers.
SignUp ==
  /\ ~ user /\ user' = TRUE
  /\ UNCHANGED <<subscriptionRow, prospectRows, eventRows, kind, handlers,
                 provisions, sweeps, now, history, faultsLeft>>

Tick ==
  /\ now < MaxNow /\ now' = now + 1
  /\ UNCHANGED <<user, subscriptionRow, prospectRows, eventRows, kind,
                 handlers, provisions, sweeps, history, faultsLeft>>

Next ==
  \/ \E d \in Deliveries : \/ Claim(d) \/ HandlerStep(d)
                           \/ CloseRejected(d) \/ HandlerThrows(d)
  \/ \E q \in Provisions : \/ \E p \in Prospects : Provision(q, p)
                           \/ ProvisionStep(q) \/ ProvisionThrows(q)
  \/ \E s \in Sweeps : SweepStep(s) \/ SweepThrows(s)
  \/ \E p \in Prospects : Reassign(p)
  \/ Crash \/ SignUp \/ Tick

Spec == Init /\ [][Next]_vars

\* A provisioning and a sweep that have begun go on (nothing in them waits for
\* another), and the cron starts the sweep every hour.
FairSpec ==
  /\ Spec
  /\ \A q \in Provisions : WF_vars(ProvisionStep(q))
  /\ \A s \in Sweeps : WF_vars(SweepStep(s))

-----------------------------------------------------------------------------
(* Properties *)

\* An event takes effect at most once, however often and however concurrently
\* Stripe delivers it: it never opens two report jobs, and one that has opened
\* a job is marked.
AppliedOnce ==
  \A e \in Events : opened[e] <= 1 /\ (opened[e] = 1 => e \in marked)

\* Events by which Stripe takes the service away.
Stops == {e \in marked : kind[e] \in {"invoice_failed", "deleted", "synced"}}

\* What an account has paid for stays its own: no provisioning makes it a demo
\* again and no sweep cancels it, for as long as none of them had read the row
\* before the payment and was yet to write it.
PaidIsKept ==
  (bought /\ ~ exposed) =>
    (tier \in PaidTiers /\ (Stops = {} => status = "active"))

\* A payment that names its customer, whose marker is written and whose handler
\* is over, has opened its report job and its onboarding sequence, unless
\* someone else created the customer's user between the handler's search for it
\* and its insert: with no fault, no other order of the events, no duplicate, no
\* registration and no provisioning loses it.
CheckoutServed ==
  faultsLeft = MaxFaults =>
    \A e \in marked : kind[e] \in Checkouts =>
      \/ \E d \in Deliveries : EventOf[d] = e /\ hpc[d] \in Working
      \/ opened[e] = 1 /\ "B" \in sequences
      \/ e \in collided

\* A demo seat past its end is closed or extended in the end, whatever calls are
\* lost, unless the account was left without a prospect that refers to it or a
\* payment crossed a provisioning.
ExpiredSeatCloses ==
  (tier = "demo" /\ periodEnd < now)
    ~> \/ tier # "demo" \/ status = "cancelled" \/ periodEnd >= now
       \/ seated = {} \/ exposed

\* What the comment of sweepExpired promises: it only touches demo
\* subscriptions whose period is strictly in the past.
SweepKeepsToExpiredDemos ==
  [][\A s \in Sweeps :
       spc[s] = "cancel" /\ status' = "cancelled" /\ status # "cancelled"
         => tier = "demo" /\ periodEnd < now]_vars
=============================================================================

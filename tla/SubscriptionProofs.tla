------------------------- MODULE SubscriptionProofs -------------------------
(***************************************************************************)
(* Proofs about Subscription, for any number of deliveries, events,        *)
(* prospects, provisionings and sweeps and any number of faults.           *)
(***************************************************************************)
EXTENDS Subscription, TLAPS

USE EventsAssumption, BoundsAssumption

-----------------------------------------------------------------------------
(* Types.                                                                  *)

\* The dates the code writes.
LEMMA DateFacts ==
  NoEnd \in Dates /\ \A n \in 0 .. MaxNow : n + Ttl \in Dates /\ n + Period \in Dates
BY DEF NoEnd, Dates, Ttl, Period

\* A handler is where its event's kind has led it.
HandlerKinds ==
  \A d \in Deliveries :
    LET k == kind[EventOf[d]] IN
    /\ hpc[d] \in {"lookup", "create", "upsert", "close", "job", "mail"} =>
         k \in Checkouts
    /\ hpc[d] = "find" => k \in Kinds \ (Checkouts \cup {"anonymous"})
    /\ hpc[d] \in {"renew", "cycle"} => k = "invoice_paid"
    /\ hpc[d] = "dun" => k = "invoice_failed"
    /\ hpc[d] \in {"end", "winback"} => k = "deleted"
    /\ hpc[d] = "sync" => k = "synced"

\* A step of one delivery moves that delivery only, along the code of its kind.
LEMMA HandlerKindsKept ==
  ASSUME TypeOK, HandlerKinds, [Next]_vars PROVE HandlerKinds'
<1> USE DEF handlers, Checkouts, Kinds
<1>0. \A d \in Deliveries : kind[EventOf[d]] \in Kinds /\ d \in DOMAIN hpc
  BY DEF TypeOK
<1>1. ASSUME NEW d \in Deliveries, Claim(d) PROVE HandlerKinds'
  BY <1>0, <1>1 DEF Claim, Entry, HandlerKinds
<1>2. ASSUME NEW d \in Deliveries, HandlerStep(d) PROVE HandlerKinds'
  <2> USE DEF HandlerGoes
  <2>1. CASE Find(d)
    BY <1>0, <2>1 DEF Find, Writer, HandlerKinds
  <2>2. CASE Upsert(d) \/ Close(d) \/ OpenJob(d) \/ Onboard(d)
    BY <1>0, <2>2 DEF Upsert, Close, OpenJob, Onboard, HandlerKinds
  <2>4. CASE Lookup(d)
    BY <1>0, <2>4 DEF Lookup, HandlerKinds
  <2>5. CASE CreateUser(d)
    BY <1>0, <2>5 DEF CreateUser, HandlerKinds
  <2>3. CASE Renew(d) \/ OpenCycle(d) \/ Dun(d) \/ End(d) \/ WinBack(d) \/ Sync(d)
    BY <1>0, <2>3 DEF Renew, OpenCycle, Dun, End, WinBack, Sync, HandlerKinds
  <2> QED
    BY <1>2, <2>1, <2>2, <2>3, <2>4, <2>5 DEF HandlerStep
<1>3. ASSUME NEW d \in Deliveries, CloseRejected(d) \/ HandlerThrows(d)
      PROVE  HandlerKinds'
  BY <1>0, <1>3 DEF CloseRejected, HandlerThrows, HandlerGoes, HandlerKinds
<1>4. CASE Crash
  BY <1>0, <1>4 DEF Crash, Working, HandlerPC, HandlerKinds
<1>5. CASE UNCHANGED <<handlers, kind>>
  BY <1>5 DEF HandlerKinds
<1> QED
  BY <1>1, <1>2, <1>3, <1>4, <1>5
  DEF Next, vars, Provision, ProvisionStep, CheckProtected, CreateDemoUser,
      UpsertDemo, Trail, Reassign, ProvisionThrows, SweepStep, Scan, Check, Cancel,
      SweepThrows, SignUp, Tick

\* Every variable keeps its type, and a sweep is idle exactly when it has no
\* expired prospect left.
THEOREM TypeCorrect == Spec => [](TypeOK /\ HandlerKinds)
<1> USE DateFacts DEF PaidTiers, Tiers, Statuses, Checkouts, Kinds
<1>1. Init => TypeOK
  <2> SUFFICES ASSUME Init PROVE TypeOK
    OBVIOUS
  <2>1. kind \in [Events -> Kinds]
    BY DEF Init
  <2>2. /\ hpc \in [Deliveries -> HandlerPC] /\ hsaw \in [Deliveries -> Tiers]
        /\ hend \in [Deliveries -> Dates]
    BY DEF Init, HandlerPC
  <2>3. /\ ppc \in [Provisions -> {"idle", "read", "create", "seat", "trail"}]
        /\ pfor \in [Provisions -> Prospects] /\ pend \in [Provisions -> Dates]
        /\ expires \in [Prospects -> Dates] /\ opened \in [Events -> Nat]
    BY DEF Init
  <2>4. /\ spc \in [Sweeps -> {"idle", "read", "cancel"}]
        /\ todo \in [Sweeps -> SUBSET Prospects]
        /\ \A s \in Sweeps : spc[s] = "idle" <=> todo[s] = {}
    BY DEF Init
  <2>5. /\ tier \in Tiers /\ status \in Statuses /\ periodEnd \in Dates
        /\ now \in 0 .. MaxNow /\ faultsLeft \in 0 .. MaxFaults
    BY DEF Init
  <2>6. /\ customer \in BOOLEAN /\ bought \in BOOLEAN /\ exposed \in BOOLEAN
        /\ seated \subseteq Prospects /\ marked \subseteq Events
        /\ sequences \subseteq {"B", "D5"}
        /\ user \in BOOLEAN /\ collided \subseteq Events
    BY DEF Init
  <2> QED
    BY <2>1, <2>2, <2>3, <2>4, <2>5, <2>6 DEF TypeOK
<1>2. Init => HandlerKinds
  BY DEF Init, HandlerKinds
<1>3. TypeOK /\ HandlerKinds /\ [Next]_vars => TypeOK'
  <2> SUFFICES ASSUME TypeOK, HandlerKinds, [Next]_vars PROVE TypeOK'
    OBVIOUS
  <2> USE DEF subscriptionRow, prospectRows, eventRows, readings, handlers,
              provisions, sweeps, history
  <2>1. ASSUME NEW d \in Deliveries, Claim(d) PROVE TypeOK'
    BY <2>1 DEF TypeOK, Claim, Entry, HandlerPC
  <2>2. ASSUME NEW d \in Deliveries, HandlerStep(d) PROVE TypeOK'
    <3> USE DEF HandlerGoes, HandlerPC
    <3>1. CASE Lookup(d)
      BY <3>1 DEF TypeOK, Lookup
    <3>2. CASE Upsert(d)
      <4>1. hpc' \in [Deliveries -> HandlerPC] /\ hsaw' \in [Deliveries -> Tiers]
        BY <3>2 DEF TypeOK, Upsert
      <4>2. kind[EventOf[d]] \in Checkouts
        BY <3>2 DEF Upsert, HandlerKinds
      <4>3. customer' \in BOOLEAN /\ bought' \in BOOLEAN /\ exposed' \in BOOLEAN
        BY <3>2, Zenon DEF Upsert
      <4>4. tier' \in Tiers /\ status' \in Statuses /\ periodEnd' \in Dates
        BY <3>2, <4>2 DEF TypeOK, Upsert
      <4>5. UNCHANGED <<prospectRows, eventRows, kind, hend, provisions, sweeps,
                        now, faultsLeft>>
        BY <3>2 DEF Upsert
      <4>6. UNCHANGED <<user, collided>>
        BY <3>2 DEF Upsert
      <4> QED
        BY <4>1, <4>3, <4>4, <4>5, <4>6 DEF TypeOK
    <3>3. CASE Close(d)
      BY <3>3 DEF TypeOK, Close
    <3>4. CASE OpenJob(d)
      BY <3>4 DEF TypeOK, OpenJob
    <3>5. CASE Onboard(d)
      BY <3>5 DEF TypeOK, Onboard
    <3>6. CASE Find(d)
      BY <3>6 DEF TypeOK, Find, Writer
    <3>7. CASE Renew(d)
      BY <3>7 DEF TypeOK, Renew
    <3>8. CASE OpenCycle(d)
      BY <3>8 DEF TypeOK, OpenCycle
    <3>9. CASE Dun(d)
      BY <3>9 DEF TypeOK, Dun
    <3>10. CASE End(d)
      BY <3>10 DEF TypeOK, End
    <3>11. CASE WinBack(d)
      BY <3>11 DEF TypeOK, WinBack
    <3>12. CASE Sync(d)
      BY <3>12 DEF TypeOK, Sync
    <3>13. CASE CreateUser(d)
      BY <3>13 DEF TypeOK, CreateUser
    <3> QED
      BY <2>2, <3>1, <3>2, <3>3, <3>4, <3>5, <3>6, <3>7, <3>8, <3>9, <3>10,
         <3>11, <3>12, <3>13 DEF HandlerStep
  <2>3. ASSUME NEW d \in Deliveries, CloseRejected(d) \/ HandlerThrows(d)
        PROVE  TypeOK'
    <3>1. CASE CloseRejected(d)
      BY <3>1 DEF TypeOK, CloseRejected, HandlerGoes, HandlerPC
    <3>2. CASE HandlerThrows(d)
      BY <3>2 DEF TypeOK, HandlerThrows, HandlerPC
    <3> QED
      BY <2>3, <3>1, <3>2
  <2>4. ASSUME NEW q \in Provisions, NEW p \in Prospects, Provision(q, p)
        PROVE  TypeOK'
    BY <2>4 DEF TypeOK, Provision, ProvisionGoes
  <2>5. ASSUME NEW q \in Provisions, ProvisionStep(q) \/ ProvisionThrows(q)
        PROVE  TypeOK'
    <3> USE DEF ProvisionGoes
    <3>1. CASE CheckProtected(q)
      BY <3>1 DEF TypeOK, CheckProtected
    <3>2. CASE UpsertDemo(q)
      BY <3>2 DEF TypeOK, UpsertDemo
    <3>3. CASE Trail(q)
      BY <3>3 DEF TypeOK, Trail
    <3>4. CASE ProvisionThrows(q)
      BY <3>4 DEF TypeOK, ProvisionThrows
    <3>5. CASE CreateDemoUser(q)
      BY <3>5 DEF TypeOK, CreateDemoUser
    <3> QED
      BY <2>5, <3>1, <3>2, <3>3, <3>4, <3>5 DEF ProvisionStep
  <2>6. ASSUME NEW s \in Sweeps, Scan(s) PROVE TypeOK'
    <3>1. Expired \in SUBSET Prospects
      BY DEF TypeOK, Expired
    <3> QED
      BY <2>6, <3>1 DEF TypeOK, Scan
  <2>7. ASSUME NEW s \in Sweeps, NEW p \in Prospects,
               Check(s, p) \/ Cancel(s, p)
        PROVE  TypeOK'
    <3>1. /\ todo[s] # {p} => todo[s] \ {p} # {}
          /\ todo[s] \ {p} \in SUBSET Prospects
      BY <2>7 DEF TypeOK, Check, Cancel
    <3>2. Proceed(s, p) =>
            /\ spc' \in [Sweeps -> {"idle", "read", "cancel"}]
            /\ todo' \in [Sweeps -> SUBSET Prospects]
            /\ \A t \in Sweeps : spc'[t] = "idle" <=> todo'[t] = {}
      BY <3>1 DEF TypeOK, Proceed
    <3>3. CASE Check(s, p)
      BY <3>2, <3>3 DEF TypeOK, Check
    <3>4. CASE Cancel(s, p)
      BY <3>2, <3>4 DEF TypeOK, Cancel
    <3> QED
      BY <2>7, <3>3, <3>4
  <2>8. ASSUME NEW s \in Sweeps, SweepThrows(s) PROVE TypeOK'
    BY <2>8 DEF TypeOK, SweepThrows
  <2>9. CASE Crash
    BY <2>9 DEF TypeOK, Crash, HandlerPC
  <2>10. CASE Tick
    BY <2>10 DEF TypeOK, Tick
  <2>11. CASE UNCHANGED vars
    BY <2>11 DEF TypeOK, vars
  <2>12. ASSUME NEW p \in Prospects, Reassign(p) PROVE TypeOK'
    BY <2>12 DEF TypeOK, Reassign
  <2>13. CASE SignUp
    BY <2>13 DEF TypeOK, SignUp
  <2> QED
    BY <2>1, <2>2, <2>3, <2>4, <2>5, <2>6, <2>7, <2>8, <2>9, <2>10, <2>11, <2>12,
       <2>13
    DEF Next, SweepStep
<1>4. TypeOK /\ HandlerKinds /\ [Next]_vars => HandlerKinds'
  BY HandlerKindsKept
<1> QED
  BY <1>1, <1>2, <1>3, <1>4, PTL DEF Spec
-----------------------------------------------------------------------------
(* Events.  The marker gives an event to one delivery; until that delivery *)
(* has opened the job there is none.                                       *)

Claimed == \A d \in Deliveries : hpc[d] \in Working => EventOf[d] \in marked
OneHolder ==
  \A d, b \in Deliveries :
    hpc[d] \in Working /\ hpc[b] \in Working /\ EventOf[d] = EventOf[b] => d = b
NotYetOpened ==
  \A d \in Deliveries :
    hpc[d] \in Working \ {"mail"} => opened[EventOf[d]] = 0
OpenedOnce ==
  \A e \in Events : opened[e] \in {0, 1} /\ (e \notin marked => opened[e] = 0)
EventInv == Claimed /\ OneHolder /\ NotYetOpened /\ OpenedOnce

\* A step of a handler that opens no job.
MovesOn(d) ==
  /\ hpc[d] \in Working
  /\ \E pc \in {"lookup", "create", "upsert", "close", "job", "renew", "cycle",
                 "dun", "end", "winback", "sync", "done"} :
       hpc' = [hpc EXCEPT ![d] = pc] /\ (pc = "done" \/ hpc[d] # "mail")
  /\ UNCHANGED <<marked, opened>>

\* The steps as far as events are concerned.
LEMMA EventSteps ==
  ASSUME TypeOK, [Next]_vars
  PROVE  \/ \E d \in Deliveries : \/ Claim(d) \/ OpenJob(d) \/ OpenCycle(d)
                                 \/ Onboard(d) \/ MovesOn(d)
         \/ Crash
         \/ UNCHANGED <<hpc, marked, opened>>
<1> USE DEF eventRows, handlers, HandlerGoes, Working, HandlerPC
<1>1. ASSUME NEW d \in Deliveries, HandlerStep(d)
      PROVE  OpenJob(d) \/ OpenCycle(d) \/ Onboard(d) \/ MovesOn(d)
  <2>1. CASE Lookup(d) \/ CreateUser(d) \/ Upsert(d) \/ Close(d)
    BY <2>1 DEF Lookup, CreateUser, Upsert, Close, MovesOn
  <2>2. CASE Find(d)
    BY <2>2 DEF Find, Writer, MovesOn
  <2>3. CASE Renew(d) \/ Dun(d) \/ End(d) \/ WinBack(d) \/ Sync(d)
    BY <2>3 DEF Renew, Dun, End, WinBack, Sync, MovesOn
  <2> QED
    BY <1>1, <2>1, <2>2, <2>3 DEF HandlerStep
<1>2. ASSUME NEW d \in Deliveries, CloseRejected(d) \/ HandlerThrows(d)
      PROVE  MovesOn(d)
  BY <1>2 DEF CloseRejected, HandlerThrows, MovesOn
<1> QED
  BY <1>1, <1>2
  DEF Next, vars, Provision, ProvisionStep, CheckProtected, CreateDemoUser,
      UpsertDemo, Trail, Reassign, ProvisionThrows, SweepStep, Scan, Check, Cancel,
      SweepThrows, SignUp, Tick

\* A handler that goes on, or is over, keeps its event to itself; it counts a
\* job only where none was open.
LEMMA HandlerMoved ==
  ASSUME TypeOK, EventInv, NEW d \in Deliveries, hpc[d] \in Working,
         NEW pc \in Working \cup {"done"}, hpc' = [hpc EXCEPT ![d] = pc],
         NEW n \in {0, 1}, opened' = [opened EXCEPT ![EventOf[d]] = n],
         pc \in Working \ {"mail"} => n = opened[EventOf[d]] /\ hpc[d] # "mail",
         marked' = marked
  PROVE  EventInv'
<1>1. /\ EventOf[d] \in Events /\ "done" \notin Working
      /\ hpc \in [Deliveries -> HandlerPC] /\ opened \in [Events -> Nat]
  BY DEF TypeOK, Working
<1>2. \A b \in Deliveries : b # d => hpc'[b] = hpc[b]
  BY <1>1
<1>3. hpc'[d] = pc
  BY <1>1
<1>4. /\ \A e \in Events : e # EventOf[d] => opened'[e] = opened[e]
      /\ opened'[EventOf[d]] = n
  BY <1>1
<1>5. \A b \in Deliveries : hpc'[b] \in Working => hpc[b] \in Working
  BY <1>1, <1>2, <1>3
<1>6. Claimed' /\ OneHolder'
  BY <1>5 DEF EventInv, Claimed, OneHolder
<1>7. NotYetOpened'
  <2> SUFFICES ASSUME NEW b \in Deliveries, hpc'[b] \in Working \ {"mail"}
               PROVE  opened'[EventOf[b]] = 0
    BY DEF NotYetOpened
  <2>1. CASE b = d
    BY <1>1, <1>3, <1>4, <2>1 DEF EventInv, NotYetOpened
  <2>2. CASE b # d
    BY <1>1, <1>2, <1>4, <2>2 DEF EventInv, NotYetOpened, OneHolder
  <2> QED
    BY <2>1, <2>2
<1>8. OpenedOnce'
  BY <1>1, <1>4 DEF EventInv, OpenedOnce, Claimed
<1> QED
  BY <1>6, <1>7, <1>8 DEF EventInv

LEMMA EventsAreHeld == Spec => []EventInv
<1>1. Init => EventInv
  BY DEF Init, EventInv, Claimed, OneHolder, NotYetOpened, OpenedOnce, Working
<1>2. TypeOK /\ EventInv /\ [Next]_vars => EventInv'
  <2> SUFFICES ASSUME TypeOK, EventInv, [Next]_vars PROVE EventInv'
    OBVIOUS
  <2> USE DEF Working, HandlerPC, HandlerGoes, eventRows, handlers
  <2>0. /\ \A d \in Deliveries : EventOf[d] \in Events /\ hpc[d] \in HandlerPC
        /\ hpc \in [Deliveries -> HandlerPC] /\ opened \in [Events -> Nat]
    BY DEF TypeOK
  <2>1. ASSUME NEW d \in Deliveries, Claim(d) PROVE EventInv'
    <3>1. Entry(kind[EventOf[d]]) \in {"lookup", "find", "done"}
      BY DEF Entry
    <3> QED
      BY <2>0, <2>1, <3>1 DEF Claim, EventInv, Claimed, OneHolder, NotYetOpened,
                          OpenedOnce
  <2>2. ASSUME NEW d \in Deliveries, OpenJob(d) \/ OpenCycle(d) PROVE EventInv'
    <3>1. opened[EventOf[d]] = 0
      BY <2>2 DEF OpenJob, OpenCycle, EventInv, NotYetOpened
    <3>2. opened' = [opened EXCEPT ![EventOf[d]] = 1]
      BY <2>0, <2>2, <3>1 DEF OpenJob, OpenCycle
    <3> QED
      BY <2>2, <3>1, <3>2, HandlerMoved DEF OpenJob, OpenCycle
  <2>3. ASSUME NEW d \in Deliveries, Onboard(d) \/ MovesOn(d) PROVE EventInv'
    <3>1. opened' = [opened EXCEPT ![EventOf[d]] = opened[EventOf[d]]]
      BY <2>0, <2>3 DEF Onboard, MovesOn
    <3> DEFINE n == opened[EventOf[d]]
    <3>2. n \in {0, 1}
      BY <2>0 DEF EventInv, OpenedOnce
    <3>3. CASE Onboard(d)
      BY <3>1, <3>2, <3>3, HandlerMoved DEF Onboard
    <3>4. CASE MovesOn(d)
      <4>1. PICK pc \in (Working \ {"mail"}) \cup {"done"} :
              hpc' = [hpc EXCEPT ![d] = pc] /\ (pc = "done" \/ hpc[d] # "mail")
        BY <3>4 DEF MovesOn
      <4>2. hpc[d] \in Working /\ marked' = marked /\ "done" \notin Working
        BY <3>4 DEF MovesOn
      <4> HIDE DEF Working, n
      <4> QED
        BY <3>1, <3>2, <4>1, <4>2, HandlerMoved DEF n
    <3> QED
      BY <2>3, <3>3, <3>4
  <2>4. CASE Crash
    BY <2>0, <2>4 DEF Crash, EventInv, Claimed, OneHolder, NotYetOpened,
                          OpenedOnce
  <2>5. CASE UNCHANGED <<hpc, marked, opened>>
    BY <2>5 DEF EventInv, Claimed, OneHolder, NotYetOpened, OpenedOnce
  <2> QED
    BY <2>1, <2>2, <2>3, <2>4, <2>5, EventSteps
<1> QED
  BY <1>1, <1>2, TypeCorrect, PTL DEF Spec

\* An event takes effect at most once (billing.controller.ts, handleWebhook),
\* for any number of deliveries of it.
THEOREM EventsAreAppliedOnce == Spec => []AppliedOnce
<1>1. EventInv => AppliedOnce
  BY DEF EventInv, OpenedOnce, AppliedOnce
<1> QED
  BY <1>1, EventsAreHeld, PTL

-----------------------------------------------------------------------------
(* Served checkouts.                                                       *)

\* Past the job a handler has opened it.
Opened == \A d \in Deliveries : hpc[d] = "mail" => opened[EventOf[d]] = 1
ServedInv == Opened /\ CheckoutServed

\* Only a delivery of a fault-free run matters here, and of those only one that
\* is over: it has come from Onboard, its event is no checkout, or it collided.
LEMMA HandlerServes ==
  ASSUME TypeOK, HandlerKinds, EventInv, ServedInv,
         NEW d \in Deliveries, HandlerStep(d)
  PROVE  ServedInv'
<1> USE DEF HandlerGoes, eventRows, prospectRows, handlers, readings, history
<1> DEFINE e == EventOf[d]
<1>1. /\ e \in Events /\ hpc \in [Deliveries -> HandlerPC]
      /\ opened \in [Events -> Nat]
  BY DEF TypeOK
<1>2. /\ \A b \in Deliveries : b # d => hpc'[b] = hpc[b]
      /\ UNCHANGED <<marked, kind, faultsLeft>>
      /\ sequences \subseteq sequences' /\ collided \subseteq collided'
      /\ \A x \in Events : x # e => opened'[x] = opened[x]
  <2>1. CASE Lookup(d) \/ CreateUser(d) \/ Upsert(d) \/ Close(d) \/ OpenJob(d)
    BY <1>1, <2>1 DEF Lookup, CreateUser, Upsert, Close, OpenJob
  <2>2. CASE Onboard(d) \/ Find(d) \/ Renew(d) \/ OpenCycle(d)
    BY <1>1, <2>2 DEF Onboard, Find, Renew, OpenCycle
  <2>3. CASE Dun(d) \/ End(d) \/ WinBack(d) \/ Sync(d)
    BY <1>1, <2>3 DEF Dun, End, WinBack, Sync
  <2> QED
    BY <2>1, <2>2, <2>3 DEF HandlerStep
<1>3. hpc[d] \in Working
  BY DEF HandlerStep, Lookup, CreateUser, Upsert, Close, OpenJob, Onboard, Find,
         Renew, OpenCycle, Dun, End, WinBack, Sync, Working, HandlerPC
<1>4. \A b \in Deliveries : b # d /\ hpc[b] \in Working => EventOf[b] # e
  BY <1>3 DEF EventInv, OneHolder
<1>5. hpc'[d] = "mail" => opened'[e] = 1
  <2>1. CASE OpenJob(d)
    BY <1>1, <2>1 DEF OpenJob, EventInv, NotYetOpened, Working, HandlerPC
  <2>2. CASE ~ OpenJob(d)
    <3>1. CASE Lookup(d) \/ CreateUser(d) \/ Upsert(d) \/ Close(d) \/ Find(d)
      BY <1>1, <3>1 DEF Lookup, CreateUser, Upsert, Close, Find, Writer
    <3>2. CASE ~ (\/ Lookup(d) \/ CreateUser(d) \/ Upsert(d) \/ Close(d)
                 \/ Find(d))
      BY <1>1, <2>2, <3>2 DEF HandlerStep, Onboard, Renew, OpenCycle, Dun, End,
                              WinBack, Sync
    <3> QED
      BY <3>1, <3>2
  <2> QED
    BY <2>1, <2>2
<1>6. Opened'
  BY <1>1, <1>2, <1>4, <1>5 DEF ServedInv, Opened, Working, HandlerPC
<1>7. kind[e] \in Checkouts =>
        \/ hpc'[d] \in Working \/ e \in collided'
        \/ opened'[e] = 1 /\ "B" \in sequences'
  <2>1. CASE Onboard(d)
    BY <1>1, <2>1 DEF Onboard, ServedInv, Opened
  <2>2. CASE Lookup(d) \/ CreateUser(d) \/ Upsert(d) \/ Close(d) \/ OpenJob(d)
    BY <1>1, <2>2 DEF Lookup, CreateUser, Upsert, Close, OpenJob, Working,
                      HandlerPC
  <2>3. CASE Find(d) \/ Renew(d) \/ OpenCycle(d) \/ Dun(d) \/ End(d)
             \/ WinBack(d) \/ Sync(d)
    BY <2>3 DEF Find, Renew, OpenCycle, Dun, End, WinBack, Sync, HandlerKinds,
                Checkouts
  <2> QED
    BY <2>1, <2>2, <2>3 DEF HandlerStep
<1>8. CheckoutServed'
  <2> SUFFICES ASSUME faultsLeft = MaxFaults, NEW x \in marked,
                      kind[x] \in Checkouts
               PROVE  \/ \E b \in Deliveries :
                           EventOf[b] = x /\ hpc'[b] \in Working
                      \/ opened'[x] = 1 /\ "B" \in sequences'
                      \/ x \in collided'
    BY <1>2 DEF CheckoutServed
  <2>1. x \in Events
    BY DEF TypeOK
  <2>2. \/ \E b \in Deliveries : EventOf[b] = x /\ hpc[b] \in Working
        \/ opened[x] = 1 /\ "B" \in sequences
        \/ x \in collided
    BY DEF ServedInv, CheckoutServed
  <2>3. CASE x = e
    BY <1>7, <2>3
  <2>4. CASE x # e
    BY <1>2, <2>1, <2>2, <2>4
  <2> QED
    BY <2>3, <2>4
<1> QED
  BY <1>6, <1>8 DEF ServedInv

\* A checkout that names its customer is served, in any order of events and
\* deliveries, as long as no call is rejected, the process does not stop and
\* nobody creates the customer's user under it (handlePaymentComplete).
THEOREM CheckoutsAreServed == Spec => []CheckoutServed
<1>1. Init => ServedInv
  BY DEF Init, ServedInv, Opened, CheckoutServed
<1>2. TypeOK /\ HandlerKinds /\ EventInv /\ ServedInv /\ [Next]_vars => ServedInv'
  <2> SUFFICES ASSUME TypeOK, HandlerKinds, EventInv, ServedInv, [Next]_vars
               PROVE  ServedInv'
    OBVIOUS
  <2>0. /\ \A d \in Deliveries : EventOf[d] \in Events /\ hpc[d] \in HandlerPC
        /\ hpc \in [Deliveries -> HandlerPC] /\ faultsLeft \in 0 .. MaxFaults
    BY DEF TypeOK
  <2>1. ASSUME NEW d \in Deliveries, Claim(d) PROVE ServedInv'
    <3>1. /\ \A b \in Deliveries : b # d => hpc'[b] = hpc[b]
          /\ hpc[d] = "new" /\ hpc'[d] \in {"lookup", "find", "done"}
          /\ \/ EventOf[d] \in marked \/ hpc'[d] \in Working
             \/ kind[EventOf[d]] \notin Checkouts
          /\ marked' \in {marked, marked \cup {EventOf[d]}}
          /\ UNCHANGED <<opened, sequences, kind, faultsLeft, collided>>
      BY <2>0, <2>1 DEF Claim, Entry, Working, HandlerPC, history
    <3>2. "new" \notin Working
      BY DEF Working
    <3>3. Opened'
      BY <3>1 DEF ServedInv, Opened
    <3>4. CheckoutServed'
      <4> SUFFICES ASSUME faultsLeft = MaxFaults, NEW x \in marked',
                          kind[x] \in Checkouts
                   PROVE  \/ \E b \in Deliveries :
                               EventOf[b] = x /\ hpc'[b] \in Working
                          \/ opened[x] = 1 /\ "B" \in sequences
                          \/ x \in collided
        BY <3>1 DEF CheckoutServed
      <4>1. CASE x \in marked
        BY <3>1, <3>2, <4>1 DEF ServedInv, CheckoutServed
      <4>2. CASE x \notin marked
        BY <3>1, <4>2
      <4> QED
        BY <4>1, <4>2
    <3> QED
      BY <3>3, <3>4 DEF ServedInv
  <2>2. ASSUME NEW d \in Deliveries, HandlerStep(d) PROVE ServedInv'
    BY <2>2, HandlerServes
  <2>3. CASE /\ faultsLeft' # MaxFaults /\ opened' = opened
             /\ \A d \in Deliveries : hpc'[d] = hpc[d] \/ hpc'[d] # "mail"
    BY <2>3 DEF ServedInv, Opened, CheckoutServed
  <2>4. CASE UNCHANGED <<hpc, marked, opened, sequences, kind, faultsLeft, collided>>
    BY <2>4 DEF ServedInv, Opened, CheckoutServed
  <2>5. ASSUME faultsLeft > 0, faultsLeft' = faultsLeft - 1
        PROVE  faultsLeft' # MaxFaults
    BY <2>0, <2>5
  <2>6. CASE UNCHANGED vars
    BY <2>4, <2>6 DEF vars, eventRows, handlers, history
  <2> QED
    <3> USE DEF eventRows, handlers, history
    <3>1. ASSUME NEW d \in Deliveries, CloseRejected(d) \/ HandlerThrows(d)
          PROVE  ServedInv'
      BY <2>0, <2>3, <2>5, <3>1 DEF CloseRejected, HandlerThrows, HandlerGoes
    <3>2. ASSUME NEW q \in Provisions, ProvisionThrows(q) PROVE ServedInv'
      BY <2>3, <2>5, <3>2 DEF ProvisionThrows
    <3>3. ASSUME NEW s \in Sweeps, SweepThrows(s) PROVE ServedInv'
      BY <2>3, <2>5, <3>3 DEF SweepThrows
    <3>4. CASE Crash
      BY <2>0, <2>3, <2>5, <3>4 DEF Crash
    <3> QED
      BY <2>1, <2>2, <2>4, <2>6, <3>1, <3>2, <3>3, <3>4
      DEF Next, Provision, ProvisionStep, CheckProtected, CreateDemoUser,
          UpsertDemo, Trail, Reassign, SweepStep, Scan, Check, Cancel, SignUp, Tick
<1>3. ServedInv => CheckoutServed
  BY DEF ServedInv
<1> QED
  BY <1>1, <1>2, <1>3, TypeCorrect, EventsAreHeld, PTL DEF Spec
-----------------------------------------------------------------------------
(* Paid tiers.                                                             *)

\* Nobody is about to write what he read before the payment.
NoStaleReader ==
  (\A q \in Provisions : ppc[q] # "seat") /\ (\A s \in Sweeps : spc[s] # "cancel")
Kept == tier \in PaidTiers /\ (Stops = {} => status = "active")
KeptInv == (bought /\ ~ exposed) => Kept /\ NoStaleReader

\* Events are only added, and what they are about does not change.
LEMMA StopsGrow == ASSUME [Next]_vars PROVE Stops \subseteq Stops'
<1>1. marked \subseteq marked' /\ kind' = kind
  BY DEF Next, vars, Claim, HandlerStep, Lookup, CreateUser, Upsert, Close,
         OpenJob, Onboard, Find, Renew, OpenCycle, Dun, End, WinBack, Sync,
         CloseRejected, HandlerThrows, Provision, ProvisionStep, CheckProtected,
         CreateDemoUser, UpsertDemo, Trail, Reassign, ProvisionThrows, SweepStep,
         Scan, Check, Cancel, SweepThrows, Crash, SignUp, Tick, eventRows
<1> QED
  BY <1>1 DEF Stops

\* What an account has paid for is kept unless a provisioning or a sweep had
\* read the row before the payment (upsertDemoSubscription, sweepExpired).
THEOREM PaidTiersAreKept == Spec => []PaidIsKept
<1>1. Init => KeptInv
  BY DEF Init, KeptInv
<1>2. TypeOK /\ HandlerKinds /\ EventInv /\ KeptInv /\ [Next]_vars => KeptInv'
  <2> SUFFICES ASSUME TypeOK, HandlerKinds, EventInv, KeptInv, [Next]_vars,
                      bought', ~ exposed'
               PROVE  Kept' /\ NoStaleReader'
    BY DEF KeptInv
  <2> USE DEF subscriptionRow, prospectRows, eventRows, readings, handlers,
              provisions, sweeps, history, HandlerGoes, ProvisionGoes
  <2>0. /\ ppc \in [Provisions -> {"idle", "read", "create", "seat", "trail"}]
        /\ spc \in [Sweeps -> {"idle", "read", "cancel"}]
    BY DEF TypeOK
  <2>1. Stops \subseteq Stops'
    BY StopsGrow
  <2>2. ASSUME NEW d \in Deliveries, Upsert(d) PROVE Kept' /\ NoStaleReader'
    <3>1. tier' \in PaidTiers /\ status' = "active"
      BY <2>2 DEF Upsert, HandlerKinds, Checkouts, PaidTiers
    <3>2. StaleReaders = {} /\ ppc' = ppc /\ spc' = spc
      BY <2>2 DEF Upsert
    <3>3. NoStaleReader'
      BY <3>2 DEF StaleReaders, NoStaleReader
    <3> QED
      BY <3>1, <3>3 DEF Kept
  <2>3. ASSUME bought' = bought, exposed' = exposed PROVE Kept /\ NoStaleReader
    BY <2>3 DEF KeptInv
  <2>4. ASSUME NEW d \in Deliveries, Dun(d) \/ End(d) \/ Sync(d)
        PROVE  Kept' /\ NoStaleReader'
    <3>1. Kept /\ NoStaleReader
      BY <2>3, <2>4 DEF Dun, End, Sync
    <3>2. EventOf[d] \in Stops'
      BY <2>4 DEF Dun, End, Sync, Stops, HandlerKinds, EventInv, Claimed, Working,
                  HandlerPC
    <3> QED
      BY <2>4, <3>1, <3>2 DEF Dun, End, Sync, Kept, NoStaleReader, PaidTiers
  <2>5. ASSUME NEW d \in Deliveries, Renew(d) PROVE Kept' /\ NoStaleReader'
    BY <2>1, <2>3, <2>5 DEF Renew, Kept, NoStaleReader
  <2>6. ASSUME NEW d \in Deliveries, \/ Claim(d) \/ Lookup(d) \/ CreateUser(d) \/ Close(d)
               \/ OpenJob(d) \/ Onboard(d) \/ Find(d) \/ OpenCycle(d)
               \/ WinBack(d) \/ CloseRejected(d) \/ HandlerThrows(d)
        PROVE  Kept' /\ NoStaleReader'
    <3>1. UNCHANGED <<tier, status, ppc, spc, bought, exposed>>
      BY <2>6 DEF Claim, Lookup, CreateUser, Close, OpenJob, Onboard, Find, OpenCycle, WinBack,
                  CloseRejected, HandlerThrows
    <3> QED
      BY <2>1, <2>3, <3>1 DEF Kept, NoStaleReader
  <2>7. ASSUME NEW q \in Provisions, \/ ProvisionStep(q) \/ ProvisionThrows(q)
                                    \/ \E p \in Prospects : Provision(q, p)
        PROVE  Kept' /\ NoStaleReader'
    <3>1. Kept /\ NoStaleReader
      BY <2>3, <2>7 DEF ProvisionStep, CheckProtected, CreateDemoUser,
                        UpsertDemo, Trail,
                        ProvisionThrows, Provision
    <3>2. ~ UpsertDemo(q)
      BY <3>1 DEF UpsertDemo, NoStaleReader
    <3>3. UNCHANGED <<tier, status, spc>>
      BY <2>7, <3>2 DEF ProvisionStep, CheckProtected, CreateDemoUser, Trail,
                        ProvisionThrows, Provision
    <3>4. \A r \in Provisions : ppc'[r] # "seat"
      BY <2>0, <2>7, <3>1, <3>2
      DEF ProvisionStep, CheckProtected, CreateDemoUser, Trail, ProvisionThrows,
          Provision, Kept, NoStaleReader
    <3> QED
      BY <2>1, <3>1, <3>3, <3>4 DEF Kept, NoStaleReader
  <2>8. ASSUME NEW s \in Sweeps, SweepStep(s) \/ SweepThrows(s)
        PROVE  Kept' /\ NoStaleReader'
    <3>1. Kept /\ NoStaleReader
      BY <2>3, <2>8 DEF SweepStep, Scan, Check, Cancel, SweepThrows
    <3>2. \A p \in Prospects : ~ Cancel(s, p)
      BY <3>1 DEF Cancel, NoStaleReader
    <3>3. UNCHANGED <<tier, status, ppc>>
      BY <2>8, <3>2 DEF SweepStep, Scan, Check, SweepThrows
    <3>4. \A r \in Sweeps : spc'[r] # "cancel"
      BY <2>0, <2>8, <3>1, <3>2
      DEF SweepStep, Scan, Check, Proceed, SweepThrows, Kept, NoStaleReader,
          PaidTiers
    <3> QED
      BY <2>1, <3>1, <3>3, <3>4 DEF Kept, NoStaleReader
  <2>9. CASE Crash
    BY <2>0, <2>1, <2>3, <2>9 DEF Crash, Kept, NoStaleReader
  <2>10. CASE Tick \/ SignUp \/ UNCHANGED vars
    BY <2>1, <2>3, <2>10 DEF Tick, SignUp, vars, Kept, NoStaleReader
  <2>11. ASSUME NEW p \in Prospects, Reassign(p) PROVE Kept' /\ NoStaleReader'
    BY <2>1, <2>3, <2>11 DEF Reassign, Kept, NoStaleReader
  <2> QED
    BY <2>2, <2>4, <2>5, <2>6, <2>7, <2>8, <2>9, <2>10, <2>11 DEF Next, HandlerStep
<1>3. KeptInv => PaidIsKept
  BY DEF KeptInv, Kept, PaidIsKept
<1> QED
  BY <1>1, <1>2, <1>3, TypeCorrect, EventsAreHeld, PTL DEF Spec
=============================================================================

--------------------------- MODULE AgentDispatch ---------------------------
(***************************************************************************)
(* What AgentQueueService promises its callers, without the list it keeps: *)
(* a bounded pool of waiting jobs, a bounded number of executions, the     *)
(* best waiting job first, and a spending cap per institution.             *)
(*                                                                         *)
(* The jobs are those of one institution and one month, and the unmetered  *)
(* ones, whose institutionId is null: institutions share the queue but not *)
(* the budget.  The cap is read from the database before the job is queued *)
(* and the cost of a run is written when the run ends, so nothing reserves *)
(* budget for the jobs in between.  Runs that do not come through the      *)
(* queue write their cost to the same month.                               *)
(***************************************************************************)
EXTENDS Integers, FiniteSets

CONSTANTS Tasks,          \* calls of enqueue
          Metered,        \* those with an institutionId
          Prio,           \* what resolvePriority gives each
          MaxQueueDepth,  \* MAX_QUEUE_DEPTH
          Concurrency,    \* resolveConcurrency's result
          CapCents,       \* resolveCapCents' result: a cap, or null
          MaxCost,        \* bound: the cost of one run, in cents
          MaxCallers,     \* bound: calls between their check and the queue
          MaxBypassed,    \* bound: past this cost no more runs past the queue
          MaxCrashes      \* bound: restarts in a behaviour

NoCap == -1  \* null: the breaker is disabled

ASSUME TasksAssumption ==
  /\ IsFiniteSet(Tasks)
  /\ Metered \subseteq Tasks
  /\ Prio \in [Tasks -> Nat]

ASSUME LimitsAssumption ==
  /\ MaxQueueDepth \in Nat
  /\ Concurrency \in 1..50
  /\ CapCents \in Nat \cup {NoCap}
  /\ MaxCost \in Nat
  /\ MaxCallers \in Nat
  /\ MaxBypassed \in Nat
  /\ MaxCrashes \in Nat

VARIABLES phase,    \* where each call's job is
          arrived,  \* the place of each job in the order of joining
          joins,    \* jobs that ever joined the queue
          spent,    \* the month's sum of costUsdCents
          bypassed, \* history: its part from runs past the queue, since a
                    \* check last let a job in
          crashesLeft

vars == <<phase, arrived, joins, spent, bypassed, crashesLeft>>

Phases == {"new", "allowed", "queued", "running", "charged", "done",
           "overBudget", "queueFull", "lost"}

In(p) == {t \in Tasks : phase[t] = p}

Executing == In("running") \cup In("charged")

\* u is served before v: higher priority, or the same and earlier.
Before(u, v) ==
  \/ Prio[u] > Prio[v]
  \/ Prio[u] = Prio[v] /\ arrived'[u] < arrived'[v]

\* next is phase p after its best waiting jobs have taken the free slots.
Drained(p, next) ==
  LET waiting == {t \in Tasks : p[t] = "queued"}
      busy == {t \in Tasks : p[t] \in {"running", "charged"}}
  IN \E best \in SUBSET waiting :
       /\ Cardinality(busy) + Cardinality(best) <= Concurrency
       /\ Cardinality(busy) + Cardinality(best) = Concurrency \/ best = waiting
       /\ \A u \in best, v \in waiting \ best : Before(u, v)
       /\ next = [t \in Tasks |-> IF t \in best THEN "running" ELSE p[t]]

Init ==
  /\ phase = [t \in Tasks |-> "new"]
  /\ arrived = [t \in Tasks |-> 0]
  /\ joins = 0
  /\ spent = 0
  /\ bypassed = 0
  /\ crashesLeft = MaxCrashes

\* Mutant of Allows: blocks past the cap instead of at it.
AllowsAtCap(sum) == sum <= CapCents

\* Mutant of Allows: only the alert, never the block.
AllowsAlways(sum) == TRUE

\* Not BLOCKED.  With a cap of zero the ratio of nothing to it is not a number.
Allows(sum) ==
  \/ CapCents = NoCap
  \/ sum < CapCents
  \/ sum = 0 /\ CapCents = 0

\* costBreaker.isAllowed for a job of the institution.
Check(t) ==
  /\ phase[t] = "new"
  /\ t \in Metered
  /\ Cardinality(In("allowed")) < MaxCallers
  /\ phase' = [phase EXCEPT ![t] = IF Allows(spent) THEN "allowed"
                                   ELSE "overBudget"]
  /\ bypassed' = IF Allows(spent) THEN 0 ELSE bypassed
  /\ UNCHANGED <<arrived, joins, spent, crashesLeft>>

MayJoin(t) == phase[t] = "allowed" \/ (phase[t] = "new" /\ t \notin Metered)

Reject(t) ==
  /\ MayJoin(t)
  /\ Cardinality(In("queued")) >= MaxQueueDepth
  /\ phase' = [phase EXCEPT ![t] = "queueFull"]
  /\ UNCHANGED <<arrived, joins, spent, bypassed, crashesLeft>>

\* Mutant of Join: the place is not counted up, so two jobs share one.
JoinTied(t) ==
  /\ MayJoin(t)
  /\ Cardinality(In("queued")) < MaxQueueDepth
  /\ arrived' = [arrived EXCEPT ![t] = joins + 1]
  /\ Drained([phase EXCEPT ![t] = "queued"], phase')
  /\ UNCHANGED <<joins, spent, bypassed, crashesLeft>>

Join(t) ==
  /\ MayJoin(t)
  /\ Cardinality(In("queued")) < MaxQueueDepth
  /\ joins' = joins + 1
  /\ arrived' = [arrived EXCEPT ![t] = joins + 1]
  /\ Drained([phase EXCEPT ![t] = "queued"], phase')
  /\ UNCHANGED <<spent, bypassed, crashesLeft>>

\* The run's row gets its final status and its cost.
Charge(t) ==
  /\ phase[t] = "running"
  /\ phase' = [phase EXCEPT ![t] = "charged"]
  /\ \E cost \in 0..MaxCost :
       spent' = IF t \in Metered THEN spent + cost ELSE spent
  /\ UNCHANGED <<arrived, joins, bypassed, crashesLeft>>

Finish(t) ==
  /\ phase[t] = "charged"
  /\ Drained([phase EXCEPT ![t] = "done"], phase')
  /\ UNCHANGED <<arrived, joins, spent, bypassed, crashesLeft>>

\* A run started by the controller, a trigger or the scheduler writes its cost:
\* these call the runner themselves.
Direct ==
  /\ bypassed < MaxBypassed
  /\ \E cost \in 0..MaxCost :
       /\ spent' = spent + cost
       /\ bypassed' = bypassed + cost
  /\ UNCHANGED <<phase, arrived, joins, crashesLeft>>

\* A restart: the queue is in memory.
Crash ==
  /\ crashesLeft > 0
  /\ crashesLeft' = crashesLeft - 1
  /\ phase' = [t \in Tasks |->
                 IF phase[t] \in {"allowed", "queued", "running", "charged"}
                 THEN "lost" ELSE phase[t]]
  /\ UNCHANGED <<arrived, joins, spent, bypassed>>

Step(t) == Check(t) \/ Reject(t) \/ Join(t) \/ Charge(t) \/ Finish(t)

Next == Crash \/ Direct \/ \E t \in Tasks : Step(t)

Spec == Init /\ [][Next]_vars

-----------------------------------------------------------------------------
(* Properties.                                                             *)

\* Types; every job that joined has a place of its own.
TypeOK ==
  /\ phase \in [Tasks -> Phases]
  /\ joins \in Nat
  /\ arrived \in [Tasks -> 0..joins]
  /\ \A t, u \in Tasks : arrived[t] = arrived[u] => t = u \/ arrived[t] = 0
  /\ spent \in Nat
  /\ bypassed \in Nat
  /\ crashesLeft \in 0..MaxCrashes

\* Jobs of the institution that were allowed and have not been paid for.
Unpaid ==
  {t \in Metered : phase[t] \in {"allowed", "queued", "running"}}

\* What can be admitted before the first of it is paid for.
Window == MaxCallers + MaxQueueDepth + Concurrency

\* How far the month can overrun a cap.  Jobs of the queue overrun it by no more
\* than the callers between check and queue, the waiting and the running jobs
\* still cost.  Nothing bounds the runs past the queue, so what these have cost
\* since a check last let a job in comes on top.
OverrunBounded ==
  CapCents # NoCap => spent <= CapCents + MaxCost * Window + bypassed
=============================================================================

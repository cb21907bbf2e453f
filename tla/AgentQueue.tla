----------------------------- MODULE AgentQueue -----------------------------
(***************************************************************************)
(* AgentQueueService: the list of waiting jobs, ordered by insertion, the  *)
(* counter of executions and the drain loop; and the checks of             *)
(* AgentCostCircuitBreakerService in front of it.  JavaScript runs the     *)
(* code between two awaits without interruption, so enqueue from the depth *)
(* check to the end of drain is one step, and so is the finally callback.  *)
(* AgentDispatch says what all this amounts to; Implements relates them.   *)
(***************************************************************************)
EXTENDS Integers, FiniteSets, SequencesExt

CONSTANTS Tasks, Metered, Prio, MaxQueueDepth, Concurrency, CapCents,
          MaxCost, MaxCallers, MaxBypassed, MaxCrashes

NoCap == -1  \* null: the breaker is disabled

ASSUME JobsAssumption ==
  /\ IsFiniteSet(Tasks)
  /\ Metered \subseteq Tasks
  /\ Prio \in [Tasks -> Nat]

ASSUME QueueLimitsAssumption ==
  /\ MaxQueueDepth \in Nat
  /\ Concurrency \in 1..50
  /\ CapCents \in Nat \cup {NoCap}
  /\ MaxCost \in Nat
  /\ MaxCallers \in Nat
  /\ MaxBypassed \in Nat
  /\ MaxCrashes \in Nat

VARIABLES call,        \* where each call of enqueue is
          pending,     \* this.pending
          processing,  \* this.processing
          run,         \* the execution of each accepted job
          joins,       \* number of insertions so far
          enqueuedAt,  \* which of them the job was
          spent,       \* the month's sum of costUsdCents of the institution
          bypassed,    \* history: its part from runs past the queue, since a
                       \* check last let a job in
          crashesLeft

vars == <<call, pending, processing, run, joins, enqueuedAt, spent, bypassed,
          crashesLeft>>

-----------------------------------------------------------------------------
\* Where findIndex puts a job: before the first one of lower priority.
Position(queue, t) ==
  LET lower == {i \in DOMAIN queue : Prio[queue[i]] < Prio[t]}
  IN IF lower = {} THEN Len(queue) + 1 ELSE Min(lower)

\* Mutant of Insert: <= in place of <, so that equals overtake.
InsertBeforeEquals(queue, t) ==
  LET others == {i \in DOMAIN queue : Prio[queue[i]] <= Prio[t]}
  IN InsertAt(queue, IF others = {} THEN Len(queue) + 1 ELSE Min(others), t)

\* Mutant of Insert: no priorities.
InsertAtEnd(queue, t) == Append(queue, t)

Insert(queue, t) == InsertAt(queue, Position(queue, t), t)

\* How many jobs the drain loop shifts.
Taken(busy, queue) == Min({Concurrency - busy, Len(queue)})

\* Mutant of Drain: a finished execution frees its slot only when another is
\* waiting for it.
DrainOnly(queue, busy, after) ==
  LET n == Taken(busy, queue)
      taken == ToSet(SubSeq(queue, 1, n))
  IN /\ pending' = SubSeq(queue, n + 1, Len(queue))
     /\ processing' = IF n = 0 THEN processing ELSE busy + n
     /\ run' = [t \in Tasks |-> IF t \in taken THEN "running" ELSE after[t]]

\* drain, started with this queue, this counter and these executions.
Drain(queue, busy, after) ==
  LET n == Taken(busy, queue)
      taken == ToSet(SubSeq(queue, 1, n))
  IN /\ pending' = SubSeq(queue, n + 1, Len(queue))
     /\ processing' = busy + n
     /\ run' = [t \in Tasks |-> IF t \in taken THEN "running" ELSE after[t]]

Init ==
  /\ call = [t \in Tasks |-> "new"]
  /\ pending = <<>>
  /\ processing = 0
  /\ run = [t \in Tasks |-> "none"]
  /\ joins = 0
  /\ enqueuedAt = [t \in Tasks |-> 0]
  /\ spent = 0
  /\ bypassed = 0
  /\ crashesLeft = MaxCrashes

\* isAllowed: always without a cap; classify: BLOCKED from the cap on, but a cap
\* of zero makes 0/0, which is not.
Allows(sum) ==
  \/ CapCents = NoCap
  \/ sum < CapCents
  \/ sum = 0 /\ CapCents = 0

\* costBreaker.isAllowed, awaited before anything else.
Check(t) ==
  /\ call[t] = "new"
  /\ t \in Metered
  /\ Cardinality({u \in Tasks : call[u] = "allowed"}) < MaxCallers
  /\ call' = [call EXCEPT ![t] = IF Allows(spent) THEN "allowed"
                                 ELSE "overBudget"]
  /\ bypassed' = IF Allows(spent) THEN 0 ELSE bypassed
  /\ UNCHANGED <<pending, processing, run, joins, enqueuedAt, spent,
                 crashesLeft>>

\* Past the budget check, or with no institution to check.
AtQueue(t) == call[t] = "allowed" \/ (call[t] = "new" /\ t \notin Metered)

RejectFull(t) ==
  /\ AtQueue(t)
  /\ Len(pending) >= MaxQueueDepth
  /\ call' = [call EXCEPT ![t] = "queueFull"]
  /\ UNCHANGED <<pending, processing, run, joins, enqueuedAt, spent, bypassed,
                 crashesLeft>>

Enqueue(t) ==
  /\ AtQueue(t)
  /\ Len(pending) < MaxQueueDepth
  /\ call' = [call EXCEPT ![t] = "accepted"]
  /\ joins' = joins + 1
  /\ enqueuedAt' = [enqueuedAt EXCEPT ![t] = joins + 1]
  /\ Drain(Insert(pending, t), processing, run)
  /\ UNCHANGED <<spent, bypassed, crashesLeft>>

\* runner.run settles.  The run's row then holds its cost, or none if the row's
\* last write was lost or the call was a replay.
Settle(t) ==
  /\ run[t] = "running"
  /\ run' = [run EXCEPT ![t] = "settled"]
  /\ \E cost \in 0..MaxCost :
       spent' = IF t \in Metered THEN spent + cost ELSE spent
  /\ UNCHANGED <<call, pending, processing, joins, enqueuedAt, bypassed,
                 crashesLeft>>

\* The finally callback of executeJob.
Release(t) ==
  /\ run[t] = "settled"
  /\ Drain(pending, processing - 1, [run EXCEPT ![t] = "done"])
  /\ UNCHANGED <<call, joins, enqueuedAt, spent, bypassed,
                 crashesLeft>>

\* The row of a run that was started past the queue gets its cost: an agent run
\* by HTTP, by an upload or by the scheduler, which call runner.run themselves.
Direct ==
  /\ bypassed < MaxBypassed
  /\ \E cost \in 0..MaxCost :
       /\ spent' = spent + cost
       /\ bypassed' = bypassed + cost
  /\ UNCHANGED <<call, pending, processing, run, joins, enqueuedAt, crashesLeft>>

\* A restart empties the memory; callers and executions are gone.
Crash ==
  /\ crashesLeft > 0
  /\ crashesLeft' = crashesLeft - 1
  /\ pending' = <<>>
  /\ processing' = 0
  /\ call' = [t \in Tasks |-> IF call[t] = "allowed" THEN "lost" ELSE call[t]]
  /\ run' = [t \in Tasks |->
               IF t \in ToSet(pending) \/ run[t] \in {"running", "settled"}
               THEN "lost" ELSE run[t]]
  /\ UNCHANGED <<joins, enqueuedAt, spent, bypassed>>

Step(t) ==
  Check(t) \/ RejectFull(t) \/ Enqueue(t) \/ Settle(t) \/ Release(t)

Next == Crash \/ Direct \/ \E t \in Tasks : Step(t)

Spec == Init /\ [][Next]_vars

\* A call of enqueue goes on when its check returns; an execution settles
\* because every run has a deadline that aborts it.
FairSpec == Spec /\ \A t \in Tasks : WF_vars(Step(t))

-----------------------------------------------------------------------------
(* Properties.                                                             *)

\* Types; the counter counts the executions; a job waits at most once and only
\* if it was accepted and has not run.
TypeOK ==
  /\ call \in [Tasks -> {"new", "allowed", "accepted", "overBudget",
                         "queueFull", "lost"}]
  /\ pending \in Seq(Tasks)
  /\ IsInjective(pending)
  /\ run \in [Tasks -> {"none", "running", "settled", "done", "lost"}]
  /\ processing = Cardinality({t \in Tasks : run[t] \in {"running", "settled"}})
  /\ \A t \in ToSet(pending) : call[t] = "accepted" /\ run[t] = "none"

\* The list is always in serving order: by priority, and first come first
\* served within one, whatever was inserted and shifted in between.
PendingOrdered ==
  \A i, k \in DOMAIN pending :
    i < k => \/ Prio[pending[i]] > Prio[pending[k]]
             \/ /\ Prio[pending[i]] = Prio[pending[k]]
                /\ enqueuedAt[pending[i]] < enqueuedAt[pending[k]]

\* The counter and the drain loop give every slot a job and no job too many: of
\* the executions themselves, not of the counter, there are never more than
\* Concurrency, and exactly that many while a job waits.
SlotsWellUsed ==
  LET executing == {t \in Tasks : run[t] \in {"running", "settled"}}
  IN /\ Cardinality(executing) <= Concurrency
     /\ pending # <<>> => Cardinality(executing) = Concurrency

\* Where AgentDispatch sees a job.
PhaseOf(t) ==
  CASE t \in ToSet(pending) -> "queued"
    [] run[t] = "settled" -> "charged"
    [] run[t] \in {"running", "done", "lost"} -> run[t]
    [] OTHER -> call[t]

Dispatch == INSTANCE AgentDispatch
              WITH phase <- [t \in Tasks |-> PhaseOf(t)], arrived <- enqueuedAt

\* Keeping a sorted list, a counter and a loop implements choosing the best
\* waiting jobs for the free slots.
Implements == Dispatch!Spec

\* A job of higher priority has joined after t.
Overtaken(t) ==
  \E u \in Tasks : Prio[u] > Prio[t] /\ enqueuedAt[u] > enqueuedAt[t]

\* An accepted job runs to its end, or is lost in a restart, unless jobs of higher
\* priority come in after it.  Those go first whenever they come (findIndex looks
\* at the priority alone, a waiting job never gains any), so a steady stream of
\* them keeps it waiting for ever.
AcceptedIsServed ==
  \A t \in Tasks :
    call[t] = "accepted" ~> (run[t] \in {"done", "lost"} \/ Overtaken(t))
=============================================================================

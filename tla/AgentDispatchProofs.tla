------------------------ MODULE AgentDispatchProofs ------------------------
(***************************************************************************)
(* Proofs about AgentDispatch, for any jobs and priorities, any depth,     *)
(* number of slots and cap, and any cost of a run.                         *)
(***************************************************************************)
EXTENDS AgentDispatch, TLAPS, FiniteSetTheorems

USE TasksAssumption, LimitsAssumption

-----------------------------------------------------------------------------
(* Counting.                                                               *)

\* Sets of jobs have a size, and a part is no larger than the whole.
LEMMA SizeMonotone ==
  ASSUME NEW S \in SUBSET Tasks, NEW R \in SUBSET S
  PROVE  /\ IsFiniteSet(S) /\ IsFiniteSet(R)
         /\ Cardinality(S) \in Nat /\ Cardinality(R) \in Nat
         /\ Cardinality(R) <= Cardinality(S)
<1>1. IsFiniteSet(S) /\ IsFiniteSet(R)
  BY FS_Subset
<1> QED
  BY <1>1, FS_Subset, FS_CardinalityType

\* Disjoint sets of jobs add up; others add up to at least their union.
LEMMA SizeOfUnion ==
  ASSUME NEW S \in SUBSET Tasks, NEW R \in SUBSET Tasks
  PROVE  /\ Cardinality(S \cup R) <= Cardinality(S) + Cardinality(R)
         /\ S \cap R = {} => Cardinality(S \cup R) = Cardinality(S) + Cardinality(R)
<1>1. IsFiniteSet(S) /\ IsFiniteSet(R)
  BY FS_Subset
<1>2. Cardinality(S \cup R) = Cardinality(S) + Cardinality(R) - Cardinality(S \cap R)
  BY <1>1, FS_Union
<1>3. /\ Cardinality(S) \in Nat /\ Cardinality(R) \in Nat
      /\ Cardinality(S \cap R) \in Nat
  BY SizeMonotone, <1>1, FS_Intersection, FS_CardinalityType
<1>4. S \cap R = {} => Cardinality(S \cap R) = 0
  BY FS_EmptySet
<1> QED
  BY <1>2, <1>3, <1>4

\* Multiplying by a cost keeps the order.
LEMMA CostMonotone ==
  ASSUME NEW m \in Nat, NEW n \in Nat, m <= n
  PROVE  /\ MaxCost * m \in Nat
         /\ MaxCost * m <= MaxCost * n
         /\ m < n => MaxCost * m + MaxCost <= MaxCost * n
OBVIOUS

-----------------------------------------------------------------------------
(* The drain.                                                              *)

Waiting(p) == {t \in Tasks : p[t] = "queued"}
Busy(p) == {t \in Tasks : p[t] \in {"running", "charged"}}

\* The drain moves waiting jobs to running ones and nothing else, fills no more
\* than the slots, and leaves a job waiting only when all are filled.
LEMMA DrainFacts ==
  ASSUME NEW p \in [Tasks -> Phases], NEW next, Drained(p, next),
         Cardinality(Busy(p)) <= Concurrency
  PROVE  /\ next \in [Tasks -> Phases]
         /\ \A t \in Tasks : \/ next[t] = p[t]
                             \/ p[t] = "queued" /\ next[t] = "running"
         /\ Cardinality(Busy(next)) <= Concurrency
         /\ Waiting(next) # {} => Cardinality(Busy(next)) = Concurrency
<1>1. PICK best \in SUBSET Waiting(p) :
        /\ Cardinality(Busy(p)) + Cardinality(best) <= Concurrency
        /\ Cardinality(Busy(p)) + Cardinality(best) = Concurrency \/ best = Waiting(p)
        /\ next = [t \in Tasks |-> IF t \in best THEN "running" ELSE p[t]]
  BY DEF Drained, Waiting, Busy
<1>2. /\ next \in [Tasks -> Phases]
      /\ \A t \in Tasks : \/ next[t] = p[t]
                          \/ p[t] = "queued" /\ next[t] = "running"
  BY <1>1 DEF Waiting, Phases
<1>3. Busy(next) = Busy(p) \cup best /\ Busy(p) \cap best = {}
  BY <1>1 DEF Waiting, Busy
<1>4. best \in SUBSET Tasks /\ Busy(p) \in SUBSET Tasks
  BY <1>1 DEF Waiting, Busy
<1>5. Cardinality(Busy(next)) = Cardinality(Busy(p)) + Cardinality(best)
  BY <1>3, <1>4, SizeOfUnion
<1>6. best = Waiting(p) => Waiting(next) = {}
  BY <1>1 DEF Waiting
<1> QED
  BY <1>1, <1>2, <1>5, <1>6

-----------------------------------------------------------------------------
(* Types and slots.                                                        *)

\* No slot is used twice: there is no more to spend at once than the slots allow.
SlotsBounded == Cardinality(Executing) <= Concurrency

LEMMA TypeKept == TypeOK /\ SlotsBounded /\ [Next]_vars => TypeOK'
<1> SUFFICES ASSUME TypeOK, SlotsBounded, [Next]_vars PROVE TypeOK'
  OBVIOUS
<1>0. Cardinality(Busy(phase)) <= Concurrency
  <2>1. Busy(phase) = Executing
    BY DEF Busy, Executing, In
  <2> QED
    BY <2>1 DEF SlotsBounded
<1>1. ASSUME NEW t \in Tasks, Step(t) PROVE TypeOK'
  <2>1. CASE Check(t)
    BY <2>1 DEF Check, TypeOK, Phases
  <2>2. CASE Reject(t)
    BY <2>2 DEF Reject, TypeOK, Phases
  <2>3. CASE Join(t)
    <3> DEFINE p == [phase EXCEPT ![t] = "queued"]
    <3>1. p \in [Tasks -> Phases] /\ Busy(p) = Busy(phase)
      BY <2>3 DEF TypeOK, Phases, Busy, Join, MayJoin
    <3>2. phase' \in [Tasks -> Phases]
      BY <2>3, <3>1, <1>0, DrainFacts DEF Join
    <3>3. /\ joins' = joins + 1
          /\ arrived' = [arrived EXCEPT ![t] = joins + 1]
          /\ UNCHANGED <<spent, bypassed, crashesLeft>>
      BY <2>3 DEF Join
    <3> QED
      BY <3>2, <3>3 DEF TypeOK
  <2>4. CASE Charge(t)
    BY <2>4 DEF Charge, TypeOK, Phases
  <2>5. CASE Finish(t)
    <3> DEFINE p == [phase EXCEPT ![t] = "done"]
    <3>1. p \in [Tasks -> Phases] /\ Busy(p) \in SUBSET Busy(phase)
      BY <2>5 DEF TypeOK, Phases, Busy
    <3>2. Cardinality(Busy(p)) <= Concurrency
      BY <3>1, <1>0, SizeMonotone DEF Busy
    <3>3. phase' \in [Tasks -> Phases]
      BY <2>5, <3>1, <3>2, DrainFacts DEF Finish
    <3> QED
      BY <2>5, <3>3 DEF Finish, TypeOK
  <2> QED
    BY <1>1, <2>1, <2>2, <2>3, <2>4, <2>5 DEF Step
<1>2. CASE Crash
  BY <1>2 DEF Crash, TypeOK, Phases
<1>3. CASE Direct
  BY <1>3 DEF Direct, TypeOK
<1>4. CASE UNCHANGED vars
  BY <1>4 DEF vars, TypeOK
<1> QED
  BY <1>1, <1>2, <1>3, <1>4 DEF Next

\* What the invariant needs of a step that drains.
LEMMA SlotsKept == TypeOK /\ SlotsBounded /\ [Next]_vars => SlotsBounded'
<1> SUFFICES ASSUME TypeOK, SlotsBounded, [Next]_vars PROVE SlotsBounded'
  OBVIOUS
<1>0. /\ Busy(phase) = Executing /\ Busy(phase') = Executing'
      /\ Waiting(phase) = In("queued") /\ Waiting(phase') = In("queued")'
  BY DEF Busy, Executing, In, Waiting
<1>1. ASSUME Busy(phase') = Busy(phase), Waiting(phase') \in SUBSET Waiting(phase)
      PROVE  SlotsBounded'
  BY <1>0, <1>1 DEF SlotsBounded
<1>2. ASSUME NEW t \in Tasks, Step(t) PROVE SlotsBounded'
  <2>1. CASE Check(t) \/ Reject(t)
    <3>1. Busy(phase') = Busy(phase) /\ Waiting(phase') \in SUBSET Waiting(phase)
      BY <2>1 DEF Check, Reject, MayJoin, TypeOK, Busy, Waiting
    <3> QED
      BY <3>1, <1>1
  <2>2. CASE Join(t)
    <3> DEFINE p == [phase EXCEPT ![t] = "queued"]
    <3>1. p \in [Tasks -> Phases] /\ Busy(p) = Busy(phase)
      BY <2>2 DEF TypeOK, Phases, Busy, Join, MayJoin
    <3> QED
      BY <2>2, <3>1, <1>0, DrainFacts DEF Join, SlotsBounded
  <2>3. CASE Charge(t)
    <3>1. Busy(phase') = Busy(phase) /\ Waiting(phase') \in SUBSET Waiting(phase)
      BY <2>3 DEF Charge, TypeOK, Busy, Waiting
    <3> QED
      BY <3>1, <1>1
  <2>4. CASE Finish(t)
    <3> DEFINE p == [phase EXCEPT ![t] = "done"]
    <3>1. p \in [Tasks -> Phases] /\ Busy(p) \in SUBSET Busy(phase)
      BY <2>4 DEF TypeOK, Phases, Busy
    <3>2. Cardinality(Busy(p)) <= Concurrency
      <4>1. Cardinality(Busy(p)) <= Cardinality(Busy(phase))
        BY <3>1, SizeMonotone DEF Busy
      <4> QED
        BY <4>1, <1>0, SizeMonotone DEF SlotsBounded, Busy
    <3> QED
      BY <2>4, <3>1, <3>2, <1>0, DrainFacts DEF Finish, SlotsBounded
  <2> QED
    BY <1>2, <2>1, <2>2, <2>3, <2>4 DEF Step
<1>3. CASE Crash
  <2>1. Busy(phase') = {} /\ Waiting(phase') = {}
    BY <1>3 DEF Crash, Busy, Waiting, TypeOK
  <2>2. Cardinality(Busy(phase')) = 0
    BY <2>1, FS_EmptySet
  <2> QED
    BY <2>1, <2>2, <1>0 DEF SlotsBounded
<1>4. CASE Direct \/ UNCHANGED vars
  BY <1>4 DEF Direct, vars, SlotsBounded, Executing, In
<1> QED
  BY <1>2, <1>3, <1>4 DEF Next

LEMMA InitSlots == Init => TypeOK /\ SlotsBounded
<1> SUFFICES ASSUME Init PROVE TypeOK /\ SlotsBounded
  OBVIOUS
<1>1. TypeOK
  BY DEF Init, TypeOK, Phases
<1>2. Executing = {} /\ In("queued") = {}
  BY DEF Init, Executing, In
<1> QED
  BY <1>1, <1>2, FS_EmptySet DEF SlotsBounded

\* Every variable keeps its type and no two jobs share a place in the order.
THEOREM TypeCorrect == Spec => []TypeOK
  BY InitSlots, TypeKept, SlotsKept, PTL DEF Spec

-----------------------------------------------------------------------------
(* The budget.                                                             *)

\* The most the month can have come to.
Limit == CapCents + MaxCost * Window + bypassed

\* The pools before the slots are bounded, and what is admitted is covered: the
\* month's sum, plus the full cost of every job that may still be charged, stays
\* within a cap plus one full window and what ran past the queue.
BudgetInv ==
  /\ Cardinality(In("allowed")) <= MaxCallers
  /\ Cardinality(In("queued")) <= MaxQueueDepth
  /\ CapCents # NoCap => spent + MaxCost * Cardinality(Unpaid) <= Limit

\* The sum and the unpaid jobs of any state that the invariant covers.
LEMMA Covered ==
  ASSUME spent \in Nat, spent' \in Nat, Unpaid' \in SUBSET Unpaid,
         bypassed \in Nat, bypassed' = bypassed, CapCents # NoCap,
         spent' = spent \/ (/\ Unpaid' # Unpaid
                           /\ spent' <= spent + MaxCost),
         spent + MaxCost * Cardinality(Unpaid) <= Limit
  PROVE  spent' + MaxCost * Cardinality(Unpaid') <= Limit'
<1> DEFINE m == Cardinality(Unpaid') n == Cardinality(Unpaid)
<1>1. Unpaid \in SUBSET Tasks /\ IsFiniteSet(Unpaid)
  <2>1. Unpaid \in SUBSET Tasks
    BY DEF Unpaid
  <2> QED
    BY <2>1, SizeMonotone
<1>2. m \in Nat /\ n \in Nat /\ m <= n
  BY <1>1, SizeMonotone
<1>3. Unpaid' # Unpaid => m < n
  BY <1>1, FS_Subset, FS_CardinalityType, <1>2
<1>4. Limit \in Int /\ Limit' = Limit
  <2>1. Window \in Nat
    BY DEF Window
  <2>2. MaxCost * Window \in Nat /\ CapCents \in Nat
    BY <2>1
  <2> QED
    BY <2>2 DEF Limit, Window
<1>5. MaxCost * m \in Nat /\ MaxCost * n \in Nat /\ MaxCost * m <= MaxCost * n
  BY <1>2, CostMonotone
<1>6. CASE spent' = spent
  BY <1>4, <1>5, <1>6
<1>7. CASE Unpaid' # Unpaid /\ spent' <= spent + MaxCost
  <2>1. MaxCost * m + MaxCost <= MaxCost * n
    BY <1>2, <1>3, <1>7, CostMonotone
  <2> QED
    BY <1>4, <1>5, <1>7, <2>1
<1> QED
  BY <1>6, <1>7

\* One element more.
LEMMA OneMore ==
  ASSUME NEW S \in SUBSET Tasks, NEW R \in SUBSET Tasks, NEW t \in Tasks,
         R \subseteq S \cup {t}
  PROVE  Cardinality(R) <= Cardinality(S) + 1
<1>1. S \cup {t} \in SUBSET Tasks /\ {t} \in SUBSET Tasks
  OBVIOUS
<1>2. Cardinality(R) <= Cardinality(S \cup {t})
  BY <1>1, SizeMonotone
<1>3. Cardinality(S \cup {t}) <= Cardinality(S) + Cardinality({t})
  BY <1>1, SizeOfUnion
<1>4. Cardinality({t}) = 1
  BY FS_Singleton
<1>5. /\ Cardinality(R) \in Nat /\ Cardinality(S) \in Nat
      /\ Cardinality(S \cup {t}) \in Nat
  BY <1>1, SizeMonotone
<1> QED
  BY <1>2, <1>3, <1>4, <1>5

\* What is covered by three pools is no larger than the three together.
LEMMA ThreePools ==
  ASSUME NEW A \in SUBSET Tasks, NEW Q \in SUBSET Tasks, NEW E \in SUBSET Tasks,
         NEW U \in SUBSET Tasks, U \subseteq (A \cup Q) \cup E,
         Cardinality(A) <= MaxCallers,
         Cardinality(Q) <= MaxQueueDepth,
         Cardinality(E) <= Concurrency
  PROVE  Cardinality(U) <= Window
<1>1. A \cup Q \in SUBSET Tasks /\ (A \cup Q) \cup E \in SUBSET Tasks
  OBVIOUS
<1>2. Cardinality(U) <= Cardinality((A \cup Q) \cup E)
  BY <1>1, SizeMonotone
<1>3. Cardinality((A \cup Q) \cup E) <= Cardinality(A \cup Q) + Cardinality(E)
  BY <1>1, SizeOfUnion
<1>4. Cardinality(A \cup Q) <= Cardinality(A) + Cardinality(Q)
  BY SizeOfUnion
<1>5. /\ Cardinality(U) \in Nat
      /\ Cardinality(A) \in Nat
      /\ Cardinality(Q) \in Nat
      /\ Cardinality(E) \in Nat
      /\ Cardinality(A \cup Q) \in Nat
      /\ Cardinality((A \cup Q) \cup E) \in Nat
  BY <1>1, SizeMonotone
<1> QED
  BY <1>2, <1>3, <1>4, <1>5 DEF Window

LEMMA BudgetKept ==
  TypeOK /\ SlotsBounded /\ BudgetInv /\ [Next]_vars => BudgetInv'
<1> SUFFICES ASSUME TypeOK, SlotsBounded, BudgetInv, [Next]_vars
             PROVE  BudgetInv'
  OBVIOUS
<1>0. TypeOK' /\ SlotsBounded'
  BY TypeKept, SlotsKept
<1>1. /\ In("allowed") \in SUBSET Tasks /\ In("allowed")' \in SUBSET Tasks
      /\ In("queued") \in SUBSET Tasks /\ In("queued")' \in SUBSET Tasks
      /\ spent \in Nat /\ spent' \in Nat
      /\ bypassed \in Nat /\ bypassed' \in Nat
  BY <1>0 DEF In, TypeOK
\* A step that only empties the pools.
<1>2. ASSUME In("allowed")' \subseteq In("allowed"),
             In("queued")' \subseteq In("queued"),
             Unpaid' \subseteq Unpaid,
             spent' = spent \/ (Unpaid' # Unpaid /\ spent' <= spent + MaxCost),
             bypassed' = bypassed
      PROVE  BudgetInv'
  <2>1. /\ Cardinality(In("allowed")') <= MaxCallers
        /\ Cardinality(In("queued")') <= MaxQueueDepth
    <3>1. /\ Cardinality(In("allowed")') <= Cardinality(In("allowed"))
          /\ Cardinality(In("queued")') <= Cardinality(In("queued"))
          /\ Cardinality(In("allowed")') \in Nat /\ Cardinality(In("allowed")) \in Nat
          /\ Cardinality(In("queued")') \in Nat /\ Cardinality(In("queued")) \in Nat
      BY <1>1, <1>2, SizeMonotone
    <3> QED
      BY <3>1 DEF BudgetInv
  <2>2. CapCents # NoCap => spent' + MaxCost * Cardinality(Unpaid') <= Limit'
    BY <1>1, <1>2, Covered DEF BudgetInv
  <2> QED
    BY <2>1, <2>2 DEF BudgetInv
<1>3. Cardinality(Busy(phase)) <= Concurrency
  <2>1. Busy(phase) = Executing
    BY DEF Busy, Executing, In
  <2> QED
    BY <2>1 DEF SlotsBounded
<1>4. ASSUME NEW t \in Tasks, Step(t) PROVE BudgetInv'
  <2>1. CASE Check(t) /\ Allows(spent)
    <3>1. /\ In("allowed")' \subseteq In("allowed") \cup {t}
          /\ In("queued")' = In("queued")
          /\ Cardinality(In("allowed")) < MaxCallers
          /\ spent' = spent /\ (CapCents # NoCap => spent <= CapCents)
          /\ bypassed' = 0
      BY <2>1, <1>1 DEF Check, Allows, In, TypeOK
    <3>2. Cardinality(In("allowed")') <= MaxCallers
      <4>1. Cardinality(In("allowed")') <= Cardinality(In("allowed")) + 1
        BY <1>1, <3>1, OneMore
      <4>2. Cardinality(In("allowed")) \in Nat /\ Cardinality(In("allowed")') \in Nat
        BY <1>1, SizeMonotone
      <4> QED
        BY <3>1, <4>1, <4>2
    <3>3. Cardinality(In("queued")') <= MaxQueueDepth
      BY <3>1 DEF BudgetInv
    <3>4. Cardinality(Unpaid') <= Window
      <4>1. /\ Unpaid' \in SUBSET Tasks /\ Executing' \in SUBSET Tasks
            /\ Unpaid' \subseteq (In("allowed")' \cup In("queued")') \cup Executing'
        BY DEF Unpaid, In, Executing
      <4>2. Cardinality(Executing') <= Concurrency
        BY <1>0 DEF SlotsBounded
      <4> QED
        BY <1>1, <3>2, <3>3, <4>1, <4>2, ThreePools
    <3>5. Cardinality(Unpaid') \in Nat /\ Window \in Nat
      <4>1. Unpaid' \in SUBSET Tasks
        BY DEF Unpaid
      <4> QED
        BY <4>1, SizeMonotone DEF Window
    <3>6. /\ MaxCost * Cardinality(Unpaid') <= MaxCost * Window
          /\ MaxCost * Cardinality(Unpaid') \in Nat /\ MaxCost * Window \in Nat
      BY <3>4, <3>5, CostMonotone
    <3>7. CapCents # NoCap => spent' + MaxCost * Cardinality(Unpaid') <= Limit'
      <4> SUFFICES ASSUME CapCents # NoCap
                   PROVE  spent' + MaxCost * Cardinality(Unpaid') <= Limit'
        OBVIOUS
      <4>1. CapCents \in Nat /\ Limit' = CapCents + MaxCost * Window
        BY <3>1, <3>6 DEF Limit, Window
      <4> QED
        BY <1>1, <3>1, <3>6, <4>1
    <3> QED
      BY <3>2, <3>3, <3>7 DEF BudgetInv
  <2>2. CASE (Check(t) /\ ~Allows(spent)) \/ Reject(t)
    <3>1. /\ In("allowed")' \subseteq In("allowed")
          /\ In("queued")' \subseteq In("queued")
          /\ Unpaid' \subseteq Unpaid
          /\ spent' = spent /\ bypassed' = bypassed
      BY <2>2 DEF Check, Reject, In, Unpaid, TypeOK
    <3> QED
      BY <3>1, <1>2
  <2>3. CASE Join(t)
    <3> DEFINE p == [phase EXCEPT ![t] = "queued"]
    <3>1. p \in [Tasks -> Phases] /\ Busy(p) = Busy(phase)
      BY <2>3 DEF TypeOK, Phases, Busy, Join, MayJoin
    <3>2. /\ \A u \in Tasks : \/ phase'[u] = p[u]
                              \/ p[u] = "queued" /\ phase'[u] = "running"
          /\ spent' = spent /\ bypassed' = bypassed
      BY <2>3, <3>1, <1>3, DrainFacts DEF Join
    <3>3. /\ In("allowed")' \subseteq In("allowed")
          /\ In("queued")' \subseteq In("queued") \cup {t}
          /\ Unpaid' \subseteq Unpaid
      BY <2>3, <3>2 DEF In, Unpaid, TypeOK, Join, MayJoin
    <3>4. Cardinality(In("allowed")') <= MaxCallers
      <4>1. /\ Cardinality(In("allowed")') <= Cardinality(In("allowed"))
            /\ Cardinality(In("allowed")') \in Nat /\ Cardinality(In("allowed")) \in Nat
        BY <1>1, <3>3, SizeMonotone
      <4> QED
        BY <4>1 DEF BudgetInv
    <3>5. Cardinality(In("queued")') <= MaxQueueDepth
      <4>1. Cardinality(In("queued")') <= Cardinality(In("queued")) + 1
        BY <1>1, <3>3, OneMore
      <4>2. Cardinality(In("queued")) \in Nat /\ Cardinality(In("queued")') \in Nat
        BY <1>1, SizeMonotone
      <4>3. Cardinality(In("queued")) < MaxQueueDepth
        BY <2>3 DEF Join
      <4> QED
        BY <4>1, <4>2, <4>3
    <3>6. CapCents # NoCap => spent' + MaxCost * Cardinality(Unpaid') <= Limit'
      BY <1>1, <3>2, <3>3, Covered DEF BudgetInv
    <3> QED
      BY <3>4, <3>5, <3>6 DEF BudgetInv
  <2>4. CASE Charge(t)
    <3>1. /\ In("allowed")' \subseteq In("allowed")
          /\ In("queued")' \subseteq In("queued")
          /\ Unpaid' = Unpaid \ {t}
          /\ t \in Metered => t \in Unpaid
      BY <2>4 DEF Charge, In, Unpaid, TypeOK
    <3>2. /\ spent' = spent \/ (t \in Metered /\ spent' <= spent + MaxCost)
          /\ bypassed' = bypassed
      BY <2>4, <1>1 DEF Charge
    <3> QED
      BY <3>1, <3>2, <1>2
  <2>5. CASE Finish(t)
    <3> DEFINE p == [phase EXCEPT ![t] = "done"]
    <3>1. p \in [Tasks -> Phases] /\ Busy(p) \in SUBSET Busy(phase)
      BY <2>5 DEF TypeOK, Phases, Busy
    <3>2. Cardinality(Busy(p)) <= Concurrency
      <4>1. /\ Cardinality(Busy(p)) <= Cardinality(Busy(phase))
            /\ Cardinality(Busy(p)) \in Nat /\ Cardinality(Busy(phase)) \in Nat
        BY <3>1, SizeMonotone DEF Busy
      <4> QED
        BY <4>1, <1>3
    <3>3. /\ \A u \in Tasks : \/ phase'[u] = p[u]
                              \/ p[u] = "queued" /\ phase'[u] = "running"
          /\ spent' = spent /\ bypassed' = bypassed
      BY <2>5, <3>1, <3>2, DrainFacts DEF Finish
    <3>4. /\ In("allowed")' \subseteq In("allowed")
          /\ In("queued")' \subseteq In("queued")
          /\ Unpaid' \subseteq Unpaid
      BY <2>5, <3>3 DEF In, Unpaid, TypeOK, Finish
    <3> QED
      BY <3>3, <3>4, <1>2
  <2> QED
    BY <1>4, <2>1, <2>2, <2>3, <2>4, <2>5 DEF Step
<1>5. CASE Crash
  <2>1. /\ In("allowed")' \subseteq In("allowed")
        /\ In("queued")' \subseteq In("queued")
        /\ Unpaid' \subseteq Unpaid
        /\ spent' = spent /\ bypassed' = bypassed
    BY <1>5 DEF Crash, In, Unpaid, TypeOK
  <2> QED
    BY <2>1, <1>2
\* A run past the queue adds the same to both sides.
<1>6. CASE Direct
  <2>1. PICK cost \in 0..MaxCost :
          /\ spent' = spent + cost /\ bypassed' = bypassed + cost
          /\ phase' = phase
    BY <1>6 DEF Direct
  <2>2. In("allowed")' = In("allowed") /\ In("queued")' = In("queued")
        /\ Unpaid' = Unpaid
    BY <2>1 DEF In, Unpaid
  <2>3. Window \in Nat /\ Window' = Window /\ Unpaid \in SUBSET Tasks
    BY DEF Window, Unpaid
  <2>4. Cardinality(Unpaid) \in Nat
    BY <2>3, SizeMonotone
  <2>5. MaxCost * Cardinality(Unpaid) \in Nat /\ MaxCost * Window \in Nat
    BY <2>3, <2>4
  <2>6. CapCents # NoCap => spent' + MaxCost * Cardinality(Unpaid') <= Limit'
    BY <1>1, <2>1, <2>2, <2>3, <2>5 DEF BudgetInv, Limit
  <2> QED
    BY <2>2, <2>6 DEF BudgetInv
<1>7. CASE UNCHANGED vars
  BY <1>7, <1>2 DEF vars, In, Unpaid
<1> QED
  BY <1>4, <1>5, <1>6, <1>7 DEF Next

\* The sum of the month stays within a cap plus the full cost of what can be let
\* in between two charges (callers past their check, waiting jobs and running
\* ones) and what runs past the queue have cost since the last admission.
THEOREM OverrunIsBounded == Spec => []OverrunBounded
<1>0. Window \in Nat /\ MaxCost * 0 = 0
  BY DEF Window
<1>1. MaxCost * Window \in Nat /\ (CapCents # NoCap => CapCents \in Nat)
  BY <1>0
<1>2. Init => BudgetInv
  <2> SUFFICES ASSUME Init PROVE BudgetInv
    OBVIOUS
  <2>1. In("allowed") = {} /\ In("queued") = {} /\ Unpaid = {}
        /\ spent = 0 /\ bypassed = 0
    BY DEF Init, In, Unpaid
  <2>2. Cardinality(In("allowed")) = 0 /\ Cardinality(In("queued")) = 0
        /\ Cardinality(Unpaid) = 0
    BY <2>1, FS_EmptySet
  <2>3. CapCents # NoCap => spent + MaxCost * Cardinality(Unpaid) <= Limit
    BY <1>0, <1>1, <2>1, <2>2 DEF Limit
  <2> QED
    BY <2>2, <2>3 DEF BudgetInv
<1>3. TypeOK /\ BudgetInv => OverrunBounded
  <2> SUFFICES ASSUME TypeOK, BudgetInv, CapCents # NoCap
               PROVE  spent <= CapCents + MaxCost * Window + bypassed
    BY DEF OverrunBounded
  <2>1. Cardinality(Unpaid) \in Nat
    <3>1. Unpaid \in SUBSET Tasks
      BY DEF Unpaid
    <3> QED
      BY <3>1, SizeMonotone
  <2>2. MaxCost * Cardinality(Unpaid) \in Nat
    BY <2>1
  <2> QED
    BY <1>1, <2>2 DEF BudgetInv, TypeOK, Limit
<1> QED
  BY <1>2, <1>3, InitSlots, TypeKept, SlotsKept, BudgetKept, PTL DEF Spec
=============================================================================

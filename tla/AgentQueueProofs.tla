-------------------------- MODULE AgentQueueProofs --------------------------
(***************************************************************************)
(* Proofs about AgentQueue, for any jobs and priorities, any depth, number *)
(* of slots and cap: the list stays in serving order, and the list, the    *)
(* counter and the drain loop implement AgentDispatch.                     *)
(***************************************************************************)
EXTENDS AgentQueue, TLAPS, FiniteSetTheorems, SequenceTheorems

USE JobsAssumption, QueueLimitsAssumption

-----------------------------------------------------------------------------
(* Least elements.                                                         *)

\* The least position of a nonempty set of them.
LEMMA MinOfPositions ==
  ASSUME NEW N \in SUBSET Nat, N # {}
  PROVE  /\ Min(N) \in N
         /\ \A n \in N : Min(N) <= n
<1> DEFINE Below == {ss \in Nat \X Nat : ss[1] < ss[2]}
<1>1. IsWellFoundedOn(Below, Nat)
  BY NatLessThanWellFounded DEF OpToRel
<1> HIDE DEF Below
<1>2. PICK m \in N : \A n \in N : <<n, m>> \notin Below
  BY <1>1, WFMin
<1>3. \A n \in N : ~ (n < m)
  BY <1>2 DEF Below
<1>4. \A n \in N : m <= n
  BY <1>2, <1>3
<1> QED
  BY <1>2, <1>4 DEF Min

\* How many jobs are taken: all there are or all there is room for.
LEMMA TakenIs ==
  ASSUME NEW queue \in Seq(Tasks), NEW busy \in 0 .. Concurrency
  PROVE  /\ Taken(busy, queue) \in 0 .. Len(queue)
         /\ busy + Taken(busy, queue) <= Concurrency
         /\ \/ busy + Taken(busy, queue) = Concurrency
            \/ Taken(busy, queue) = Len(queue)
<1> DEFINE N == {Concurrency - busy, Len(queue)}
<1>1. N \in SUBSET Nat /\ N # {}
  OBVIOUS
<1> HIDE DEF N
<1>2. Min(N) \in N /\ \A n \in N : Min(N) <= n
  BY <1>1, MinOfPositions
<1> QED
  BY <1>2 DEF N, Taken

-----------------------------------------------------------------------------
(* The list.                                                               *)

\* findIndex: every job before the place has at least the priority of the new
\* one, and the job at the place has less.
LEMMA PositionIs ==
  ASSUME NEW queue \in Seq(Tasks), NEW t \in Tasks
  PROVE  /\ Position(queue, t) \in 1 .. Len(queue) + 1
         /\ \A i \in 1 .. Position(queue, t) - 1 : Prio[queue[i]] >= Prio[t]
         /\ Position(queue, t) <= Len(queue) =>
              Prio[queue[Position(queue, t)]] < Prio[t]
<1> DEFINE lower == {i \in DOMAIN queue : Prio[queue[i]] < Prio[t]}
<1>1. lower \in SUBSET Nat /\ lower \subseteq 1 .. Len(queue)
  OBVIOUS
<1>2. \A i \in 1 .. Len(queue) : queue[i] \in Tasks /\ Prio[queue[i]] \in Nat
  OBVIOUS
<1>3. CASE lower = {}
  BY <1>2, <1>3 DEF Position
<1>4. CASE lower # {}
  <2>1. Position(queue, t) = Min(lower)
    BY <1>4 DEF Position
  <2>2. Min(lower) \in lower /\ \A n \in lower : Min(lower) <= n
    BY <1>1, <1>4, MinOfPositions
  <2> DEFINE p == Min(lower)
  <2>3. p \in 1 .. Len(queue) /\ Prio[queue[p]] < Prio[t]
    BY <2>2
  <2>4. ASSUME NEW i \in 1 .. p - 1 PROVE Prio[queue[i]] >= Prio[t]
    <3>1. i \in 1 .. Len(queue) /\ ~ (p <= i)
      BY <2>3
    <3>2. i \notin lower
      BY <2>2, <3>1
    <3>3. ~ (Prio[queue[i]] < Prio[t])
      BY <3>1, <3>2
    <3> QED
      BY <1>2, <3>1, <3>3
  <2> QED
    BY <2>1, <2>3, <2>4
<1> QED
  BY <1>3, <1>4

\* splice: the jobs before the place stay, the others move up by one.
LEMMA InsertIs ==
  ASSUME NEW queue \in Seq(Tasks), NEW t \in Tasks
  PROVE  LET q == Insert(queue, t)
             p == Position(queue, t)
         IN /\ q \in Seq(Tasks)
            /\ Len(q) = Len(queue) + 1
            /\ q[p] = t
            /\ \A i \in 1 .. p - 1 : q[i] = queue[i]
            /\ \A i \in p + 1 .. Len(queue) + 1 : q[i] = queue[i - 1]
<1> DEFINE p == Position(queue, t)
           front == SubSeq(queue, 1, p - 1)
           back == SubSeq(queue, p, Len(queue))
<1>1. p \in 1 .. Len(queue) + 1 /\ Len(queue) \in Nat
  BY PositionIs
<1> HIDE DEF p
<1>2. \A i \in 1 .. Len(queue) : queue[i] \in Tasks
  OBVIOUS
<1>3. /\ front \in Seq(Tasks) /\ Len(front) = p - 1
      /\ \A i \in 1 .. p - 1 : front[i] = queue[i]
  BY <1>1, <1>2, SubSeqProperties
<1>4. /\ back \in Seq(Tasks) /\ Len(back) = Len(queue) - p + 1
      /\ \A i \in 1 .. Len(queue) - p + 1 : back[i] = queue[p + i - 1]
  BY <1>1, <1>2, SubSeqProperties
<1> HIDE DEF front, back
<1>5. <<t>> \in Seq(Tasks) /\ Len(<<t>>) = 1 /\ <<t>>[1] = t
  OBVIOUS
<1> DEFINE begin == front \o <<t>>
<1>6. /\ begin \in Seq(Tasks) /\ Len(begin) = p
      /\ \A i \in 1 .. p : begin[i] = IF i < p THEN queue[i] ELSE t
  BY <1>1, <1>3, <1>5, ConcatProperties
<1> HIDE DEF begin
<1> DEFINE q == begin \o back
<1>7. /\ q \in Seq(Tasks) /\ Len(q) = Len(queue) + 1
      /\ \A i \in 1 .. p : q[i] = begin[i]
      /\ \A i \in p + 1 .. Len(queue) + 1 : q[i] = back[i - p]
  <2>1. /\ q \in Seq(Tasks) /\ Len(q) = p + Len(back)
        /\ \A i \in 1 .. p + Len(back) :
             q[i] = IF i <= p THEN begin[i] ELSE back[i - p]
    BY <1>4, <1>6, ConcatProperties
  <2>2. p + Len(back) = Len(queue) + 1
    BY <1>1, <1>4
  <2> HIDE DEF q
  <2>3. \A i \in 1 .. Len(queue) + 1 :
          q[i] = IF i <= p THEN begin[i] ELSE back[i - p]
    BY <2>1, <2>2
  <2>4. \A i \in 1 .. p : i \in 1 .. Len(queue) + 1 /\ i <= p
    BY <1>1
  <2>5. \A i \in p + 1 .. Len(queue) + 1 : i \in 1 .. Len(queue) + 1 /\ ~ (i <= p)
    BY <1>1
  <2> QED
    BY <2>1, <2>2, <2>3, <2>4, <2>5, Zenon
<1>8. Insert(queue, t) = q
  BY DEF Insert, InsertAt, q, begin, front, back, p
<1> HIDE DEF q
<1>9. ASSUME NEW k \in p + 1 .. Len(queue) + 1 PROVE q[k] = queue[k - 1]
  <2>1. q[k] = back[k - p]
    BY <1>7
  <2>2. k - p \in 1 .. Len(queue) - p + 1
    BY <1>1
  <2>3. back[k - p] = queue[p + (k - p) - 1]
    BY <1>4, <2>2
  <2>4. p + (k - p) - 1 = k - 1
    BY <1>1
  <2> QED
    BY <2>1, <2>3, <2>4
<1>10. q[p] = t /\ \A i \in 1 .. p - 1 : q[i] = queue[i]
  BY <1>1, <1>6, <1>7
<1> QED
  BY <1>7, <1>8, <1>9, <1>10, Zenon DEF p

\* The jobs of the list after an insertion.
LEMMA InsertSet ==
  ASSUME NEW queue \in Seq(Tasks), NEW t \in Tasks,
         IsInjective(queue), t \notin ToSet(queue)
  PROVE  /\ ToSet(Insert(queue, t)) = ToSet(queue) \cup {t}
         /\ IsInjective(Insert(queue, t))
<1> DEFINE q == Insert(queue, t)
           p == Position(queue, t)
<1>1. p \in 1 .. Len(queue) + 1 /\ Len(queue) \in Nat
  BY PositionIs
<1>2. /\ q \in Seq(Tasks) /\ Len(q) = Len(queue) + 1
      /\ q[p] = t
      /\ \A i \in 1 .. p - 1 : q[i] = queue[i]
      /\ \A i \in p + 1 .. Len(queue) + 1 : q[i] = queue[i - 1]
  BY InsertIs
<1> HIDE DEF q, p
<1>3. DOMAIN q = 1 .. Len(queue) + 1 /\ DOMAIN queue = 1 .. Len(queue)
  BY <1>2
<1>4. \A i \in 1 .. Len(queue) : queue[i] # t
  BY <1>3 DEF ToSet
<1> DEFINE New(i) == IF i < p THEN i ELSE i + 1
           Old(i) == IF i < p THEN i ELSE i - 1
<1>5. ASSUME NEW i \in 1 .. Len(queue)
      PROVE  New(i) \in DOMAIN q /\ q[New(i)] = queue[i]
  <2>1. CASE i < p
    BY <1>1, <1>2, <1>3, <2>1
  <2>2. CASE i >= p
    <3> DEFINE k == i + 1
    <3>1. New(i) = k /\ k \in p + 1 .. Len(queue) + 1 /\ k - 1 = i
      BY <1>1, <2>2
    <3> HIDE DEF k
    <3>2. q[k] = queue[k - 1]
      BY <1>2, <3>1
    <3> QED
      BY <1>1, <1>3, <3>1, <3>2
  <2> QED
    BY <1>1, <2>1, <2>2
<1>6. ASSUME NEW i \in DOMAIN q, i # p
      PROVE  /\ Old(i) \in 1 .. Len(queue) /\ New(Old(i)) = i
             /\ q[i] = queue[Old(i)]
  <2>1. Old(i) \in 1 .. Len(queue) /\ New(Old(i)) = i
    BY <1>1, <1>3, <1>6
  <2> QED
    BY <1>5, <2>1
<1> HIDE DEF New, Old
<1>7. ToSet(q) = ToSet(queue) \cup {t}
  <2>1. t \in ToSet(q)
    BY <1>1, <1>2, <1>3 DEF ToSet
  <2>2. \A i \in DOMAIN queue : queue[i] \in ToSet(q)
    BY <1>3, <1>5 DEF ToSet
  <2>3. \A i \in DOMAIN q : q[i] = t \/ q[i] \in ToSet(queue)
    BY <1>2, <1>3, <1>6 DEF ToSet
  <2> QED
    BY <2>1, <2>2, <2>3 DEF ToSet
<1>8. ASSUME NEW i \in DOMAIN q, NEW k \in DOMAIN q, q[i] = q[k] PROVE i = k
  <2>1. CASE i # p /\ k # p
    <3>1. queue[Old(i)] = queue[Old(k)]
      BY <1>6, <1>8, <2>1
    <3>2. Old(i) = Old(k)
      BY <1>3, <1>6, <2>1, <3>1 DEF IsInjective
    <3> QED
      BY <1>6, <2>1, <3>2
  <2>2. CASE i = p \/ k = p
    BY <1>2, <1>4, <1>6, <1>8, <2>2
  <2> QED
    BY <2>1, <2>2
<1> QED
  BY <1>7, <1>8 DEF q, IsInjective

\* Serving order: by priority, and within one by the place in at.
Precedes(u, v, at) ==
  Prio[u] > Prio[v] \/ (Prio[u] = Prio[v] /\ at[u] < at[v])

Sorted(queue, at) ==
  \A i, k \in DOMAIN queue : i < k => Precedes(queue[i], queue[k], at)

\* A list in serving order stays in it when a job with a later place goes where
\* findIndex puts it.
LEMMA InsertSorted ==
  ASSUME NEW queue \in Seq(Tasks), NEW t \in Tasks, NEW at \in [Tasks -> Nat],
         Sorted(queue, at), \A i \in DOMAIN queue : at[queue[i]] < at[t]
  PROVE  Sorted(Insert(queue, t), at)
<1> DEFINE q == Insert(queue, t)
           p == Position(queue, t)
<1>1. /\ p \in 1 .. Len(queue) + 1 /\ Len(queue) \in Nat
      /\ \A i \in 1 .. p - 1 : Prio[queue[i]] >= Prio[t]
      /\ p <= Len(queue) => Prio[queue[p]] < Prio[t]
  BY PositionIs
<1>2. /\ q \in Seq(Tasks) /\ Len(q) = Len(queue) + 1
      /\ q[p] = t
      /\ \A i \in 1 .. p - 1 : q[i] = queue[i]
      /\ \A i \in p + 1 .. Len(queue) + 1 : q[i] = queue[i - 1]
  BY InsertIs
<1> HIDE DEF q, p
<1>3. DOMAIN q = 1 .. Len(queue) + 1 /\ DOMAIN queue = 1 .. Len(queue)
  BY <1>2
<1>4. \A i \in 1 .. Len(queue) : queue[i] \in Tasks /\ Prio[queue[i]] \in Nat
  OBVIOUS
<1>5. Prio[t] \in Nat
  OBVIOUS
<1>6. ASSUME NEW i \in 1 .. p - 1 PROVE Precedes(queue[i], t, at)
  <2>1. i \in 1 .. Len(queue)
    BY <1>1
  <2>2. Prio[queue[i]] >= Prio[t] /\ at[queue[i]] < at[t]
    BY <1>1, <1>3, <2>1
  <2> QED
    BY <1>4, <1>5, <2>1, <2>2 DEF Precedes
\* The jobs behind the place: the first of them has less, the others no more.
<1>7. ASSUME NEW i \in p .. Len(queue) PROVE Precedes(t, queue[i], at)
  <2>1. Prio[queue[p]] < Prio[t] /\ p \in 1 .. Len(queue) /\ i \in 1 .. Len(queue)
    BY <1>1
  <2>2. CASE i = p
    BY <2>1, <2>2 DEF Precedes
  <2>3. CASE i # p
    <3>1. Precedes(queue[p], queue[i], at)
      <4>1. p < i
        BY <1>1, <2>3
      <4> QED
        BY <1>3, <2>1, <4>1 DEF Sorted
    <3> DEFINE a == Prio[queue[p]]
               b == Prio[queue[i]]
    <3>2. a \in Nat /\ b \in Nat
      BY <1>4, <2>1
    <3>3. a > b \/ a = b
      BY <3>1 DEF Precedes
    <3>4. a < Prio[t]
      BY <2>1
    <3> HIDE DEF a, b
    <3>5. Prio[t] > b
      BY <1>5, <3>2, <3>3, <3>4
    <3> QED
      BY <3>5 DEF Precedes, b
  <2> QED
    BY <2>2, <2>3
<1>a. ASSUME NEW i \in 1 .. Len(queue), NEW k \in 1 .. Len(queue), i < k
      PROVE  Precedes(queue[i], queue[k], at)
  BY <1>3, <1>a DEF Sorted
<1>8. ASSUME NEW i \in 1 .. Len(queue) + 1, NEW k \in 1 .. Len(queue) + 1, i < k
      PROVE  Precedes(q[i], q[k], at)
  <2>1. CASE k < p
    <3>1. i \in 1 .. p - 1 /\ k \in 1 .. p - 1
          /\ i \in 1 .. Len(queue) /\ k \in 1 .. Len(queue)
      BY <1>1, <1>8, <2>1
    <3>2. q[i] = queue[i] /\ q[k] = queue[k]
      BY <1>2, <3>1
    <3> QED
      BY <1>8, <1>a, <3>1, <3>2
  <2>2. CASE k = p
    <3>1. i \in 1 .. p - 1
      BY <1>1, <1>8, <2>2
    <3> QED
      BY <1>2, <1>6, <2>2, <3>1
  <2>3. CASE k > p
    <3> DEFINE m == k - 1
    <3>1. m \in p .. Len(queue) /\ m \in 1 .. Len(queue) /\ k \in p + 1 .. Len(queue) + 1
      BY <1>1, <2>3
    <3>2. q[k] = queue[m]
      BY <1>2, <3>1
    <3> HIDE DEF m
    <3>3. CASE i < p
      <4>1. i \in 1 .. p - 1 /\ i \in 1 .. Len(queue) /\ i < m
        BY <1>1, <3>1, <3>3
      <4>2. q[i] = queue[i]
        BY <1>2, <4>1
      <4> QED
        BY <1>a, <3>1, <3>2, <4>1, <4>2
    <3>4. CASE i = p
      BY <1>2, <1>7, <3>1, <3>2, <3>4
    <3>5. CASE i > p
      <4> DEFINE j == i - 1
      <4>1. j \in 1 .. Len(queue) /\ i \in p + 1 .. Len(queue) + 1 /\ j < m
        BY <1>1, <1>8, <3>5 DEF m
      <4>2. q[i] = queue[j]
        BY <1>2, <4>1
      <4> HIDE DEF j
      <4> QED
        BY <1>a, <3>1, <3>2, <4>1, <4>2
    <3> QED
      BY <1>1, <3>3, <3>4, <3>5
  <2> QED
    BY <1>1, <2>1, <2>2, <2>3
<1> QED
  BY <1>3, <1>8 DEF Sorted, q

-----------------------------------------------------------------------------
(* The drain.                                                              *)

\* Shifting n jobs off the list.
LEMMA ShiftIs ==
  ASSUME NEW queue \in Seq(Tasks), IsInjective(queue), NEW n \in 0 .. Len(queue)
  PROVE  LET first == ToSet(SubSeq(queue, 1, n))
             rest == SubSeq(queue, n + 1, Len(queue))
         IN /\ first = {queue[i] : i \in 1 .. n}
            /\ Cardinality(first) = n
            /\ rest \in Seq(Tasks)
            /\ Len(rest) = Len(queue) - n
            /\ \A i \in 1 .. Len(queue) - n : rest[i] = queue[n + i]
            /\ IsInjective(rest)
            /\ ToSet(rest) = ToSet(queue) \ first
<1> DEFINE front == SubSeq(queue, 1, n)
           rest == SubSeq(queue, n + 1, Len(queue))
           first == {queue[i] : i \in 1 .. n}
<1>1. /\ Len(queue) \in Nat /\ n \in Nat /\ n <= Len(queue)
      /\ DOMAIN queue = 1 .. Len(queue)
      /\ \A i \in 1 .. Len(queue) : queue[i] \in Tasks
  OBVIOUS
<1>2. /\ front \in Seq(Tasks) /\ Len(front) = n
      /\ \A i \in 1 .. n : front[i] = queue[i]
  BY <1>1, SubSeqProperties
<1>3. /\ rest \in Seq(Tasks) /\ Len(rest) = Len(queue) - n
      /\ \A i \in 1 .. Len(queue) - n : rest[i] = queue[n + i]
  <2> DEFINE m == n + 1
             k == Len(queue)
  <2>1. m \in Int /\ k \in Int /\ \A i \in m .. k : queue[i] \in Tasks
    BY <1>1
  <2> HIDE DEF m, k
  <2>2. /\ SubSeq(queue, m, k) \in Seq(Tasks)
        /\ Len(SubSeq(queue, m, k)) = IF m <= k THEN k - m + 1 ELSE 0
        /\ \A i \in 1 .. k - m + 1 : SubSeq(queue, m, k)[i] = queue[m + i - 1]
    BY <2>1, SubSeqProperties
  <2>3. rest = SubSeq(queue, m, k)
    BY DEF m, k
  <2> HIDE DEF rest
  <2>4. Len(rest) = Len(queue) - n
    <3>1. Len(rest) = IF m <= k THEN k - m + 1 ELSE 0
      BY <2>2, <2>3, Zenon
    <3>2. n \in Nat /\ k \in Nat /\ n <= k /\ m = n + 1
      BY <1>1 DEF m, k
    <3>3. (IF m <= k THEN k - m + 1 ELSE 0) = k - n
      BY <3>2
    <3>4. k = Len(queue)
      BY DEF k
    <3> QED
      BY <3>1, <3>3, <3>4
  <2>5. ASSUME NEW i \in 1 .. Len(queue) - n PROVE rest[i] = queue[n + i]
    <3>1. i \in 1 .. k - m + 1 /\ m + i - 1 = n + i
      BY <1>1 DEF m, k
    <3> QED
      BY <2>2, <2>3, <3>1
  <2> QED
    BY <2>2, <2>3, <2>4, <2>5
<1>4. ToSet(front) = first
  <2>1. DOMAIN front = 1 .. n
    BY <1>2
  <2> QED
    BY <1>2, <2>1 DEF ToSet
<1> HIDE DEF rest, front
<1>5. DOMAIN rest = 1 .. Len(queue) - n
  BY <1>1, <1>3
<1>6. Cardinality(first) = n
  <2> DEFINE f == [i \in 1 .. n |-> queue[i]]
  <2>1. f \in [1 .. n -> first] /\ \A v \in first : \E i \in 1 .. n : f[i] = v
    OBVIOUS
  <2>2. \A i, k \in 1 .. n : f[i] = f[k] => i = k
    BY <1>1 DEF IsInjective
  <2>3. f \in Bijection(1 .. n, first)
    BY <2>1, <2>2 DEF Bijection, Injection, Surjection, IsInjective
  <2>4. IsFiniteSet(1 .. n) /\ Cardinality(1 .. n) = n
    BY <1>1, FS_Interval
  <2> QED
    BY <2>3, <2>4, FS_Bijection DEF ExistsBijection
<1>7. IsInjective(rest)
  <2> SUFFICES ASSUME NEW i \in 1 .. Len(queue) - n, NEW k \in 1 .. Len(queue) - n,
                      rest[i] = rest[k]
               PROVE  i = k
    BY <1>5 DEF IsInjective
  <2>1. n + i \in DOMAIN queue /\ n + k \in DOMAIN queue
    BY <1>1
  <2>2. queue[n + i] = queue[n + k]
    BY <1>3
  <2>3. n + i = n + k
    BY <2>1, <2>2 DEF IsInjective
  <2> QED
    BY <1>1, <2>3
<1>8. ToSet(rest) = ToSet(queue) \ first
  <2>1. ASSUME NEW i \in 1 .. Len(queue) - n
        PROVE  rest[i] \in ToSet(queue) /\ rest[i] \notin first
    <3>1. n + i \in DOMAIN queue /\ n + i > n /\ rest[i] = queue[n + i]
      BY <1>1, <1>3
    <3>2. ASSUME NEW k \in 1 .. n PROVE queue[k] # queue[n + i]
      <4>1. k \in DOMAIN queue /\ k # n + i
        BY <1>1
      <4> QED
        BY <3>1, <4>1 DEF IsInjective
    <3> QED
      BY <3>1, <3>2 DEF ToSet
  <2>2. ASSUME NEW k \in DOMAIN queue, queue[k] \notin first
        PROVE  queue[k] \in ToSet(rest)
    <3> DEFINE i == k - n
    <3>1. k \notin 1 .. n
      BY <2>2
    <3>2. i \in 1 .. Len(queue) - n /\ n + i = k
      BY <1>1, <3>1
    <3> HIDE DEF i
    <3>3. rest[i] = queue[k]
      BY <1>3, <3>2
    <3> QED
      BY <1>5, <3>2, <3>3 DEF ToSet
  <2>3. ASSUME NEW v \in ToSet(rest) PROVE v \in ToSet(queue) \ first
    <3>1. PICK i \in 1 .. Len(queue) - n : v = rest[i]
      BY <1>5 DEF ToSet
    <3> QED
      BY <2>1, <3>1
  <2>4. ASSUME NEW v \in ToSet(queue) \ first PROVE v \in ToSet(rest)
    <3>1. PICK k \in DOMAIN queue : v = queue[k]
      BY DEF ToSet
    <3> QED
      BY <2>2, <3>1
  <2> QED
    BY <2>3, <2>4
<1> QED
  BY <1>3, <1>4, <1>6, <1>7, <1>8, Zenon DEF rest, front

\* A sorted list splits into two, and what is shifted precedes what stays.
LEMMA ShiftSorted ==
  ASSUME NEW queue \in Seq(Tasks), IsInjective(queue), NEW n \in 0 .. Len(queue),
         NEW at, Sorted(queue, at)
  PROVE  LET first == ToSet(SubSeq(queue, 1, n))
             rest == SubSeq(queue, n + 1, Len(queue))
         IN /\ Sorted(rest, at)
            /\ \A u \in first, v \in ToSet(rest) : Precedes(u, v, at)
<1> DEFINE first == ToSet(SubSeq(queue, 1, n))
           rest == SubSeq(queue, n + 1, Len(queue))
<1>1. /\ first = {queue[i] : i \in 1 .. n}
      /\ rest \in Seq(Tasks) /\ Len(rest) = Len(queue) - n
      /\ \A i \in 1 .. Len(queue) - n : rest[i] = queue[n + i]
  BY ShiftIs
<1> HIDE DEF first, rest
<1>2. DOMAIN rest = 1 .. Len(queue) - n /\ DOMAIN queue = 1 .. Len(queue)
  BY <1>1
<1>3. Len(queue) \in Nat /\ n \in Nat /\ n <= Len(queue)
  OBVIOUS
<1>4. ASSUME NEW i \in 1 .. Len(queue) - n, NEW k \in 1 .. Len(queue) - n, i < k
      PROVE  Precedes(rest[i], rest[k], at)
  <2>1. n + i \in DOMAIN queue /\ n + k \in DOMAIN queue /\ n + i < n + k
    BY <1>2, <1>3, <1>4
  <2> QED
    BY <1>1, <2>1 DEF Sorted
<1>5. ASSUME NEW u \in first, NEW v \in ToSet(rest) PROVE Precedes(u, v, at)
  <2>1. PICK i \in 1 .. n : u = queue[i]
    BY <1>1
  <2>2. PICK k \in 1 .. Len(queue) - n : v = rest[k]
    BY <1>2 DEF ToSet
  <2>3. i \in DOMAIN queue /\ n + k \in DOMAIN queue /\ i < n + k
    BY <1>2, <1>3
  <2>4. v = queue[n + k]
    BY <1>1, <2>2
  <2> QED
    BY <2>1, <2>3, <2>4 DEF Sorted
<1>6. Sorted(rest, at)
  BY <1>2, <1>4 DEF Sorted
<1> QED
  BY <1>5, <1>6, Zenon DEF first, rest

Runs == {"none", "running", "settled", "done", "lost"}
Calls == {"new", "allowed", "accepted", "overBudget", "queueFull", "lost"}
ActiveIn(r) == {t \in Tasks : r[t] \in {"running", "settled"}}

\* Sets of jobs have a size, and disjoint ones add up.
LEMMA SizeOf ==
  ASSUME NEW S \in SUBSET Tasks
  PROVE  IsFiniteSet(S) /\ Cardinality(S) \in Nat
BY FS_Subset, FS_CardinalityType

LEMMA SizeOfDisjoint ==
  ASSUME NEW S \in SUBSET Tasks, NEW R \in SUBSET Tasks, S \cap R = {}
  PROVE  Cardinality(S \cup R) = Cardinality(S) + Cardinality(R)
<1>1. IsFiniteSet(S) /\ IsFiniteSet(R)
  BY SizeOf
<1>2. Cardinality(S \cup R) = Cardinality(S) + Cardinality(R) - Cardinality(S \cap R)
  BY <1>1, FS_Union
<1>3. Cardinality(S \cap R) = 0
  BY FS_EmptySet
<1> QED
  BY <1>2, <1>3, SizeOf

\* A drain of this list in serving order, with this counter and these executions.
Drains(queue, at, busy, after) ==
  /\ pending' \in Seq(Tasks) /\ IsInjective(pending')
  /\ Sorted(pending', at)
  /\ run' \in [Tasks -> Runs]
  /\ processing' = Cardinality(ActiveIn(run')) /\ processing' <= Concurrency
  /\ \E best \in SUBSET ToSet(queue) :
       /\ ToSet(pending') = ToSet(queue) \ best
       /\ run' = [t \in Tasks |-> IF t \in best THEN "running" ELSE after[t]]
       /\ busy + Cardinality(best) = processing'
       /\ busy + Cardinality(best) = Concurrency \/ best = ToSet(queue)
       /\ \A u \in best, v \in ToSet(queue) \ best : Precedes(u, v, at)

\* The drain loop, in one: it takes the first jobs of the list, as many as there
\* is room for, and the counter stays the number of executions.
LEMMA DrainIs ==
  ASSUME NEW queue \in Seq(Tasks), IsInjective(queue),
         NEW at, Sorted(queue, at),
         NEW after \in [Tasks -> Runs], \A t \in ToSet(queue) : after[t] = "none",
         NEW busy, busy = Cardinality(ActiveIn(after)), busy <= Concurrency,
         Drain(queue, busy, after)
  PROVE  Drains(queue, at, busy, after)
<1> DEFINE n == Taken(busy, queue)
           best == ToSet(SubSeq(queue, 1, n))
<1>0. busy \in 0 .. Concurrency
  <2>1. ActiveIn(after) \in SUBSET Tasks
    BY DEF ActiveIn
  <2> QED
    BY <2>1, SizeOf
<1>1. /\ n \in 0 .. Len(queue)
      /\ busy + n <= Concurrency
      /\ busy + n = Concurrency \/ n = Len(queue)
  BY <1>0, TakenIs
<1>2. /\ pending' = SubSeq(queue, n + 1, Len(queue))
      /\ processing' = busy + n
      /\ run' = [t \in Tasks |-> IF t \in best THEN "running" ELSE after[t]]
  BY DEF Drain
<1> HIDE DEF n
<1>3. /\ best = {queue[i] : i \in 1 .. n}
      /\ Cardinality(best) = n
      /\ pending' \in Seq(Tasks) /\ IsInjective(pending')
      /\ ToSet(pending') = ToSet(queue) \ best
  BY <1>1, <1>2, ShiftIs
<1>4. /\ Sorted(pending', at)
      /\ \A u \in best, v \in ToSet(pending') : Precedes(u, v, at)
  BY <1>1, <1>2, ShiftSorted
<1> HIDE DEF best
<1>5. \A i \in 1 .. Len(queue) : queue[i] \in ToSet(queue) /\ queue[i] \in Tasks
  BY DEF ToSet
<1>6. best \in SUBSET ToSet(queue) /\ best \in SUBSET Tasks
  BY <1>1, <1>3, <1>5
<1>7. n = Len(queue) => best = ToSet(queue)
  <2>1. DOMAIN queue = 1 .. Len(queue)
    OBVIOUS
  <2> QED
    BY <1>3, <2>1 DEF ToSet
<1>8. run' \in [Tasks -> Runs]
  BY <1>2 DEF Runs
<1>9. processing' = Cardinality(ActiveIn(run'))
  <2>1. /\ ActiveIn(run') = ActiveIn(after) \cup best
        /\ ActiveIn(after) \cap best = {}
        /\ ActiveIn(after) \in SUBSET Tasks
    BY <1>2, <1>6 DEF ActiveIn
  <2> QED
    BY <1>2, <1>3, <1>6, <2>1, SizeOfDisjoint
<1>10. busy + Cardinality(best) = processing'
       /\ (busy + Cardinality(best) = Concurrency \/ best = ToSet(queue))
       /\ processing' <= Concurrency
  BY <1>1, <1>2, <1>3, <1>7
<1> QED
  BY <1>2, <1>3, <1>4, <1>6, <1>8, <1>9, <1>10, Zenon DEF Drains

-----------------------------------------------------------------------------
(* The invariant.                                                          *)

\* The list in order, places in the order of joining, a counter within its
\* limit, and no execution of a job that was not accepted.
QueueInv ==
  /\ TypeOK
  /\ PendingOrdered
  /\ joins \in Nat
  /\ enqueuedAt \in [Tasks -> Nat]
  /\ \A t \in Tasks : enqueuedAt[t] <= joins
  /\ processing <= Concurrency
  /\ \A t \in Tasks : run[t] # "none" => call[t] = "accepted"

LEMMA InvParts ==
  ASSUME QueueInv
  PROVE  /\ pending \in Seq(Tasks) /\ IsInjective(pending)
         /\ Sorted(pending, enqueuedAt)
         /\ run \in [Tasks -> Runs] /\ call \in [Tasks -> Calls]
         /\ processing = Cardinality(ActiveIn(run)) /\ processing <= Concurrency
         /\ \A t \in ToSet(pending) : t \in Tasks /\ call[t] = "accepted" /\ run[t] = "none"
         /\ joins \in Nat /\ enqueuedAt \in [Tasks -> Nat]
         /\ \A t \in Tasks : enqueuedAt[t] <= joins
         /\ \A t \in Tasks : run[t] # "none" => call[t] = "accepted"
<1>1. pending \in Seq(Tasks) => \A t \in ToSet(pending) : t \in Tasks
  BY DEF ToSet
<1> QED
  BY <1>1 DEF QueueInv, TypeOK, PendingOrdered, Sorted, Precedes, Runs, Calls, ActiveIn

LEMMA InvNext ==
  ASSUME pending' \in Seq(Tasks), IsInjective(pending'), Sorted(pending', enqueuedAt'),
         run' \in [Tasks -> Runs], call' \in [Tasks -> Calls],
         processing' = Cardinality(ActiveIn(run')), processing' <= Concurrency,
         \A t \in ToSet(pending') : call'[t] = "accepted" /\ run'[t] = "none",
         joins' \in Nat, enqueuedAt' \in [Tasks -> Nat],
         \A t \in Tasks : enqueuedAt'[t] <= joins',
         \A t \in Tasks : run'[t] # "none" => call'[t] = "accepted"
  PROVE  QueueInv'
BY DEF QueueInv, TypeOK, PendingOrdered, Sorted, Precedes, Runs, Calls, ActiveIn

\* Sorting looks only at the places of the jobs in the list.
LEMMA SortedSame ==
  ASSUME NEW queue, NEW at, NEW bt, Sorted(queue, at),
         \A i \in DOMAIN queue : bt[queue[i]] = at[queue[i]]
  PROVE  Sorted(queue, bt)
BY DEF Sorted, Precedes

\* What Enqueue hands to the drain: the list with the new job in its place.
LEMMA Inserted ==
  ASSUME QueueInv, NEW t \in Tasks, Enqueue(t)
  PROVE  LET q == Insert(pending, t)
         IN /\ t \notin ToSet(pending) /\ run[t] = "none"
            /\ enqueuedAt' \in [Tasks -> Nat] /\ joins' = joins + 1
            /\ enqueuedAt' = [enqueuedAt EXCEPT ![t] = joins + 1]
            /\ call' = [call EXCEPT ![t] = "accepted"]
            /\ q \in Seq(Tasks) /\ IsInjective(q)
            /\ ToSet(q) = ToSet(pending) \cup {t}
            /\ Sorted(q, enqueuedAt')
            /\ \A u \in ToSet(q) : u \in Tasks /\ run[u] = "none"
            /\ Drain(q, processing, run)
<1>1. /\ enqueuedAt' = [enqueuedAt EXCEPT ![t] = joins + 1]
      /\ call' = [call EXCEPT ![t] = "accepted"]
      /\ joins' = joins + 1
      /\ Drain(Insert(pending, t), processing, run)
      /\ call[t] # "accepted"
  BY DEF Enqueue, AtQueue
<1>2. /\ pending \in Seq(Tasks) /\ IsInjective(pending)
      /\ Sorted(pending, enqueuedAt)
      /\ \A u \in ToSet(pending) : u \in Tasks /\ call[u] = "accepted" /\ run[u] = "none"
      /\ joins \in Nat /\ enqueuedAt \in [Tasks -> Nat]
      /\ \A u \in Tasks : enqueuedAt[u] <= joins
      /\ \A u \in Tasks : run[u] # "none" => call[u] = "accepted"
  BY InvParts
<1>3. t \notin ToSet(pending) /\ run[t] = "none"
  BY <1>1, <1>2
<1>4. enqueuedAt' \in [Tasks -> Nat]
  BY <1>1, <1>2
<1>5. ASSUME NEW i \in DOMAIN pending
      PROVE  /\ enqueuedAt'[pending[i]] = enqueuedAt[pending[i]]
             /\ enqueuedAt'[pending[i]] < enqueuedAt'[t]
  <2>1. pending[i] \in ToSet(pending)
    BY DEF ToSet
  <2>2. pending[i] \in Tasks /\ pending[i] # t
    BY <1>2, <1>3, <2>1
  <2>3. enqueuedAt'[pending[i]] = enqueuedAt[pending[i]] /\ enqueuedAt'[t] = joins + 1
    BY <1>1, <1>2, <2>2
  <2> QED
    BY <1>2, <2>2, <2>3
<1>6. Sorted(pending, enqueuedAt')
  BY <1>2, <1>5, SortedSame
<1>7. Sorted(Insert(pending, t), enqueuedAt')
  BY <1>2, <1>4, <1>5, <1>6, InsertSorted
<1>8. Insert(pending, t) \in Seq(Tasks)
  BY <1>2, InsertIs
<1>9. /\ ToSet(Insert(pending, t)) = ToSet(pending) \cup {t}
      /\ IsInjective(Insert(pending, t))
  BY <1>2, <1>3, InsertSet
<1> QED
  BY <1>1, <1>2, <1>3, <1>4, <1>7, <1>8, <1>9, Zenon

\* What Release hands to the drain: the executions without the finished one.
LEMMA Released ==
  ASSUME QueueInv, NEW t \in Tasks, Release(t)
  PROVE  LET after == [run EXCEPT ![t] = "done"]
         IN /\ after \in [Tasks -> Runs]
            /\ t \notin ToSet(pending) /\ call[t] = "accepted"
            /\ \A u \in ToSet(pending) : after[u] = "none"
            /\ processing - 1 = Cardinality(ActiveIn(after))
            /\ processing - 1 <= Concurrency
            /\ Drain(pending, processing - 1, after)
<1> DEFINE after == [run EXCEPT ![t] = "done"]
<1>1. run[t] = "settled" /\ Drain(pending, processing - 1, after)
  BY DEF Release
<1>2. /\ run \in [Tasks -> Runs]
      /\ processing = Cardinality(ActiveIn(run)) /\ processing <= Concurrency
      /\ \A u \in ToSet(pending) : u \in Tasks /\ run[u] = "none"
      /\ \A u \in Tasks : run[u] # "none" => call[u] = "accepted"
  BY InvParts
<1>3. /\ after \in [Tasks -> Runs] /\ t \notin ToSet(pending) /\ call[t] = "accepted"
      /\ \A u \in ToSet(pending) : after[u] = "none"
  BY <1>1, <1>2 DEF Runs
<1>4. /\ ActiveIn(run) \in SUBSET Tasks /\ t \in ActiveIn(run)
      /\ ActiveIn(after) = ActiveIn(run) \ {t}
  BY <1>1, <1>2 DEF ActiveIn
<1> HIDE DEF after
<1>5. Cardinality(ActiveIn(after)) = processing - 1 /\ processing \in Nat
  BY <1>2, <1>4, SizeOf, FS_RemoveElement
<1> QED
  BY <1>1, <1>2, <1>3, <1>5 DEF after

LEMMA InvInit == Init => QueueInv
<1> SUFFICES ASSUME Init PROVE QueueInv
  OBVIOUS
<1>1. ActiveIn(run) = {} /\ ToSet(pending) = {} /\ DOMAIN pending = {}
  BY DEF Init, ActiveIn, ToSet
<1>2. Cardinality(ActiveIn(run)) = 0
  BY <1>1, FS_EmptySet
<1>3. TypeOK
  BY <1>1, <1>2 DEF Init, TypeOK, ActiveIn, IsInjective
<1>4. PendingOrdered
  BY <1>1 DEF PendingOrdered
<1> QED
  BY <1>3, <1>4 DEF Init, QueueInv

LEMMA InvKept == QueueInv /\ [Next]_vars => QueueInv'
<1> SUFFICES ASSUME QueueInv, [Next]_vars PROVE QueueInv'
  OBVIOUS
<1>0. /\ pending \in Seq(Tasks) /\ IsInjective(pending)
      /\ Sorted(pending, enqueuedAt)
      /\ run \in [Tasks -> Runs] /\ call \in [Tasks -> Calls]
      /\ processing = Cardinality(ActiveIn(run)) /\ processing <= Concurrency
      /\ \A t \in ToSet(pending) : t \in Tasks /\ call[t] = "accepted" /\ run[t] = "none"
      /\ joins \in Nat /\ enqueuedAt \in [Tasks -> Nat]
      /\ \A t \in Tasks : enqueuedAt[t] <= joins
      /\ \A t \in Tasks : run[t] # "none" => call[t] = "accepted"
  BY InvParts
<1>1. ASSUME NEW t \in Tasks, Check(t) \/ RejectFull(t) PROVE QueueInv'
  <2>1. /\ UNCHANGED <<pending, processing, run, joins, enqueuedAt>>
        /\ call' \in [Tasks -> Calls] /\ call[t] # "accepted"
        /\ \A u \in Tasks : u # t => call'[u] = call[u]
    BY <1>0, <1>1 DEF Check, RejectFull, AtQueue, Calls
  <2>2. \A u \in Tasks : call[u] = "accepted" => call'[u] = "accepted"
    BY <2>1
  <2> QED
    BY <1>0, <2>1, <2>2, InvNext
<1>2. ASSUME NEW t \in Tasks, Enqueue(t) PROVE QueueInv'
  <2> DEFINE q == Insert(pending, t)
  <2>1. /\ t \notin ToSet(pending) /\ run[t] = "none"
        /\ enqueuedAt' \in [Tasks -> Nat] /\ joins' = joins + 1
        /\ enqueuedAt' = [enqueuedAt EXCEPT ![t] = joins + 1]
        /\ call' = [call EXCEPT ![t] = "accepted"]
        /\ q \in Seq(Tasks) /\ IsInjective(q)
        /\ ToSet(q) = ToSet(pending) \cup {t}
        /\ Sorted(q, enqueuedAt')
        /\ \A u \in ToSet(q) : u \in Tasks /\ run[u] = "none"
        /\ Drain(q, processing, run)
    BY <1>2, Inserted
  <2> HIDE DEF q
  <2>2. /\ pending' \in Seq(Tasks) /\ IsInjective(pending')
        /\ Sorted(pending', enqueuedAt')
        /\ run' \in [Tasks -> Runs]
        /\ processing' = Cardinality(ActiveIn(run')) /\ processing' <= Concurrency
        /\ \E best \in SUBSET ToSet(q) :
             /\ ToSet(pending') = ToSet(q) \ best
             /\ run' = [u \in Tasks |-> IF u \in best THEN "running" ELSE run[u]]
    <3>1. /\ run \in [Tasks -> Runs]
          /\ processing = Cardinality(ActiveIn(run)) /\ processing <= Concurrency
      BY <1>0
    <3>2. /\ q \in Seq(Tasks) /\ IsInjective(q) /\ Sorted(q, enqueuedAt')
          /\ \A u \in ToSet(q) : run[u] = "none"
          /\ Drain(q, processing, run)
      BY <2>1
    <3>3. Drains(q, enqueuedAt', processing, run)
      BY <3>1, <3>2, DrainIs
    <3> QED
      BY <3>3, Zenon DEF Drains
  <2>3. call' \in [Tasks -> Calls] /\ \A u \in ToSet(q) : call'[u] = "accepted"
    BY <1>0, <2>1 DEF Calls
  <2>4. \A u \in ToSet(pending') : call'[u] = "accepted" /\ run'[u] = "none"
    BY <2>1, <2>2, <2>3
  <2>5. \A u \in Tasks : run'[u] # "none" => call'[u] = "accepted"
    BY <1>0, <2>1, <2>2, <2>3
  <2>6. joins' \in Nat /\ \A u \in Tasks : enqueuedAt'[u] <= joins'
    BY <1>0, <2>1
  <2> QED
    BY <2>1, <2>2, <2>3, <2>4, <2>5, <2>6, InvNext
<1>3. ASSUME NEW t \in Tasks, Settle(t) PROVE QueueInv'
  <2>1. /\ UNCHANGED <<call, pending, processing, joins, enqueuedAt>>
        /\ run[t] = "running" /\ run' = [run EXCEPT ![t] = "settled"]
    BY <1>3 DEF Settle
  <2>2. /\ run' \in [Tasks -> Runs] /\ ActiveIn(run') = ActiveIn(run)
        /\ \A u \in Tasks : run[u] = "none" <=> run'[u] = "none"
    BY <1>0, <2>1 DEF Runs, ActiveIn
  <2> QED
    BY <1>0, <2>1, <2>2, InvNext
<1>4. ASSUME NEW t \in Tasks, Release(t) PROVE QueueInv'
  <2> DEFINE after == [run EXCEPT ![t] = "done"]
  <2>1. /\ after \in [Tasks -> Runs]
        /\ call[t] = "accepted"
        /\ \A u \in ToSet(pending) : after[u] = "none"
        /\ processing - 1 = Cardinality(ActiveIn(after))
        /\ processing - 1 <= Concurrency
        /\ Drain(pending, processing - 1, after)
    BY <1>4, Released
  <2>2. \A u \in Tasks : after[u] # "none" => call[u] = "accepted"
    BY <1>0, <2>1
  <2> HIDE DEF after
  <2>3. UNCHANGED <<call, joins, enqueuedAt>>
    BY <1>4 DEF Release
  <2>4. /\ pending' \in Seq(Tasks) /\ IsInjective(pending')
        /\ Sorted(pending', enqueuedAt)
        /\ run' \in [Tasks -> Runs]
        /\ processing' = Cardinality(ActiveIn(run')) /\ processing' <= Concurrency
        /\ \E best \in SUBSET ToSet(pending) :
             /\ ToSet(pending') = ToSet(pending) \ best
             /\ run' = [u \in Tasks |-> IF u \in best THEN "running" ELSE after[u]]
    <3>1. Drains(pending, enqueuedAt, processing - 1, after)
      BY <1>0, <2>1, DrainIs
    <3> QED
      BY <3>1, Zenon DEF Drains
  <2>5. \A u \in ToSet(pending') : call[u] = "accepted" /\ run'[u] = "none"
    BY <1>0, <2>1, <2>4
  <2>6. \A u \in Tasks : run'[u] # "none" => call[u] = "accepted"
    BY <1>0, <2>2, <2>4
  <2> QED
    BY <1>0, <2>3, <2>4, <2>5, <2>6, InvNext
<1>5. CASE Crash
  <2>1. /\ UNCHANGED <<joins, enqueuedAt>>
        /\ pending' = <<>> /\ processing' = 0
        /\ call' = [u \in Tasks |-> IF call[u] = "allowed" THEN "lost" ELSE call[u]]
        /\ run' = [u \in Tasks |->
                     IF u \in ToSet(pending) \/ run[u] \in {"running", "settled"}
                     THEN "lost" ELSE run[u]]
    BY <1>5 DEF Crash
  <2>2. run' \in [Tasks -> Runs] /\ call' \in [Tasks -> Calls] /\ ActiveIn(run') = {}
    BY <1>0, <2>1 DEF Runs, Calls, ActiveIn
  <2>3. processing' = Cardinality(ActiveIn(run')) /\ processing' <= Concurrency
    BY <2>1, <2>2, FS_EmptySet
  <2>4. \A u \in Tasks : run'[u] # "none" => call'[u] = "accepted"
    BY <1>0, <2>1
  <2>5. DOMAIN pending' = {} /\ pending' \in Seq(Tasks)
    BY <2>1
  <2>6. IsInjective(pending') /\ Sorted(pending', enqueuedAt') /\ ToSet(pending') = {}
    BY <2>5 DEF IsInjective, Sorted, ToSet
  <2> QED
    BY <1>0, <2>1, <2>2, <2>3, <2>4, <2>5, <2>6, InvNext
<1>6. CASE Direct \/ UNCHANGED vars
  <2>1. UNCHANGED <<call, pending, processing, run, joins, enqueuedAt>>
    BY <1>6 DEF Direct, vars
  <2> QED
    BY <1>0, <2>1, InvNext
<1> QED
  BY <1>1, <1>2, <1>3, <1>4, <1>5, <1>6 DEF Next, Step

\* Every variable keeps its type, the counter is the number of executions in
\* flight, and a job waits at most once and only before it has run (enqueue,
\* drain, executeJob's finally).
THEOREM TypeCorrect == Spec => []TypeOK
<1>1. QueueInv => TypeOK
  BY DEF QueueInv
<1> QED
  BY <1>1, InvInit, InvKept, PTL DEF Spec

\* The list is in serving order after any number of insertions and shifts, for
\* any priorities.
THEOREM PendingStaysOrdered == Spec => []PendingOrdered
<1>1. QueueInv => PendingOrdered
  BY DEF QueueInv
<1> QED
  BY <1>1, InvInit, InvKept, PTL DEF Spec

-----------------------------------------------------------------------------
(* The refinement.                                                         *)

\* Where AgentDispatch sees the jobs.
Phase == [t \in Tasks |-> PhaseOf(t)]

\* The phase of a job, from the list's jobs, the executions and the calls.
PhaseGiven(waiting, r, c, t) ==
  IF t \in waiting THEN "queued"
  ELSE IF r[t] = "settled" THEN "charged"
  ELSE IF r[t] \in {"running", "done", "lost"} THEN r[t] ELSE c[t]

LEMMA PhaseShape ==
  ASSUME QueueInv
  PROVE  Phase = [t \in Tasks |-> PhaseGiven(ToSet(pending), run, call, t)]
<1> SUFFICES ASSUME NEW t \in Tasks
             PROVE  PhaseOf(t) = PhaseGiven(ToSet(pending), run, call, t)
  BY DEF Phase
<1>1. t \in ToSet(pending) => run[t] = "none"
  BY InvParts
<1> QED
  BY <1>1 DEF PhaseOf, PhaseGiven

LEMMA PhaseShapeNext ==
  ASSUME QueueInv'
  PROVE  Phase' = [t \in Tasks |-> PhaseGiven(ToSet(pending'), run', call', t)]
<1> SUFFICES ASSUME NEW t \in Tasks
             PROVE  PhaseOf(t)' = PhaseGiven(ToSet(pending'), run', call', t)
  BY DEF Phase
<1>1. t \in ToSet(pending') => run'[t] = "none"
  BY DEF QueueInv, TypeOK
<1> QED
  BY <1>1 DEF PhaseOf, PhaseGiven

\* AgentDispatch counts as this module does.
LEMMA SameSize == \A S : Dispatch!Cardinality(S) = Cardinality(S)
BY DEF Dispatch!Cardinality, Cardinality

LEMMA PhaseFacts ==
  ASSUME QueueInv, NEW t \in Tasks
  PROVE  /\ Phase[t] = "queued" <=> t \in ToSet(pending)
         /\ Phase[t] = "running" <=> run[t] = "running"
         /\ Phase[t] = "charged" <=> run[t] = "settled"
         /\ Phase[t] = "allowed" <=> call[t] = "allowed"
         /\ Phase[t] = "new" <=> call[t] = "new"
<1>1. /\ run \in [Tasks -> Runs] /\ call \in [Tasks -> Calls]
      /\ t \in ToSet(pending) => call[t] = "accepted" /\ run[t] = "none"
      /\ run[t] # "none" => call[t] = "accepted"
  BY InvParts
<1>2. Phase[t] = PhaseGiven(ToSet(pending), run, call, t)
  BY PhaseShape
<1> QED
  BY <1>1, <1>2 DEF PhaseGiven, Runs, Calls

LEMMA CheckSimulates ==
  ASSUME QueueInv, QueueInv', NEW t \in Tasks, Check(t)
  PROVE  Dispatch!Check(t)
<1>1. /\ call[t] = "new" /\ t \in Metered
      /\ Cardinality({u \in Tasks : call[u] = "allowed"}) < MaxCallers
      /\ call' = [call EXCEPT ![t] = IF Allows(spent) THEN "allowed" ELSE "overBudget"]
      /\ bypassed' = IF Allows(spent) THEN 0 ELSE bypassed
      /\ UNCHANGED <<pending, run, joins, enqueuedAt, spent, crashesLeft>>
  BY DEF Check
<1>2. Phase[t] = "new"
  BY <1>1, PhaseFacts
<1>3. {u \in Tasks : Phase[u] = "allowed"} = {u \in Tasks : call[u] = "allowed"}
  BY PhaseFacts
<1>4. t \notin ToSet(pending) /\ run[t] = "none" /\ call \in [Tasks -> Calls]
      /\ run \in [Tasks -> Runs]
  BY <1>1, InvParts
<1>5. Phase' = [Phase EXCEPT ![t] = IF Allows(spent) THEN "allowed" ELSE "overBudget"]
  BY <1>1, <1>4, PhaseShape, PhaseShapeNext DEF PhaseGiven
<1>6. Dispatch!Allows(spent) <=> Allows(spent)
  BY DEF Allows, NoCap, Dispatch!Allows, Dispatch!NoCap
<1>7. Dispatch!Cardinality(Dispatch!In("allowed")) < MaxCallers
  BY <1>1, <1>3, SameSize DEF Dispatch!In, Phase
<1> QED
  BY <1>1, <1>2, <1>5, <1>6, <1>7 DEF Dispatch!Check, Phase

\* The queue is as long as it has jobs.
LEMMA QueuedSize ==
  ASSUME QueueInv
  PROVE  Dispatch!Cardinality(Dispatch!In("queued")) = Len(pending)
<1>1. pending \in Seq(Tasks) /\ IsInjective(pending)
      /\ \A u \in ToSet(pending) : u \in Tasks
  BY InvParts
<1>2. Dispatch!In("queued") = ToSet(pending)
  BY <1>1, PhaseFacts DEF Dispatch!In, Phase
<1> DEFINE n == Len(pending)
<1>3. n \in 0 .. Len(pending) /\ SubSeq(pending, 1, n) = pending
  BY <1>1, SubSeqFull
<1> HIDE DEF n
<1>4. Cardinality(ToSet(SubSeq(pending, 1, n))) = n
  BY <1>1, <1>3, ShiftIs
<1>5. Cardinality(ToSet(pending)) = Len(pending)
  BY <1>3, <1>4 DEF n
<1> QED
  BY <1>2, <1>5, SameSize

LEMMA RejectSimulates ==
  ASSUME QueueInv, QueueInv', NEW t \in Tasks, RejectFull(t)
  PROVE  Dispatch!Reject(t)
<1>1. /\ AtQueue(t) /\ Len(pending) >= MaxQueueDepth
      /\ call' = [call EXCEPT ![t] = "queueFull"]
      /\ UNCHANGED <<pending, run, joins, enqueuedAt, spent, bypassed, crashesLeft>>
  BY DEF RejectFull
<1>2. Phase[t] = "allowed" \/ (Phase[t] = "new" /\ t \notin Metered)
  BY <1>1, PhaseFacts DEF AtQueue
<1>3. t \notin ToSet(pending) /\ run[t] = "none" /\ call \in [Tasks -> Calls]
      /\ run \in [Tasks -> Runs]
  BY <1>1, InvParts DEF AtQueue
<1>4. Phase' = [Phase EXCEPT ![t] = "queueFull"]
  BY <1>1, <1>3, PhaseShape, PhaseShapeNext DEF PhaseGiven
<1> QED
  BY <1>1, <1>2, <1>4, QueuedSize DEF Dispatch!Reject, Dispatch!MayJoin, Phase

\* What the drain loop takes is what AgentDispatch's drain may take: as many as
\* there is room for, and none that another waiting job precedes.
LEMMA DrainSimulates ==
  ASSUME NEW queue, NEW busy, NEW after, NEW p,
         Drains(queue, enqueuedAt', busy, after), ToSet(queue) \subseteq Tasks,
         {u \in Tasks : p[u] = "queued"} = ToSet(queue),
         Cardinality({u \in Tasks : p[u] \in {"running", "charged"}}) = busy,
         Phase' = [u \in Tasks |->
                     IF u \notin ToSet(queue) THEN p[u]
                     ELSE IF u \in ToSet(pending') THEN "queued" ELSE "running"]
  PROVE  Dispatch!Drained(p, Phase')
<1>1. PICK best \in SUBSET ToSet(queue) :
        /\ ToSet(pending') = ToSet(queue) \ best
        /\ busy + Cardinality(best) = processing'
        /\ busy + Cardinality(best) = Concurrency \/ best = ToSet(queue)
        /\ \A u \in best, v \in ToSet(queue) \ best : Precedes(u, v, enqueuedAt')
  BY DEF Drains
<1>2. processing' <= Concurrency
  BY DEF Drains
<1>3. \A u \in best, v \in ToSet(queue) \ best : Dispatch!Before(u, v)
  BY <1>1 DEF Dispatch!Before, Precedes
<1>4. Phase' = [u \in Tasks |-> IF u \in best THEN "running" ELSE p[u]]
  <2>1. ASSUME NEW u \in Tasks
        PROVE  Phase'[u] = IF u \in best THEN "running" ELSE p[u]
    BY <1>1
  <2> QED
    BY <2>1
<1> DEFINE waiting == {u \in Tasks : p[u] = "queued"}
           busyOnes == {u \in Tasks : p[u] \in {"running", "charged"}}
<1>5. best \in SUBSET waiting
      /\ Dispatch!Cardinality(busyOnes) + Dispatch!Cardinality(best) <= Concurrency
      /\ (Dispatch!Cardinality(busyOnes) + Dispatch!Cardinality(best) = Concurrency
            \/ best = waiting)
      /\ \A u \in best, v \in waiting \ best : Dispatch!Before(u, v)
  BY <1>1, <1>2, <1>3, SameSize
<1> QED
  BY <1>4, <1>5, Zenon DEF Dispatch!Drained

LEMMA JoinSimulates ==
  ASSUME QueueInv, QueueInv', NEW t \in Tasks, Enqueue(t)
  PROVE  Dispatch!Join(t)
<1> DEFINE q == Insert(pending, t)
           p == [Phase EXCEPT ![t] = "queued"]
<1>1. /\ AtQueue(t) /\ Len(pending) < MaxQueueDepth
      /\ UNCHANGED <<spent, bypassed, crashesLeft>>
  BY DEF Enqueue
<1>2. /\ t \notin ToSet(pending) /\ run[t] = "none"
      /\ joins' = joins + 1
      /\ enqueuedAt' = [enqueuedAt EXCEPT ![t] = joins + 1]
      /\ call' = [call EXCEPT ![t] = "accepted"]
      /\ q \in Seq(Tasks) /\ IsInjective(q)
      /\ ToSet(q) = ToSet(pending) \cup {t}
      /\ Sorted(q, enqueuedAt')
      /\ \A u \in ToSet(q) : u \in Tasks /\ run[u] = "none"
      /\ Drain(q, processing, run)
  BY Inserted
<1> HIDE DEF q
<1>3. /\ run \in [Tasks -> Runs] /\ call \in [Tasks -> Calls]
      /\ processing = Cardinality(ActiveIn(run)) /\ processing <= Concurrency
  BY InvParts
<1>4. Drains(q, enqueuedAt', processing, run)
  BY <1>2, <1>3, DrainIs
<1>5. Phase[t] = "allowed" \/ (Phase[t] = "new" /\ t \notin Metered)
  BY <1>1, PhaseFacts DEF AtQueue
<1>6. {u \in Tasks : p[u] = "queued"} = ToSet(q)
  <2>1. \A u \in Tasks : p[u] = "queued" <=> u = t \/ u \in ToSet(pending)
    BY PhaseFacts, PhaseShape
  <2> QED
    BY <1>2, <2>1
<1>7. Cardinality({u \in Tasks : p[u] \in {"running", "charged"}}) = processing
  <2>1. \A u \in Tasks : p[u] \in {"running", "charged"} <=> u \in ActiveIn(run)
    BY <1>2, PhaseFacts, PhaseShape DEF ActiveIn
  <2>2. {u \in Tasks : p[u] \in {"running", "charged"}} = ActiveIn(run)
    BY <2>1 DEF ActiveIn
  <2> QED
    BY <1>3, <2>2
<1>8. Phase' = [u \in Tasks |->
                  IF u \notin ToSet(q) THEN p[u]
                  ELSE IF u \in ToSet(pending') THEN "queued" ELSE "running"]
  <2>1. PICK best \in SUBSET ToSet(q) :
          /\ ToSet(pending') = ToSet(q) \ best
          /\ run' = [u \in Tasks |-> IF u \in best THEN "running" ELSE run[u]]
    BY <1>4 DEF Drains
  <2>2. Phase' = [u \in Tasks |-> PhaseGiven(ToSet(pending'), run', call', u)]
    BY PhaseShapeNext
  <2>3. ASSUME NEW u \in Tasks, u \in ToSet(q)
        PROVE  Phase'[u] = IF u \in ToSet(pending') THEN "queued" ELSE "running"
    BY <2>1, <2>2, <2>3 DEF PhaseGiven
  <2>4. ASSUME NEW u \in Tasks, u \notin ToSet(q) PROVE Phase'[u] = p[u]
    <3>1. u # t /\ u \notin ToSet(pending) /\ u \notin ToSet(pending')
          /\ run'[u] = run[u] /\ call'[u] = call[u]
      BY <1>2, <1>3, <2>1, <2>4
    <3>2. Phase'[u] = PhaseGiven(ToSet(pending), run, call, u)
      BY <2>2, <3>1 DEF PhaseGiven
    <3> QED
      BY <3>1, <3>2, PhaseShape
  <2> QED
    BY <2>2, <2>3, <2>4
<1>9. Dispatch!Drained(p, Phase')
  <2>1. ToSet(q) \subseteq Tasks
    BY <1>2
  <2> HIDE DEF p
  <2> QED
    BY <1>4, <1>6, <1>7, <1>8, <2>1, DrainSimulates
<1>10. Dispatch!Cardinality(Dispatch!In("queued")) < MaxQueueDepth
  BY <1>1, QueuedSize
<1> QED
  BY <1>1, <1>2, <1>5, <1>9, <1>10 DEF Dispatch!Join, Dispatch!MayJoin, Phase

LEMMA ChargeSimulates ==
  ASSUME QueueInv, QueueInv', NEW t \in Tasks, Settle(t)
  PROVE  Dispatch!Charge(t)
<1>1. /\ run[t] = "running" /\ run' = [run EXCEPT ![t] = "settled"]
      /\ \E cost \in 0 .. MaxCost :
           spent' = IF t \in Metered THEN spent + cost ELSE spent
      /\ UNCHANGED <<call, pending, joins, enqueuedAt, bypassed, crashesLeft>>
  BY DEF Settle
<1>2. t \notin ToSet(pending) /\ run \in [Tasks -> Runs]
  BY <1>1, InvParts
<1>3. Phase' = [Phase EXCEPT ![t] = "charged"]
  BY <1>1, <1>2, PhaseShape, PhaseShapeNext DEF PhaseGiven
<1>4. Phase[t] = "running"
  BY <1>1, PhaseFacts
<1> QED
  BY <1>1, <1>3, <1>4 DEF Dispatch!Charge, Phase

LEMMA FinishSimulates ==
  ASSUME QueueInv, QueueInv', NEW t \in Tasks, Release(t)
  PROVE  Dispatch!Finish(t)
<1> DEFINE after == [run EXCEPT ![t] = "done"]
           p == [Phase EXCEPT ![t] = "done"]
<1>1. run[t] = "settled" /\ UNCHANGED <<call, joins, enqueuedAt, spent, bypassed, crashesLeft>>
  BY DEF Release
<1>2. /\ after \in [Tasks -> Runs]
      /\ t \notin ToSet(pending)
      /\ \A u \in ToSet(pending) : after[u] = "none"
      /\ processing - 1 = Cardinality(ActiveIn(after))
      /\ processing - 1 <= Concurrency
      /\ Drain(pending, processing - 1, after)
  BY Released
<1>3. /\ run \in [Tasks -> Runs]
      /\ pending \in Seq(Tasks) /\ IsInjective(pending)
      /\ Sorted(pending, enqueuedAt)
      /\ \A u \in ToSet(pending) : u \in Tasks
  BY InvParts
<1>4. /\ after[t] = "done"
      /\ \A u \in Tasks : u # t => after[u] = run[u]
  BY <1>3
<1> HIDE DEF after
<1>5. Drains(pending, enqueuedAt, processing - 1, after)
  BY <1>2, <1>3, DrainIs
<1>6. Drains(pending, enqueuedAt', processing - 1, after)
  BY <1>1, <1>5
<1>7. /\ p[t] = "done" /\ DOMAIN p = Tasks
      /\ \A u \in Tasks : u # t => p[u] = Phase[u]
  BY PhaseShape
<1> HIDE DEF p
<1>8. {u \in Tasks : p[u] = "queued"} = ToSet(pending)
  <2>1. \A u \in Tasks : p[u] = "queued" <=> u \in ToSet(pending)
    BY <1>2, <1>7, PhaseFacts
  <2> QED
    BY <1>3, <2>1
<1>9. Cardinality({u \in Tasks : p[u] \in {"running", "charged"}}) = processing - 1
  <2>1. \A u \in Tasks : p[u] \in {"running", "charged"} <=> u \in ActiveIn(after)
    BY <1>4, <1>7, PhaseFacts DEF ActiveIn
  <2>2. {u \in Tasks : p[u] \in {"running", "charged"}} = ActiveIn(after)
    BY <2>1 DEF ActiveIn
  <2> QED
    BY <1>2, <2>2
<1>10. Phase' = [u \in Tasks |->
                   IF u \notin ToSet(pending) THEN p[u]
                   ELSE IF u \in ToSet(pending') THEN "queued" ELSE "running"]
  <2>1. PICK best \in SUBSET ToSet(pending) :
          /\ ToSet(pending') = ToSet(pending) \ best
          /\ run' = [u \in Tasks |-> IF u \in best THEN "running" ELSE after[u]]
    BY <1>6 DEF Drains
  <2>2. Phase' = [u \in Tasks |-> PhaseGiven(ToSet(pending'), run', call', u)]
    BY PhaseShapeNext
  <2>3. ASSUME NEW u \in Tasks, u \in ToSet(pending)
        PROVE  Phase'[u] = IF u \in ToSet(pending') THEN "queued" ELSE "running"
    BY <2>1, <2>2, <2>3 DEF PhaseGiven
  <2>4. ASSUME NEW u \in Tasks, u \notin ToSet(pending) PROVE Phase'[u] = p[u]
    <3>1. u \notin ToSet(pending') /\ run'[u] = after[u]
      BY <2>1, <2>4
    <3>2. Phase'[u] = PhaseGiven(ToSet(pending'), run', call', u)
      BY <2>2
    <3>3. CASE u = t
      BY <1>4, <1>7, <3>1, <3>2, <3>3 DEF PhaseGiven
    <3>4. CASE u # t
      <4>1. Phase[u] = PhaseGiven(ToSet(pending), run, call, u)
        BY PhaseShape
      <4> QED
        BY <1>1, <1>4, <1>7, <2>4, <3>1, <3>2, <3>4, <4>1 DEF PhaseGiven
    <3> QED
      BY <3>3, <3>4
  <2> QED
    BY <2>2, <2>3, <2>4
<1>11. Dispatch!Drained(p, Phase')
  <2>1. ToSet(pending) \subseteq Tasks
    BY <1>3
  <2> QED
    BY <1>6, <1>8, <1>9, <1>10, <2>1, DrainSimulates
<1>12. Phase[t] = "charged"
  BY <1>1, PhaseFacts
<1> QED
  BY <1>1, <1>11, <1>12 DEF Dispatch!Finish, Phase, p

LEMMA CrashSimulates ==
  ASSUME QueueInv, QueueInv', Crash
  PROVE  Dispatch!Crash
<1>1. /\ crashesLeft > 0 /\ crashesLeft' = crashesLeft - 1
      /\ UNCHANGED <<joins, enqueuedAt, spent, bypassed>>
      /\ pending' = <<>>
      /\ call' = [u \in Tasks |-> IF call[u] = "allowed" THEN "lost" ELSE call[u]]
      /\ run' = [u \in Tasks |->
                   IF u \in ToSet(pending) \/ run[u] \in {"running", "settled"}
                   THEN "lost" ELSE run[u]]
  BY DEF Crash
<1>2. ToSet(pending') = {}
  BY <1>1 DEF ToSet
<1>3. ASSUME NEW u \in Tasks
      PROVE  Phase'[u] = IF Phase[u] \in {"allowed", "queued", "running", "charged"}
                         THEN "lost" ELSE Phase[u]
  <2>1. /\ run[u] \in Runs /\ call[u] \in Calls
        /\ u \in ToSet(pending) => call[u] = "accepted" /\ run[u] = "none"
        /\ run[u] # "none" => call[u] = "accepted"
    BY InvParts
  <2>2. Phase[u] = PhaseGiven(ToSet(pending), run, call, u)
    BY PhaseShape
  <2>3. Phase'[u] = PhaseGiven({}, run', call', u)
    BY <1>2, PhaseShapeNext
  <2>4. /\ run'[u] = IF u \in ToSet(pending) \/ run[u] \in {"running", "settled"}
                     THEN "lost" ELSE run[u]
        /\ call'[u] = IF call[u] = "allowed" THEN "lost" ELSE call[u]
    BY <1>1
  <2> QED
    BY <2>1, <2>2, <2>3, <2>4 DEF PhaseGiven, Runs, Calls
<1>4. Phase' = [u \in Tasks |->
                  IF Phase[u] \in {"allowed", "queued", "running", "charged"}
                  THEN "lost" ELSE Phase[u]]
  BY <1>3, PhaseShapeNext
<1> QED
  BY <1>1, <1>4 DEF Dispatch!Crash, Phase

LEMMA DirectSimulates ==
  ASSUME Direct
  PROVE  Dispatch!Direct
<1>1. UNCHANGED <<call, pending, run, enqueuedAt, joins, crashesLeft>>
  BY DEF Direct
<1>2. Phase' = Phase
  BY <1>1 DEF Phase, PhaseOf
<1> QED
  BY <1>1, <1>2 DEF Direct, Dispatch!Direct, Phase

\* Every step of the queue is a step of AgentDispatch or changes nothing there.
LEMMA NextSimulates ==
  QueueInv /\ QueueInv' /\ [Next]_vars => [Dispatch!Next]_(Dispatch!vars)
<1> SUFFICES ASSUME QueueInv, QueueInv', [Next]_vars
             PROVE  [Dispatch!Next]_(Dispatch!vars)
  OBVIOUS
<1>1. ASSUME NEW t \in Tasks, Step(t) PROVE Dispatch!Step(t)
  BY <1>1, CheckSimulates, RejectSimulates, JoinSimulates, ChargeSimulates,
     FinishSimulates DEF Step, Dispatch!Step
<1>2. CASE Next
  BY <1>1, <1>2, CrashSimulates, DirectSimulates DEF Next, Dispatch!Next
<1>3. CASE UNCHANGED vars
  <2>1. UNCHANGED <<Phase, enqueuedAt, joins, spent, bypassed, crashesLeft>>
    BY <1>3 DEF vars, Phase, PhaseOf
  <2> QED
    BY <2>1 DEF Dispatch!vars, Phase
<1> QED
  BY <1>2, <1>3

LEMMA InitSimulates == Init => Dispatch!Init
<1> SUFFICES ASSUME Init PROVE Dispatch!Init
  OBVIOUS
<1>1. ToSet(pending) = {}
  BY DEF Init, ToSet
<1>2. Phase = [t \in Tasks |-> "new"]
  BY <1>1, InvInit, PhaseShape DEF Init, PhaseGiven
<1> QED
  BY <1>2 DEF Init, Dispatch!Init, Phase

\* The list, the counter and the drain loop implement choosing the best waiting
\* jobs for the free slots (enqueue, drain, executeJob), for any jobs, priorities
\* and limits.
THEOREM QueueImplementsDispatch == Spec => Implements
  BY InitSimulates, NextSimulates, InvInit, InvKept, PTL
  DEF Spec, Implements, Dispatch!Spec

-----------------------------------------------------------------------------
(* Slots.                                                                  *)

\* A job waits only while every slot is taken.
SlotsFull == pending # <<>> => processing = Concurrency

\* A drain ends with the slots full or the list empty.
LEMMA DrainsFill ==
  ASSUME NEW queue, NEW at, NEW busy, NEW after, Drains(queue, at, busy, after)
  PROVE  SlotsFull'
<1>1. PICK best \in SUBSET ToSet(queue) :
        /\ ToSet(pending') = ToSet(queue) \ best
        /\ busy + Cardinality(best) = processing'
        /\ busy + Cardinality(best) = Concurrency \/ best = ToSet(queue)
  BY DEF Drains
<1>2. CASE best = ToSet(queue)
  <2>1. pending' \in Seq(Tasks) /\ ToSet(pending') = {}
    BY <1>1, <1>2 DEF Drains
  <2>2. \A i \in 1 .. Len(pending') : pending'[i] \in ToSet(pending')
    BY <2>1 DEF ToSet
  <2>3. Len(pending') = 0
    BY <2>1, <2>2
  <2> QED
    BY <2>1, <2>3 DEF SlotsFull
<1>3. CASE busy + Cardinality(best) = Concurrency
  BY <1>1, <1>3 DEF SlotsFull
<1> QED
  BY <1>1, <1>2, <1>3

LEMMA SlotsFullKept == QueueInv /\ SlotsFull /\ [Next]_vars => SlotsFull'
<1> SUFFICES ASSUME QueueInv, SlotsFull, [Next]_vars PROVE SlotsFull'
  OBVIOUS
<1>1. ASSUME NEW t \in Tasks, Enqueue(t) PROVE SlotsFull'
  <2> DEFINE q == Insert(pending, t)
  <2>1. /\ q \in Seq(Tasks) /\ IsInjective(q)
        /\ Sorted(q, enqueuedAt')
        /\ \A u \in ToSet(q) : run[u] = "none"
        /\ Drain(q, processing, run)
    BY <1>1, Inserted
  <2> HIDE DEF q
  <2>2. /\ run \in [Tasks -> Runs]
        /\ processing = Cardinality(ActiveIn(run)) /\ processing <= Concurrency
    BY InvParts
  <2> QED
    BY <2>1, <2>2, DrainIs, DrainsFill
<1>2. ASSUME NEW t \in Tasks, Release(t) PROVE SlotsFull'
  <2> DEFINE after == [run EXCEPT ![t] = "done"]
  <2>1. /\ after \in [Tasks -> Runs]
        /\ \A u \in ToSet(pending) : after[u] = "none"
        /\ processing - 1 = Cardinality(ActiveIn(after))
        /\ processing - 1 <= Concurrency
        /\ Drain(pending, processing - 1, after)
    BY <1>2, Released
  <2> HIDE DEF after
  <2>2. pending \in Seq(Tasks) /\ IsInjective(pending) /\ Sorted(pending, enqueuedAt)
    BY InvParts
  <2> QED
    BY <2>1, <2>2, DrainIs, DrainsFill
<1>3. ASSUME NEW t \in Tasks, Check(t) \/ RejectFull(t) \/ Settle(t)
      PROVE  SlotsFull'
  BY <1>3 DEF SlotsFull, Check, RejectFull, Settle
<1>4. CASE Crash
  BY <1>4 DEF SlotsFull, Crash
<1>5. CASE Direct \/ UNCHANGED vars
  BY <1>5 DEF SlotsFull, Direct, vars
<1> QED
  BY <1>1, <1>2, <1>3, <1>4, <1>5 DEF Next, Step

\* The counter and the drain loop (executeJob's finally callback, enqueue) use
\* every slot and no more: at most Concurrency jobs execute, and exactly that many
\* while one waits, after any sequence of calls, releases and restarts.
THEOREM SlotsStayWellUsed == Spec => []SlotsWellUsed
<1>1. Init => QueueInv /\ SlotsFull
  BY InvInit DEF Init, SlotsFull
<1>2. QueueInv /\ SlotsFull /\ [Next]_vars => QueueInv' /\ SlotsFull'
  BY InvKept, SlotsFullKept
<1>3. QueueInv /\ SlotsFull => SlotsWellUsed
  <2> SUFFICES ASSUME QueueInv, SlotsFull PROVE SlotsWellUsed
    OBVIOUS
  <2>1. processing = Cardinality(ActiveIn(run)) /\ processing <= Concurrency
    BY InvParts
  <2> QED
    BY <2>1 DEF SlotsFull, SlotsWellUsed, ActiveIn
<1> QED
  BY <1>1, <1>2, <1>3, PTL DEF Spec
=============================================================================
